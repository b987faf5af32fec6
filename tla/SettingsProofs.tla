--------------------------- MODULE SettingsProofs ---------------------------
(***************************************************************************)
(* The properties of Settings for every environment, not only for those    *)
(* near the example.                                                       *)
(*                                                                         *)
(* The load returns the first of many errors.  Acceptable says without any *)
(* order which environments it accepts; that it accepts exactly those is   *)
(* the lemma the rest follows from.  The last part counts what is left to  *)
(* repair.                                                                 *)
(***************************************************************************)
EXTENDS Settings, SequenceTheorems, FiniteSetTheorems, WellFoundedInduction, TLAPS

\* The variables hold what Inputs or the example can put there.
Typed(e) == e = [n \in Names |-> e[n]]

\* What Validate demands beyond the forms of the single variables.
Sound(c) ==
    /\ parsePort(c["BACKEND_PORT"]) /\ parsePort(c["REDIS_PORT"])
    /\ \A n \in Durations \ {"POSTGRES_RETRY_TIMEOUT", "POSTGRES_CONNECT_TIMEOUT"} : c[n] > 0
    /\ c["HTTP_MAX_HEADER_BYTES"] > 0
    /\ validatePostgresURL(c["POSTGRES_DB"])
    /\ ConnsRule(c) = {} /\ IdleRule(c) = {}
    /\ c["POSTGRES_MIGRATIONS_PATH"] # None
    /\ validateHTTPURL(c["SEAWEEDFS_FILES_DOMAIN"])
    /\ c["LOG_LEVEL"] \in {"debug", "info", "warn", "error"}
    /\ c["LOG_FORMAT"] \in {"json", "text"}
    /\ c["LOG_OUTPUT"] \in {"console", "file", "both"}
    /\ ~(c["LOG_OUTPUT"] \in {"file", "both"} /\ c["LOG_FILE_PATH"] = None)

Acceptable(e) ==
    /\ Missing(e) = {}
    /\ \A n \in Names : Parses(n, e[n])
    /\ Sound(Config(e))

-----------------------------------------------------------------------------
(* The first check that fails.                                             *)

LEMMA Least ==
    ASSUME NEW S \in SUBSET Nat, S # {}
    PROVE  \E n \in S : \A m \in S : n <= m
<1> DEFINE R == OpToRel(<, Nat)
<1>1. IsWellFoundedOn(R, Nat)
  BY NatLessThanWellFounded
<1>2. \A m, n \in Nat : m < n => <<m, n>> \in R
  BY DEF OpToRel
<1> HIDE DEF R
<1>3. PICK n \in S : \A m \in S : <<m, n>> \notin R
  BY <1>1, WFMin
<1>4. \A m \in S : ~(m < n)
  BY <1>2, <1>3
<1> QED
  BY <1>4

LEMMA FirstFailedAt ==
    ASSUME NEW checks, DOMAIN checks \subseteq Nat,
           NEW i \in DOMAIN checks, checks[i] # {},
           \A j \in DOMAIN checks : j < i => checks[j] = {}
    PROVE  FirstFailed(checks) = checks[i]
<1> DEFINE failed == {j \in DOMAIN checks : checks[j] # {}}
<1>1. i \in Nat /\ failed \subseteq Nat /\ i \in failed
  OBVIOUS
<1>2. \A j \in failed : (\A k \in failed : j <= k) <=> j = i
  BY <1>1
<1>3. {j \in failed : \A k \in failed : j <= k} = {i}
  BY <1>1, <1>2
<1>4. FirstFailed(checks) = UNION {checks[j] : j \in {i}}
  BY <1>3 DEF FirstFailed
<1> QED
  BY <1>4

\* The result is empty when all hold, else it is what some failed check names.
LEMMA FirstFailedCases ==
    ASSUME NEW checks, DOMAIN checks \subseteq Nat
    PROVE  \/ FirstFailed(checks) = {} /\ \A i \in DOMAIN checks : checks[i] = {}
           \/ \E i \in DOMAIN checks : checks[i] # {} /\ FirstFailed(checks) = checks[i]
<1> DEFINE failed == {i \in DOMAIN checks : checks[i] # {}}
<1>1. CASE failed = {}
  <2>1. {j \in failed : \A k \in failed : j <= k} = {}
    BY <1>1
  <2>2. FirstFailed(checks) = UNION {checks[j] : j \in {}}
    BY <2>1 DEF FirstFailed
  <2> QED
    BY <1>1, <2>2
<1>2. CASE failed # {}
  <2>1. failed \in SUBSET Nat
    OBVIOUS
  <2>2. PICK n \in failed : \A m \in failed : n <= m
    <3> HIDE DEF failed
    <3> QED
      BY <1>2, <2>1, Least
  <2>3. \A j \in DOMAIN checks : j < n => checks[j] = {}
    BY <2>1, <2>2
  <2>4. FirstFailed(checks) = checks[n]
    BY <2>2, <2>3, FirstFailedAt
  <2> QED
    BY <2>2, <2>4
<1> QED
  BY <1>1, <1>2

-----------------------------------------------------------------------------
(* The checks of the load.                                                 *)

LEMMA RulesSound ==
    ASSUME NEW c
    PROVE  /\ DOMAIN Rules(c) = 1 .. 19
           /\ (\A i \in 1 .. 19 : Rules(c)[i] = {}) <=> Sound(c)
<1>1. DOMAIN Rules(c) = 1 .. 19
  BY DEF Rules
<1>2. /\ Rules(c)[1] = {} <=> parsePort(c["BACKEND_PORT"])
      /\ Rules(c)[2] = {} <=> c["HTTP_READ_TIMEOUT"] > 0
      /\ Rules(c)[3] = {} <=> c["HTTP_READ_HEADER_TIMEOUT"] > 0
      /\ Rules(c)[4] = {} <=> c["HTTP_WRITE_TIMEOUT"] > 0
      /\ Rules(c)[5] = {} <=> c["HTTP_IDLE_TIMEOUT"] > 0
      /\ Rules(c)[6] = {} <=> c["HTTP_SHUTDOWN_TIMEOUT"] > 0
      /\ Rules(c)[7] = {} <=> c["HTTP_MAX_HEADER_BYTES"] > 0
      /\ Rules(c)[8] = {} <=> validatePostgresURL(c["POSTGRES_DB"])
      /\ Rules(c)[9] = {} <=> ConnsRule(c) = {}
      /\ Rules(c)[10] = {} <=> c["POSTGRES_MIGRATIONS_PATH"] # None
  BY DEF Rules, Check, Positive
<1>3. /\ Rules(c)[11] = {} <=> parsePort(c["REDIS_PORT"])
      /\ Rules(c)[12] = {} <=> IdleRule(c) = {}
      /\ Rules(c)[13] = {} <=> c["CACHE_VIDEO_LIST_TTL"] > 0
      /\ Rules(c)[14] = {} <=> c["HEALTH_CHECK_TIMEOUT"] > 0
      /\ Rules(c)[15] = {} <=> validateHTTPURL(c["SEAWEEDFS_FILES_DOMAIN"])
      /\ Rules(c)[16] = {} <=> c["LOG_LEVEL"] \in {"debug", "info", "warn", "error"}
      /\ Rules(c)[17] = {} <=> c["LOG_FORMAT"] \in {"json", "text"}
      /\ Rules(c)[18] = {} <=> c["LOG_OUTPUT"] \in {"console", "file", "both"}
      /\ Rules(c)[19] = {} <=>
            ~(c["LOG_OUTPUT"] \in {"file", "both"} /\ c["LOG_FILE_PATH"] = None)
  BY DEF Rules, Check, Positive
<1> QED
  BY <1>1, <1>2, <1>3 DEF Sound, Durations

LEMMA ReadingsShape ==
    ASSUME NEW e
    PROVE  /\ DOMAIN Readings(e) = 1 .. 21
           /\ Readings(e)[1] = redisEndpoint(e)
           /\ Readings(e)[2] = Missing(e)
           /\ \A i \in 3 .. 21 :
                Readings(e)[i] = Check({ParseOrder[i - 2]}, Parses(ParseOrder[i - 2], e[ParseOrder[i - 2]]))
<1> DEFINE first == <<redisEndpoint(e), Check(Missing(e), Missing(e) = {})>>
           rest == [i \in 1 .. 19 |-> Check({ParseOrder[i]}, Parses(ParseOrder[i], e[ParseOrder[i]]))]
<1>1. Len(ParseOrder) = 19
  BY DEF ParseOrder
<1>2. Readings(e) = first \o rest
  BY <1>1 DEF Readings
<1>3. first \in Seq(SUBSET Names) /\ Len(first) = 2
  <2>1. redisEndpoint(e) \in SUBSET Names /\ Check(Missing(e), Missing(e) = {}) \in SUBSET Names
    BY DEF redisEndpoint, Check, Missing, Unset, Names, Required, Ports
  <2> QED
    BY <2>1
<1>4. rest \in Seq(SUBSET Names) /\ Len(rest) = 19
  <2>1. \A i \in 1 .. 19 : ParseOrder[i] \in Names
    BY DEF ParseOrder, Names, Required, Optional, Ports, Domains, Ints, Durations
  <2>2. \A i \in 1 .. 19 : rest[i] \in SUBSET Names
    BY <2>1 DEF Check
  <2>3. rest \in [1 .. 19 -> SUBSET Names]
    BY <2>2
  <2> HIDE DEF rest
  <2>4. rest \in Seq(SUBSET Names)
    BY <2>3, SeqDef
  <2>5. rest \in [1 .. Len(rest) -> SUBSET Names] /\ Len(rest) \in Nat
    BY <2>4, LenProperties
  <2>6. 1 .. Len(rest) = 1 .. 19
    <3> HIDE <2>4
    <3> QED
      BY <2>3, <2>5, Zenon
  <2>7. ASSUME NEW n \in Nat, 1 .. n = 1 .. 19 PROVE n = 19
    <3>1. (19 \in 1 .. n <=> 19 \in 1 .. 19) /\ (n \in 1 .. n <=> n \in 1 .. 19)
      BY <2>7, Zenon
    <3> QED
      BY <3>1
  <2> QED
    BY <2>4, <2>5, <2>6, <2>7, Zenon
<1>5. first[1] = redisEndpoint(e) /\ first[2] = Missing(e)
  BY DEF Check
<1>6. \A i \in 3 .. 21 :
        rest[i - 2] = Check({ParseOrder[i - 2]}, Parses(ParseOrder[i - 2], e[ParseOrder[i - 2]]))
  OBVIOUS
<1> HIDE DEF first, rest
<1>7. /\ first \o rest \in Seq(SUBSET Names)
      /\ Len(first \o rest) = Len(first) + Len(rest)
      /\ \A i \in 1 .. Len(first) + Len(rest) :
            (first \o rest)[i] = IF i <= Len(first) THEN first[i] ELSE rest[i - Len(first)]
  BY <1>3, <1>4, ConcatProperties, Zenon
<1>8. Len(first) + Len(rest) = 21
  BY <1>3, <1>4
<1>9. /\ DOMAIN (first \o rest) = 1 .. 21
      /\ \A i \in 1 .. 21 : (first \o rest)[i] = IF i <= 2 THEN first[i] ELSE rest[i - 2]
  BY <1>3, <1>7, <1>8, LenProperties, Zenon
<1>10. /\ \A i \in 3 .. 21 : i \in 1 .. 21 /\ ~(i <= 2)
       /\ 1 \in 1 .. 21 /\ 2 \in 1 .. 21 /\ 1 <= 2 /\ 2 <= 2
  OBVIOUS
<1>11. /\ Readings(e)[1] = first[1] /\ Readings(e)[2] = first[2]
       /\ \A i \in 3 .. 21 : Readings(e)[i] = rest[i - 2]
  <2> DEFINE both == first \o rest
  <2>1. \A i \in 1 .. 21 : both[i] = IF i <= 2 THEN first[i] ELSE rest[i - 2]
    BY <1>9
  <2> HIDE DEF both
  <2>2. both[1] = first[1] /\ both[2] = first[2] /\ \A i \in 3 .. 21 : both[i] = rest[i - 2]
    BY <2>1, <1>10
  <2> QED
    BY <1>2, <2>2 DEF both
<1> QED
  BY <1>2, <1>5, <1>6, <1>9, <1>11, Zenon

\* The load reads every variable that has a form of its own.
LEMMA AllAreRead ==
    ASSUME NEW n \in Ports \cup Domains \cup Ints \cup Durations, n # "REDIS_PORT"
    PROVE  \E i \in 3 .. 21 : ParseOrder[i - 2] = n
<1>1. \E j \in 1 .. 19 : ParseOrder[j] = n
  BY DEF ParseOrder, Ports, Domains, Ints, Durations
<1>2. PICK j \in 1 .. 19 : ParseOrder[j] = n
  BY <1>1
<1>3. j + 2 \in 3 .. 21 /\ (j + 2) - 2 = j
  OBVIOUS
<1> QED
  BY <1>2, <1>3

\* The load accepts exactly the acceptable environments.
LEMMA AcceptsAcceptable ==
    ASSUME NEW e
    PROVE  LoadFromLookup(e) = {} <=> Acceptable(e)
<1>1. FirstFailed(Readings(e)) = {} <=> \A i \in 1 .. 21 : Readings(e)[i] = {}
  BY ReadingsShape, FirstFailedCases
<1>2. Validate(Config(e)) = {} <=> Sound(Config(e))
  BY RulesSound, FirstFailedCases DEF Validate
<1>3. ASSUME \A i \in 1 .. 21 : Readings(e)[i] = {}
      PROVE  Missing(e) = {} /\ \A n \in Names : Parses(n, e[n])
  <2>1. Missing(e) = {} /\ redisEndpoint(e) = {}
    BY <1>3, ReadingsShape
  <2>2. parsePort(e["REDIS_PORT"])
    BY <2>1 DEF redisEndpoint, Check, Missing, Unset, Required, Ports
  <2>3. Parses("REDIS_PORT", e["REDIS_PORT"])
    BY <2>2 DEF Parses, Ports, Domains, Ints, Durations
  <2>4. ASSUME NEW n \in Names PROVE Parses(n, e[n])
    <3>1. CASE n \in Ports \cup Domains \cup Ints \cup Durations /\ n # "REDIS_PORT"
      <4>1. PICK i \in 3 .. 21 : ParseOrder[i - 2] = n
        BY <3>1, AllAreRead
      <4>2. Readings(e)[i] = {}
        BY <1>3
      <4>3. Readings(e)[i] = Check({n}, Parses(n, e[n]))
        BY <4>1, ReadingsShape
      <4> QED
        BY <4>2, <4>3 DEF Check
    <3>2. CASE n \notin Ports \cup Domains \cup Ints \cup Durations
      BY <3>2 DEF Parses
    <3> QED
      BY <3>1, <3>2, <2>3
  <2> QED
    BY <2>1, <2>4
<1>4. ASSUME Missing(e) = {}, \A n \in Names : Parses(n, e[n])
      PROVE  \A i \in 1 .. 21 : Readings(e)[i] = {}
  <2>1. \A j \in 1 .. 19 : ParseOrder[j] \in Names
    BY DEF ParseOrder, Names, Required, Optional, Ports, Domains, Ints, Durations
  <2>2. \A i \in 3 .. 21 : i - 2 \in 1 .. 19
    OBVIOUS
  <2>3. \A i \in 3 .. 21 : Readings(e)[i] = {}
    BY <1>4, <2>1, <2>2, ReadingsShape DEF Check
  <2>4. redisEndpoint(e) = {}
    <3>1. "REDIS_PORT" \in Names /\ "REDIS_PORT" \in Ports
      BY DEF Names, Required, Ports
    <3> QED
      BY <1>4, <3>1 DEF redisEndpoint, Check, Parses
  <2> QED
    BY <1>4, <2>3, <2>4, ReadingsShape
<1> QED
  BY <1>1, <1>2, <1>3, <1>4 DEF LoadFromLookup, Acceptable

-----------------------------------------------------------------------------
(* What an acceptable environment amounts to.                              *)

LEMMA ConfigIs ==
    ASSUME NEW e, NEW n \in Names
    PROVE  /\ n \in Required => Config(e)[n] = e[n]
           /\ n \in Optional => Config(e)[n] = IF e[n] = None THEN Default(n) ELSE e[n]
<1>1. n \in Required => n \notin Optional
  BY DEF Required, Optional, Ports, Domains, Ints, Durations
<1> QED
  BY <1>1 DEF Config, Names

LEMMA DefaultIs ==
    /\ \A n \in Ints : Default(n) = IF n = "HTTP_MAX_HEADER_BYTES" THEN MaxHeaderBytes ELSE 0
    /\ \A n \in Durations : Default(n) \in Nat \ {0}
    /\ Default("LOG_OUTPUT") = "console" /\ Default("POSTGRES_MIGRATIONS_PATH") = "text"
  BY DEF Default, Example, Ints, Durations

\* The numbers of a configuration that was accepted.
LEMMA ConfigNumbers ==
    ASSUME NEW e, Acceptable(e)
    PROVE  /\ \A n \in Ports : Config(e)[n] \in 1 .. MaxPort
           /\ \A n \in Ints : Config(e)[n] \in Nat
           /\ \A n \in Durations : Config(e)[n] \in Nat \ {0}
<1>1. ASSUME NEW n \in Ports PROVE Config(e)[n] \in 1 .. MaxPort
  <2>1. n \in Names /\ n \in Required
    BY DEF Names, Required
  <2>2. parsePort(e[n])
    BY <2>1 DEF Acceptable, Parses
  <2> QED
    BY <2>1, <2>2, ConfigIs, Zenon DEF parsePort
<1>2. ASSUME NEW n \in Ints PROVE Config(e)[n] \in Nat
  <2> MaxHeaderBytes \in Nat
    BY SMT DEF MaxHeaderBytes
  <2>1. n \in Names /\ n \in Optional
    BY DEF Names, Optional
  <2> QED
    BY <2>1, ConfigIs, DefaultIs DEF Acceptable, Parses, optionalInt
<1>3. ASSUME NEW n \in Durations PROVE Config(e)[n] \in Nat \ {0}
  <2>1. n \in Names /\ n \in Optional
    BY DEF Names, Optional
  <2> QED
    BY <2>1, ConfigIs, DefaultIs DEF Acceptable, Parses, optionalDuration
<1> QED
  BY <1>1, <1>2, <1>3, Zenon

LEMMA AcceptableUsable ==
    ASSUME NEW e, Acceptable(e)
    PROVE  Usable(Config(e))
<1> DEFINE c == Config(e)
<1>1. ConnsRule(c) = {} /\ IdleRule(c) = {} /\ Sound(c)
  BY DEF Acceptable, Sound
<1>2. /\ c["POSTGRES_MAX_CONNS"] \in Nat /\ c["POSTGRES_MIN_CONNS"] \in Nat
      /\ c["REDIS_POOL_SIZE"] \in Nat /\ c["REDIS_MIN_IDLE_CONNS"] \in Nat
  <2> HIDE DEF c
  <2>1. \A n \in Ints : c[n] \in Nat
    BY ConfigNumbers, Zenon DEF c
  <2> QED
    BY <2>1 DEF Ints
<1> HIDE DEF c
<1>3. c["POSTGRES_MAX_CONNS"] = 0 \/ c["POSTGRES_MIN_CONNS"] <= c["POSTGRES_MAX_CONNS"]
  BY <1>1, <1>2 DEF ConnsRule, Check
<1>4. c["REDIS_POOL_SIZE"] = 0 \/ c["REDIS_MIN_IDLE_CONNS"] <= c["REDIS_POOL_SIZE"]
  BY <1>1, <1>2 DEF IdleRule, Check
<1>5. c["HTTP_MAX_HEADER_BYTES"] > 0 /\ (c["LOG_OUTPUT"] # "console" => c["LOG_FILE_PATH"] # None)
  BY <1>1 DEF Sound
<1> QED
  BY <1>3, <1>4, <1>5, ConfigNumbers, Zenon DEF Usable, c

\* An optional variable that is no longer set leaves an environment acceptable.
LEMMA UnsettingKeeps ==
    ASSUME NEW e, Typed(e), Acceptable(e), NEW n \in Optional \ {"LOG_FILE_PATH"}
    PROVE  Acceptable([e EXCEPT ![n] = None])
<1> DEFINE f == [e EXCEPT ![n] = None]
           c == Config(e)
           d == Config(f)
<1>1. n \in Names /\ n \notin Required
  BY DEF Names, Required, Optional, Ports, Domains, Ints, Durations
<1>2. f[n] = None /\ \A m \in Names : m # n => f[m] = e[m]
  BY <1>1 DEF Typed
<1>3. d[n] = Default(n) /\ \A m \in Names : m # n => d[m] = c[m]
  BY <1>1, <1>2 DEF Config
<1> HIDE DEF f, d, c
<1>4. Missing(f) = {}
  BY <1>1, <1>2 DEF Acceptable, Missing, Unset, Names
<1>5. \A m \in Names : Parses(m, f[m])
  <2>1. Parses(n, None)
    BY <1>1 DEF Parses, optionalInt, optionalDuration, Required
  <2> QED
    BY <1>2, <2>1 DEF Acceptable
<1>6. Sound(c)
  BY DEF Acceptable, c
<1>7. /\ c["POSTGRES_MAX_CONNS"] \in Nat /\ c["POSTGRES_MIN_CONNS"] \in Nat
      /\ c["REDIS_POOL_SIZE"] \in Nat /\ c["REDIS_MIN_IDLE_CONNS"] \in Nat
      /\ \A m \in Durations : c[m] \in Nat \ {0}
  <2>1. (\A m \in Ints : c[m] \in Nat) /\ (\A m \in Durations : c[m] \in Nat \ {0})
    BY ConfigNumbers, Zenon DEF c
  <2> QED
    BY <2>1 DEF Ints
<1>8. {"BACKEND_PORT", "REDIS_PORT", "POSTGRES_DB", "SEAWEEDFS_FILES_DOMAIN", "LOG_LEVEL",
       "LOG_FORMAT"} \subseteq Names \ {n}
  BY <1>1 DEF Names, Required, Ports, Domains
<1>9. {"HTTP_MAX_HEADER_BYTES", "POSTGRES_MAX_CONNS", "POSTGRES_MIN_CONNS", "REDIS_POOL_SIZE",
       "REDIS_MIN_IDLE_CONNS", "POSTGRES_MIGRATIONS_PATH", "LOG_OUTPUT", "LOG_FILE_PATH"}
      \cup Durations \subseteq Names
  BY DEF Names, Optional, Ints
<1>10. Sound(d)
  <2>1. ConnsRule(c) = {} /\ IdleRule(c) = {}
    BY <1>6 DEF Sound
  <2>2. ConnsRule(d) = {}
    <3>1. ~(c["POSTGRES_MIN_CONNS"] > c["POSTGRES_MAX_CONNS"] /\ c["POSTGRES_MAX_CONNS"] > 0)
      BY <2>1 DEF ConnsRule, Check
    <3>2. \A m \in {"POSTGRES_MAX_CONNS", "POSTGRES_MIN_CONNS"} :
            d[m] = c[m] \/ (m = n /\ d[m] = 0)
      BY <1>3, <1>9, DefaultIs DEF Ints
    <3>3. ~(d["POSTGRES_MIN_CONNS"] > d["POSTGRES_MAX_CONNS"] /\ d["POSTGRES_MAX_CONNS"] > 0)
      BY <1>7, <3>1, <3>2
    <3> QED
      BY <3>3 DEF ConnsRule, Check
  <2>3. IdleRule(d) = {}
    <3>1. ~(c["REDIS_POOL_SIZE"] > 0 /\ c["REDIS_MIN_IDLE_CONNS"] > c["REDIS_POOL_SIZE"])
      BY <2>1 DEF IdleRule, Check
    <3>2. \A m \in {"REDIS_POOL_SIZE", "REDIS_MIN_IDLE_CONNS"} :
            d[m] = c[m] \/ (m = n /\ d[m] = 0)
      BY <1>3, <1>9, DefaultIs DEF Ints
    <3>3. ~(d["REDIS_POOL_SIZE"] > 0 /\ d["REDIS_MIN_IDLE_CONNS"] > d["REDIS_POOL_SIZE"])
      BY <1>7, <3>1, <3>2
    <3> QED
      BY <3>3 DEF IdleRule, Check
  <2>4. \A m \in Durations : d[m] \in Nat \ {0}
    BY <1>3, <1>7, <1>9, DefaultIs
  <2>5. \A m \in Durations : d[m] > 0
    BY <2>4
  <2>6. d["HTTP_MAX_HEADER_BYTES"] > 0
    <3>1. d["HTTP_MAX_HEADER_BYTES"] \in {c["HTTP_MAX_HEADER_BYTES"], MaxHeaderBytes}
      BY <1>3, <1>9, DefaultIs DEF Ints
    <3>2. MaxHeaderBytes > 0
      BY SMT DEF MaxHeaderBytes
    <3> QED
      BY <1>6, <3>1, <3>2 DEF Sound
  <2>7. /\ d["POSTGRES_MIGRATIONS_PATH"] \in {c["POSTGRES_MIGRATIONS_PATH"], "text"}
        /\ d["LOG_OUTPUT"] \in {c["LOG_OUTPUT"], "console"}
        /\ d["LOG_FILE_PATH"] = c["LOG_FILE_PATH"]
    BY <1>3, <1>9, DefaultIs
  <2>8. \A m \in {"BACKEND_PORT", "REDIS_PORT", "POSTGRES_DB", "SEAWEEDFS_FILES_DOMAIN",
                  "LOG_LEVEL", "LOG_FORMAT"} : d[m] = c[m]
    BY <1>3, <1>8
  <2>9. d["POSTGRES_MIGRATIONS_PATH"] # None
    BY <1>6, <2>7, SettingsAssumption DEF Sound
  <2> QED
    BY <1>6, <2>2, <2>3, <2>5, <2>6, <2>7, <2>8, <2>9 DEF Sound
<1> QED
  BY <1>4, <1>5, <1>10 DEF Acceptable, f, d

-----------------------------------------------------------------------------
(* What a refusal names, and leads to.                                     *)

LEMMA ExampleIs ==
    /\ parsePort(Example["BACKEND_PORT"]) /\ parsePort(Example["POSTGRES_PORT"])
    /\ parsePort(Example["REDIS_PORT"])
    /\ Example["FRONTEND_DOMAIN"] = "domain" /\ Example["SEAWEEDFS_FILES_DOMAIN"] = "domain"
    /\ Example["POSTGRES_DB"] = "text" /\ Example["POSTGRES_MIGRATIONS_PATH"] = "text"
    /\ Example["REDIS_DB"] = 0 /\ Example["REDIS_POOL_SIZE"] = 50
    /\ Example["REDIS_MIN_IDLE_CONNS"] = 10 /\ Example["HTTP_MAX_HEADER_BYTES"] = MaxHeaderBytes
    /\ Example["POSTGRES_MAX_CONNS"] = 10 /\ Example["POSTGRES_MIN_CONNS"] = 0
    /\ \A n \in Durations : Example[n] \in Nat \ {0}
    /\ Example["LOG_LEVEL"] = "info" /\ Example["LOG_FORMAT"] = "json"
    /\ Example["LOG_OUTPUT"] = "console"
    /\ MaxHeaderBytes > 0
<1>1. /\ Example["BACKEND_PORT"] = 8080 /\ Example["POSTGRES_PORT"] = 5432
      /\ Example["REDIS_PORT"] = 6379
  BY SMT DEF Example
<1>2. parsePort(8080) /\ parsePort(5432) /\ parsePort(6379)
  BY SMT DEF parsePort, MaxPort
<1>3. parsePort(Example["BACKEND_PORT"]) /\ parsePort(Example["POSTGRES_PORT"])
      /\ parsePort(Example["REDIS_PORT"])
  BY <1>1, <1>2, SMT
<1>4. /\ Example["FRONTEND_DOMAIN"] = "domain" /\ Example["SEAWEEDFS_FILES_DOMAIN"] = "domain"
      /\ Example["POSTGRES_DB"] = "text" /\ Example["POSTGRES_MIGRATIONS_PATH"] = "text"
      /\ Example["LOG_LEVEL"] = "info" /\ Example["LOG_FORMAT"] = "json"
      /\ Example["LOG_OUTPUT"] = "console"
  BY SMT DEF Example
<1>5. /\ Example["REDIS_DB"] = 0 /\ Example["REDIS_POOL_SIZE"] = 50
      /\ Example["REDIS_MIN_IDLE_CONNS"] = 10 /\ Example["HTTP_MAX_HEADER_BYTES"] = MaxHeaderBytes
      /\ Example["POSTGRES_MAX_CONNS"] = 10 /\ Example["POSTGRES_MIN_CONNS"] = 0
  BY SMT DEF Example
<1>6. \A n \in Durations : Example[n] \in Nat \ {0}
  BY SMT DEF Example, Durations
<1>7. MaxHeaderBytes > 0
  BY SMT DEF MaxHeaderBytes
<1> QED
  BY <1>3, <1>4, <1>5, <1>6, <1>7

LEMMA ExampleParses == \A n \in Names : Parses(n, Example[n])
<1>1. \A n \in Ports : parsePort(Example[n])
  BY ExampleIs DEF Ports
<1>2. \A n \in Domains : validateDomain(Example[n])
  BY ExampleIs DEF Domains, validateDomain
<1>3. \A n \in Ints : optionalInt(Example[n])
  <2>1. MaxHeaderBytes \in Nat
    BY SMT DEF MaxHeaderBytes
  <2> QED
    BY <2>1, ExampleIs DEF Ints, optionalInt
<1>4. \A n \in Durations : optionalDuration(Example[n])
  BY ExampleIs DEF optionalDuration
<1> QED
  BY <1>1, <1>2, <1>3, <1>4 DEF Parses

LEMMA TracedIs ==
    /\ \A n \in Names : MadeOf(n) = {n}
    /\ MadeOf("postgres_url") = {"POSTGRES_USER", "POSTGRES_PASSWORD", "POSTGRES_PORT",
                                 "POSTGRES_DB", "POSTGRES_SSLMODE"}
    /\ MadeOf("seaweedfs_public_url") = {"SEAWEEDFS_FILES_DOMAIN"}
    /\ MadeOf("logger") = {"APP_NAME", "LOG_LEVEL", "LOG_OUTPUT", "LOG_FILE_PATH"}
<1>1. ASSUME NEW n \in Names PROVE MadeOf(n) = {n}
  BY <1>1 DEF MadeOf, Names, Required, Optional, Ports, Domains, Ints, Durations
<1> QED
  BY <1>1 DEF MadeOf

\* What is named in variables is traced to them.
LEMMA TracedNames ==
    ASSUME NEW S \in SUBSET Names
    PROVE  Traced(S) = S
<1>1. \A x \in S : MadeOf(x) = {x}
  BY TracedIs
<1> QED
  BY <1>1 DEF Traced

LEMMA TracedOne ==
    ASSUME NEW x
    PROVE  Traced({x}) = MadeOf(x)
  BY DEF Traced

\* What each rule of Validate names, and when it holds.
LEMMA RuleIs ==
    ASSUME NEW c, NEW i \in 1 .. 19
    PROVE  \/ \E n \in Durations \cup {"HTTP_MAX_HEADER_BYTES", "BACKEND_PORT"} :
                Rules(c)[i] = IF n = "BACKEND_PORT" THEN Check({n}, parsePort(c[n]))
                              ELSE Check({n}, c[n] > 0)
           \/ Rules(c)[i] = Check({"postgres_url"}, validatePostgresURL(c["POSTGRES_DB"]))
           \/ Rules(c)[i] = ConnsRule(c)
           \/ Rules(c)[i] = Check({"POSTGRES_MIGRATIONS_PATH"}, c["POSTGRES_MIGRATIONS_PATH"] # None)
           \/ Rules(c)[i] = Check({"REDIS_PORT"}, parsePort(c["REDIS_PORT"]))
           \/ Rules(c)[i] = IdleRule(c)
           \/ Rules(c)[i] = Check({"seaweedfs_public_url"},
                                  validateHTTPURL(c["SEAWEEDFS_FILES_DOMAIN"]))
           \/ Rules(c)[i] = Check({"LOG_LEVEL"},
                                  c["LOG_LEVEL"] \in {"debug", "info", "warn", "error"})
           \/ Rules(c)[i] = Check({"LOG_FORMAT"}, c["LOG_FORMAT"] \in {"json", "text"})
           \/ Rules(c)[i] = Check({"LOG_OUTPUT"}, c["LOG_OUTPUT"] \in {"console", "file", "both"})
           \/ Rules(c)[i] = Check({"LOG_FILE_PATH", "LOG_OUTPUT"},
                  ~(c["LOG_OUTPUT"] \in {"file", "both"} /\ c["LOG_FILE_PATH"] = None))
<1>1. CASE i \in 1 .. 7 \/ i \in {13, 14}
  <2>1. \E n \in Durations \cup {"HTTP_MAX_HEADER_BYTES", "BACKEND_PORT"} :
          Rules(c)[i] = IF n = "BACKEND_PORT" THEN Check({n}, parsePort(c[n]))
                        ELSE Check({n}, c[n] > 0)
    BY <1>1 DEF Rules, Positive, Durations
  <2> QED
    BY <2>1
<1>2. CASE i \in 8 .. 12 \/ i \in 15 .. 19
  BY <1>2 DEF Rules
<1>3. i \in 1 .. 7 \/ i \in {13, 14} \/ i \in 8 .. 12 \/ i \in 15 .. 19
  OBVIOUS
<1> QED
  BY <1>1, <1>2, <1>3, Zenon

\* A rule of Validate depends only on the variables that what it names is made of.
LEMMA RuleHoldsOfExample ==
    ASSUME NEW c, NEW i \in 1 .. 19, \A n \in Traced(Rules(c)[i]) : c[n] = Example[n]
    PROVE  Rules(c)[i] = {}
<1> DEFINE R == Rules(c)[i]
<1>1. {"BACKEND_PORT", "POSTGRES_MIN_CONNS", "POSTGRES_MAX_CONNS", "POSTGRES_MIGRATIONS_PATH",
       "REDIS_PORT", "REDIS_MIN_IDLE_CONNS", "REDIS_POOL_SIZE", "LOG_LEVEL", "LOG_FORMAT",
       "LOG_OUTPUT", "LOG_FILE_PATH", "HTTP_MAX_HEADER_BYTES"} \cup Durations \subseteq Names
  BY DEF Names, Required, Optional, Ports, Ints
<1>2. \A n \in Durations \cup {"HTTP_MAX_HEADER_BYTES"} : Example[n] > 0
  BY ExampleIs
<1>3. ASSUME R \subseteq Names PROVE \A n \in R : c[n] = Example[n]
  BY <1>3, TracedNames
<1>4. None # "text"
  BY SettingsAssumption
<1>5. ASSUME NEW n \in Durations \cup {"HTTP_MAX_HEADER_BYTES", "BACKEND_PORT"},
             R = IF n = "BACKEND_PORT" THEN Check({n}, parsePort(c[n])) ELSE Check({n}, c[n] > 0)
      PROVE  R = {}
  BY <1>1, <1>2, <1>3, <1>5, ExampleIs DEF Check
<1>6. CASE R = Check({"postgres_url"}, validatePostgresURL(c["POSTGRES_DB"]))
  <2>1. Traced({"postgres_url"}) = MadeOf("postgres_url")
    BY TracedOne
  <2>2. "POSTGRES_DB" \in Traced({"postgres_url"})
    BY <2>1, TracedIs
  <2> QED
    BY <1>6, <2>2, ExampleIs DEF Check, validatePostgresURL
<1>7. CASE R = Check({"seaweedfs_public_url"}, validateHTTPURL(c["SEAWEEDFS_FILES_DOMAIN"]))
  <2>1. Traced({"seaweedfs_public_url"}) = MadeOf("seaweedfs_public_url")
    BY TracedOne
  <2>2. "SEAWEEDFS_FILES_DOMAIN" \in Traced({"seaweedfs_public_url"})
    BY <2>1, TracedIs
  <2> QED
    BY <1>7, <2>2, ExampleIs DEF Check, validateHTTPURL
<1>8. CASE \/ R = ConnsRule(c)
           \/ R = Check({"POSTGRES_MIGRATIONS_PATH"}, c["POSTGRES_MIGRATIONS_PATH"] # None)
           \/ R = Check({"REDIS_PORT"}, parsePort(c["REDIS_PORT"]))
           \/ R = IdleRule(c)
  BY <1>1, <1>3, <1>4, <1>8, ExampleIs DEF Check, ConnsRule, IdleRule
<1>9. CASE \/ R = Check({"LOG_LEVEL"}, c["LOG_LEVEL"] \in {"debug", "info", "warn", "error"})
           \/ R = Check({"LOG_FORMAT"}, c["LOG_FORMAT"] \in {"json", "text"})
           \/ R = Check({"LOG_OUTPUT"}, c["LOG_OUTPUT"] \in {"console", "file", "both"})
           \/ R = Check({"LOG_FILE_PATH", "LOG_OUTPUT"},
                        ~(c["LOG_OUTPUT"] \in {"file", "both"} /\ c["LOG_FILE_PATH"] = None))
  BY <1>1, <1>3, <1>9, ExampleIs DEF Check
<1> QED
  BY <1>5, <1>6, <1>7, <1>8, <1>9, RuleIs

LEMMA ConfigOfExample ==
    ASSUME NEW e, NEW n \in Names, e[n] = Example[n]
    PROVE  Config(e)[n] = Example[n]
<1>1. CASE n \notin Optional \/ e[n] # None
  BY <1>1 DEF Config
<1>2. CASE n \in Optional /\ e[n] = None
  <2>1. n \notin Ints
    <3>1. MaxHeaderBytes \in Int
      BY SMT DEF MaxHeaderBytes
    <3>2. \A m \in Ints : Example[m] \in Int
      BY <3>1, ExampleIs DEF Ints
    <3> QED
      BY <1>2, <3>2, SettingsAssumption
  <2>2. Default(n) = Example[n]
    BY <1>2, <2>1 DEF Default
  <2> QED
    BY <1>2, <2>2 DEF Config
<1> QED
  BY <1>1, <1>2

LEMMA RulesSubjects ==
    ASSUME NEW c, NEW i \in 1 .. 19
    PROVE  Rules(c)[i] \subseteq Subjects
<1>1. {"BACKEND_PORT", "POSTGRES_MIN_CONNS", "POSTGRES_MAX_CONNS", "POSTGRES_MIGRATIONS_PATH",
       "REDIS_PORT", "REDIS_MIN_IDLE_CONNS", "REDIS_POOL_SIZE", "LOG_LEVEL", "LOG_FORMAT",
       "LOG_OUTPUT", "LOG_FILE_PATH", "HTTP_MAX_HEADER_BYTES", "postgres_url",
       "seaweedfs_public_url"} \cup Durations \subseteq Subjects
  BY DEF Subjects, Names, Required, Optional, Ports, Ints
<1> DEFINE R == Rules(c)[i]
<1>2. ASSUME NEW n \in Durations \cup {"HTTP_MAX_HEADER_BYTES", "BACKEND_PORT"},
             R = IF n = "BACKEND_PORT" THEN Check({n}, parsePort(c[n])) ELSE Check({n}, c[n] > 0)
      PROVE  R \subseteq Subjects
  BY <1>1, <1>2 DEF Check
<1>3. CASE \/ R = Check({"postgres_url"}, validatePostgresURL(c["POSTGRES_DB"]))
           \/ R = ConnsRule(c)
           \/ R = Check({"POSTGRES_MIGRATIONS_PATH"}, c["POSTGRES_MIGRATIONS_PATH"] # None)
           \/ R = Check({"REDIS_PORT"}, parsePort(c["REDIS_PORT"]))
           \/ R = IdleRule(c)
  BY <1>1, <1>3 DEF Check, ConnsRule, IdleRule
<1>4. CASE \/ R = Check({"seaweedfs_public_url"}, validateHTTPURL(c["SEAWEEDFS_FILES_DOMAIN"]))
           \/ R = Check({"LOG_LEVEL"}, c["LOG_LEVEL"] \in {"debug", "info", "warn", "error"})
           \/ R = Check({"LOG_FORMAT"}, c["LOG_FORMAT"] \in {"json", "text"})
           \/ R = Check({"LOG_OUTPUT"}, c["LOG_OUTPUT"] \in {"console", "file", "both"})
           \/ R = Check({"LOG_FILE_PATH", "LOG_OUTPUT"},
                        ~(c["LOG_OUTPUT"] \in {"file", "both"} /\ c["LOG_FILE_PATH"] = None))
  BY <1>1, <1>4 DEF Check
<1> QED
  BY <1>2, <1>3, <1>4, RuleIs

LEMMA SubjectsAreMade ==
    ASSUME NEW x \in Subjects
    PROVE  MadeOf(x) \subseteq Names
<1>1. CASE x \in Names
  <2>1. MadeOf(x) = {x}
    BY <1>1, TracedIs
  <2> QED
    BY <1>1, <2>1
<1>2. CASE x \notin Names
  <2>1. {"POSTGRES_USER", "POSTGRES_PASSWORD", "POSTGRES_PORT", "POSTGRES_DB", "POSTGRES_SSLMODE",
         "SEAWEEDFS_FILES_DOMAIN", "APP_NAME", "LOG_LEVEL", "LOG_OUTPUT", "LOG_FILE_PATH",
         "CACHE_VIDEO_LIST_TTL"} \subseteq Names
    BY DEF Names, Required, Optional, Ports, Domains, Durations
  <2> QED
    BY <1>2, <2>1 DEF Subjects, MadeOf
<1> QED
  BY <1>1, <1>2

\* A refusal of the load leads to a variable that is not as in the example, and if it
\* names one that is missing, then all that are.
LEMMA RefusalNames ==
    ASSUME NEW e, LoadFromLookup(e) # {}
    PROVE  /\ LoadFromLookup(e) \subseteq Subjects
           /\ \E n \in Traced(LoadFromLookup(e)) : n \in Names /\ e[n] # Example[n]
           /\ (\E n \in LoadFromLookup(e) \cap Required : e[n] = None)
                => Missing(e) \subseteq LoadFromLookup(e)
<1> DEFINE r == LoadFromLookup(e)
<1>0. ASSUME r \subseteq Names, NEW n \in r, e[n] # Example[n]
      PROVE  r \subseteq Subjects /\ \E m \in Traced(r) : m \in Names /\ e[m] # Example[m]
  BY <1>0, TracedNames DEF Subjects
<1>1. DOMAIN Readings(e) = 1 .. 21
  BY ReadingsShape
<1>2. CASE Readings(e)[1] # {}
  <2>1. FirstFailed(Readings(e)) = Readings(e)[1]
    BY <1>1, <1>2, FirstFailedAt
  <2>2. r = redisEndpoint(e)
    BY <1>2, <2>1, ReadingsShape DEF LoadFromLookup
  <2>3. r = {"REDIS_PORT"} /\ e["REDIS_PORT"] # None /\ ~parsePort(e["REDIS_PORT"])
    BY <2>2 DEF redisEndpoint, Check
  <2>4. "REDIS_PORT" \in Names
    BY DEF Names, Required, Ports
  <2>5. e["REDIS_PORT"] # Example["REDIS_PORT"]
    BY <2>3, ExampleIs
  <2> QED
    BY <1>0, <2>3, <2>4, <2>5
<1>3. CASE Readings(e)[1] = {} /\ Missing(e) # {}
  <2>1. \A j \in DOMAIN Readings(e) : j < 2 => Readings(e)[j] = {}
    BY <1>1, <1>3
  <2>2. Readings(e)[2] = Missing(e) /\ 2 \in DOMAIN Readings(e) /\ DOMAIN Readings(e) \subseteq Nat
    BY <1>1, ReadingsShape
  <2>3. FirstFailed(Readings(e)) = Readings(e)[2]
    BY <1>3, <2>1, <2>2, FirstFailedAt
  <2>4. r = Missing(e)
    BY <1>3, <2>2, <2>3 DEF LoadFromLookup
  <2>5. PICK n \in Required : n \in r /\ e[n] = None
    BY <1>3, <2>4 DEF Missing, Unset
  <2>6. Example[n] # None
    <3>1. n \in {"BACKEND_PORT", "POSTGRES_PORT", "REDIS_PORT"} => Example[n] \in Int
      BY SMT DEF Example
    <3>2. n \notin {"BACKEND_PORT", "POSTGRES_PORT", "REDIS_PORT"}
            => Example[n] \in {"text", "domain", "info", "json"}
      BY SMT DEF Example, Required, Ports, Domains
    <3> QED
      BY <3>1, <3>2, SettingsAssumption
  <2>7. r \subseteq Names
    BY <2>4 DEF Missing, Unset, Names
  <2> QED
    BY <1>0, <2>4, <2>5, <2>6, <2>7
<1>4. CASE Readings(e)[1] = {} /\ Missing(e) = {}
  <2>1. ~ \E n \in r \cap Required : e[n] = None
    BY <1>4 DEF Missing, Unset
  <2>2. CASE FirstFailed(Readings(e)) # {}
    <3>1. PICK i \in 1 .. 21 : Readings(e)[i] # {} /\ FirstFailed(Readings(e)) = Readings(e)[i]
      BY <1>1, <2>2, FirstFailedCases
    <3>2. i \in 3 .. 21 /\ i - 2 \in 1 .. 19
      BY <1>4, <3>1, ReadingsShape
    <3>3. \A j \in 1 .. 19 : ParseOrder[j] \in Names
      BY DEF ParseOrder, Names, Required, Optional, Ports, Domains, Ints, Durations
    <3>4. PICK n \in Names : Readings(e)[i] = Check({n}, Parses(n, e[n]))
      BY <3>2, <3>3, ReadingsShape
    <3>5. r = {n} /\ ~Parses(n, e[n])
      BY <2>2, <3>1, <3>4 DEF Check, LoadFromLookup
    <3> QED
      BY <1>0, <2>1, <3>5, ExampleParses
  <2>3. CASE FirstFailed(Readings(e)) = {}
    <3>1. r = FirstFailed(Rules(Config(e)))
      BY <2>3 DEF LoadFromLookup, Validate
    <3>2. PICK i \in 1 .. 19 : Rules(Config(e))[i] # {} /\ r = Rules(Config(e))[i]
      BY <3>1, RulesSound, FirstFailedCases
    <3>3. PICK n \in Traced(r) : Config(e)[n] # Example[n]
      BY <3>2, RuleHoldsOfExample
    <3>4. r \subseteq Subjects
      BY <3>2, RulesSubjects
    <3>5. n \in Names
      BY <3>4, SubjectsAreMade DEF Traced
    <3>6. e[n] # Example[n]
      BY <3>3, <3>5, ConfigOfExample
    <3> QED
      BY <2>1, <3>3, <3>4, <3>5, <3>6
  <2> QED
    BY <2>2, <2>3
<1> QED
  BY <1>2, <1>3, <1>4

-----------------------------------------------------------------------------
(* The start of a process.                                                 *)

Inv ==
    /\ env = [n \in Names |-> env[n]]
    /\ phase \in {"stopped", "loaded", "logging", "running"}
    /\ refuser \in {None, "Load", "file system"}
    /\ refuser = None => report = {}
    /\ refuser = "Load" => report = LoadFromLookup(env) /\ report # {}
    /\ refuser = "file system" => report = {"logger"} /\ env["LOG_OUTPUT"] # "console"
    /\ phase # "stopped" => report = {} /\ Acceptable(env)

LEMMA InvReport == Inv => report \subseteq Subjects
<1>1. {"logger"} \subseteq Subjects
  BY DEF Subjects
<1> QED
  BY <1>1, RefusalNames DEF Inv

LEMMA InvTypes == Inv => SettingsTypeOK
  BY InvReport, AcceptableUsable DEF Inv, SettingsTypeOK

LEMMA InvMissing == Inv => MissingReportedTogether
<1> SUFFICES ASSUME Inv, refuser = "Load", \E n \in report \cap Required : env[n] = None
             PROVE  {n \in Required : env[n] = None} \subseteq report
  BY DEF MissingReportedTogether
<1>1. report = LoadFromLookup(env) /\ report # {}
  BY DEF Inv
<1> QED
  BY <1>1, RefusalNames DEF Missing, Unset

LEMMA InvUnsetting == Inv => UnsettingIsSafe
<1> SUFFICES ASSUME Inv, phase = "running", NEW n \in Optional \ {"LOG_FILE_PATH"}
             PROVE  LoadFromLookup([env EXCEPT ![n] = None]) = {}
  BY DEF UnsettingIsSafe
<1>1. Acceptable(env) /\ Typed(env)
  BY DEF Inv, Typed
<1> QED
  BY <1>1, UnsettingKeeps, AcceptsAcceptable

LEMMA RefusersDiffer == None # "Load" /\ None # "file system"
  BY SettingsAssumption

LEMMA InvInit == Init => Inv
<1> SUFFICES ASSUME Init PROVE Inv
  OBVIOUS
<1>1. DOMAIN Example = Names /\ Example = [n \in DOMAIN Example |-> Example[n]]
  BY SMT DEF Example, Names, Required, Optional, Ports, Domains, Ints, Durations
<1>2. env = [n \in Names |-> env[n]]
  BY <1>1 DEF Init
<1> QED
  BY <1>2, RefusersDiffer DEF Init, Inv

\* Neither the logger nor the use cases refuse what was accepted.
LEMMA ConstructorsAccept ==
    ASSUME Acceptable(env)
    PROVE  /\ FirstFailed(<<Check({"log_level"}, Config(env)["LOG_LEVEL"] \in LogLevels),
                            Check({"log_output"}, Config(env)["LOG_OUTPUT"] \in LogOutputs)>>) = {}
           /\ Check({"video_list_ttl"}, Config(env)["CACHE_VIDEO_LIST_TTL"] > 0) = {}
<1> DEFINE c == Config(env)
<1>1. /\ c["LOG_LEVEL"] \in LogLevels /\ c["LOG_OUTPUT"] \in LogOutputs
      /\ c["CACHE_VIDEO_LIST_TTL"] > 0
  BY DEF Acceptable, Sound, LogLevels, LogOutputs, Durations
<1>2. FirstFailed(<<{}, {}>>) = {}
  <2>1. {i \in DOMAIN <<{}, {}>> : <<{}, {}>>[i] # {}} = {}
    OBVIOUS
  <2> QED
    BY <2>1 DEF FirstFailed
<1> QED
  BY <1>1, <1>2 DEF Check

LEMMA InvNext == Inv /\ [Next]_vars => Inv'
<1> SUFFICES ASSUME Inv, [Next]_vars PROVE Inv'
  OBVIOUS
<1> USE RefusersDiffer
<1>1. CASE Load
  <2>1. UNCHANGED env /\ report' = LoadFromLookup(env)
    BY <1>1 DEF Load, Proceed
  <2>2. CASE LoadFromLookup(env) = {}
    <3>1. Acceptable(env)
      BY <2>2, AcceptsAcceptable
    <3>2. Acceptable(env')
      BY <3>1, <2>1
    <3> QED
      BY <1>1, <2>1, <2>2, <3>2 DEF Load, Proceed, Inv
  <2>3. CASE LoadFromLookup(env) # {}
    <3>1. LoadFromLookup(env') = LoadFromLookup(env)
      BY <2>1
    <3> QED
      BY <1>1, <2>1, <2>3, <3>1 DEF Load, Proceed, Inv
  <2> QED
    BY <2>2, <2>3
<1>2. CASE NewLogger
  <2>1. report' = {} /\ refuser' = None /\ phase' = "logging" /\ UNCHANGED env
    BY <1>2, ConstructorsAccept DEF NewLogger, Proceed, Inv
  <2>2. Acceptable(env')
    BY <2>1, <1>2 DEF NewLogger, Inv
  <2> QED
    BY <2>1, <2>2, <1>2 DEF NewLogger, Inv
<1>3. CASE LogFileFails
  <2>1. env["LOG_OUTPUT"] # "console"
    <3>1. "LOG_OUTPUT" \in Names /\ "LOG_OUTPUT" \in Optional
      BY DEF Names, Optional
    <3> QED
      BY <1>3, <3>1, ConfigIs, DefaultIs DEF LogFileFails
  <2> QED
    BY <1>3, <2>1 DEF LogFileFails, Proceed, Inv
<1>4. CASE NewVideoService
  <2>1. report' = {} /\ refuser' = None /\ phase' = "running" /\ UNCHANGED env
    BY <1>4, ConstructorsAccept DEF NewVideoService, Proceed, Inv
  <2>2. Acceptable(env')
    BY <2>1, <1>4 DEF NewVideoService, Inv
  <2> QED
    BY <2>1, <2>2, <1>4 DEF NewVideoService, Inv
<1>5. CASE Stop
  BY <1>5 DEF Stop, Inv
<1>6. CASE Repair
  BY <1>6 DEF Repair, Inv
<1>7. ASSUME NEW n \in Names, Change(n) PROVE Inv'
  BY <1>7 DEF Change, Inv
<1>8. CASE UNCHANGED vars
  BY <1>8 DEF vars, Inv
<1> QED
  BY <1>1, <1>2, <1>3, <1>4, <1>5, <1>6, <1>7, <1>8 DEF Next

LEMMA InvAlways == Spec => []Inv
  BY InvInit, InvNext, PTL DEF Spec

\* Every variable keeps its type, and a process that has loaded its configuration
\* can use it.
THEOREM TypeCorrect == Spec => []SettingsTypeOK
  BY InvAlways, InvTypes, PTL

\* What Load accepts neither NewLogger nor NewVideoService refuses.
THEOREM ConstructorsAgree == Spec => []OnlyLoadRefuses
<1>1. Inv => OnlyLoadRefuses
  BY DEF Inv, OnlyLoadRefuses
<1> QED
  BY <1>1, InvAlways, PTL

\* A refusal that is about a missing variable names all that are missing.
THEOREM MissingTogether == Spec => []MissingReportedTogether
  BY InvAlways, InvMissing, PTL

\* The defaults fit every value that LoadFromLookup lets the other variables have.
THEOREM UnsettingSafe == Spec => []UnsettingIsSafe
  BY InvAlways, InvUnsetting, PTL

\* Every repair of the variables that a refusal leads to, named or gone into the URL or
\* the logger it names, brings the environment closer to the example.
THEOREM RepairsConverge == Spec => RepairsHelp
<1>1. ASSUME Inv, Repair
      PROVE  Departures(env') \subseteq Departures(env) /\ Departures(env') # Departures(env)
  <2>1. PICK n \in Traced(report) : n \in Names /\ env[n] # Example[n]
    <3>1. CASE refuser = "Load"
      <4>1. report = LoadFromLookup(env) /\ report # {}
        BY <1>1, <3>1 DEF Inv, Repair
      <4> QED
        BY <4>1, RefusalNames
    <3>2. CASE refuser = "file system"
      <4>1. "LOG_OUTPUT" \in Names
        BY DEF Names, Optional
      <4>2. "LOG_OUTPUT" \in Traced({"logger"})
        BY TracedOne, TracedIs
      <4> QED
        BY <1>1, <3>2, <4>1, <4>2, ExampleIs DEF Inv
    <3> QED
      BY <1>1, <3>1, <3>2 DEF Inv, Repair
  <2>2. \A m \in Names : env'[m] = IF m \in Traced(report) THEN Example[m] ELSE env[m]
    BY <1>1 DEF Repair
  <2>3. n \in Departures(env) /\ n \notin Departures(env')
    BY <2>1, <2>2 DEF Departures
  <2> QED
    BY <2>2, <2>3 DEF Departures
<1>2. Inv /\ [Next]_vars =>
        [Repair => /\ Departures(env') \subseteq Departures(env)
                   /\ Departures(env') # Departures(env)]_vars
  BY <1>1
<1> QED
  BY <1>2, InvAlways, PTL DEF Spec, RepairsHelp

-----------------------------------------------------------------------------
(* Repairs have an end.                                                    *)

\* Whoever corrects what a refusal leads to is nearer to the example each time, and
\* nothing but a change of a variable takes the environment away from it again.
RepairsEnd ==
    [][\/ env' = env
       \/ \E n \in Names : Change(n)
       \/ Repair /\ Cardinality(Departures(env')) < Cardinality(Departures(env))]_vars

\* A process is started exactly in the environments that are acceptable, in whatever
\* order its checks are made.  So the repairs, of which there are no more than there
\* are variables, end with a process that starts.
LoadDecides ==
    /\ phase # "stopped" => Acceptable(env)
    /\ refuser = "Load" => ~ Acceptable(env) /\ Cardinality(Departures(env)) > 0
    /\ Cardinality(Departures(env)) <= 32

AllNames ==
    <<"BACKEND_PORT", "POSTGRES_PORT", "REDIS_PORT", "FRONTEND_DOMAIN", "SEAWEEDFS_FILES_DOMAIN",
      "REDIS_DB", "REDIS_POOL_SIZE", "REDIS_MIN_IDLE_CONNS", "HTTP_MAX_HEADER_BYTES",
      "POSTGRES_MAX_CONNS", "POSTGRES_MIN_CONNS", "CACHE_VIDEO_LIST_TTL", "HEALTH_CHECK_TIMEOUT",
      "HTTP_READ_HEADER_TIMEOUT", "HTTP_READ_TIMEOUT", "HTTP_WRITE_TIMEOUT", "HTTP_IDLE_TIMEOUT",
      "HTTP_SHUTDOWN_TIMEOUT", "POSTGRES_RETRY_TIMEOUT", "POSTGRES_CONNECT_TIMEOUT",
      "APP_NAME", "APP_ENV", "POSTGRES_DB", "POSTGRES_USER", "POSTGRES_PASSWORD",
      "POSTGRES_SSLMODE", "LOG_LEVEL", "LOG_FORMAT", "POSTGRES_MIGRATIONS_PATH",
      "REDIS_PASSWORD", "LOG_OUTPUT", "LOG_FILE_PATH">>

LEMMA NamesFinite == IsFiniteSet(Names) /\ Cardinality(Names) <= 32
<1>1. AllNames \in [1 .. 32 -> Names]
  <2>1. AllNames = [i \in 1 .. 32 |-> AllNames[i]]
    BY DEF AllNames
  <2>2. \A i \in 1 .. 32 : AllNames[i] \in Names
    <3>1. \A i \in 1 .. 11 : AllNames[i] \in Ports \cup Domains \cup Ints
      BY DEF AllNames, Ports, Domains, Ints
    <3>2. \A i \in 12 .. 20 : AllNames[i] \in Durations
      BY DEF AllNames, Durations
    <3>3. \A i \in 21 .. 28 : AllNames[i] \in Required
      BY DEF AllNames, Required
    <3>4. \A i \in 29 .. 32 : AllNames[i] \in Optional
      BY DEF AllNames, Optional
    <3> QED
      BY <3>1, <3>2, <3>3, <3>4 DEF Names, Required, Optional
  <2> QED
    BY <2>1, <2>2
<1>2. \A n \in Names : \E i \in 1 .. 32 : AllNames[i] = n
  <2>1. \A n \in Required : \E i \in 1 .. 32 : AllNames[i] = n
    BY DEF AllNames, Required, Ports, Domains
  <2>2. \A n \in Optional : \E i \in 1 .. 32 : AllNames[i] = n
    BY DEF AllNames, Optional, Ints, Durations
  <2> QED
    BY <2>1, <2>2 DEF Names
<1>3. AllNames \in Surjection(1 .. 32, Names)
  BY <1>1, <1>2 DEF Surjection
<1>4. IsFiniteSet(1 .. 32) /\ Cardinality(1 .. 32) = 32
  <2>1. 1 \in Int /\ 32 \in Int
    OBVIOUS
  <2>2. /\ IsFiniteSet(1 .. 32)
        /\ Cardinality(1 .. 32) = IF 1 > 32 THEN 0 ELSE 32 - 1 + 1
    BY <2>1, FS_Interval, Zenon
  <2> QED
    BY <2>2
<1> QED
  BY <1>3, <1>4, FS_Surjection

LEMMA DeparturesFinite ==
    ASSUME NEW e
    PROVE  /\ IsFiniteSet(Departures(e)) /\ Cardinality(Departures(e)) \in Nat
           /\ Cardinality(Departures(e)) <= 32
           /\ \A d \in SUBSET Departures(e) :
                d # Departures(e) => Cardinality(d) < Cardinality(Departures(e))
<1>1. Departures(e) \in SUBSET Names
  BY DEF Departures
<1>2. /\ IsFiniteSet(Departures(e))
      /\ Cardinality(Departures(e)) <= Cardinality(Names)
  BY <1>1, NamesFinite, FS_Subset
<1>3. Cardinality(Departures(e)) \in Nat /\ Cardinality(Names) \in Nat
  BY <1>2, NamesFinite, FS_CardinalityType
<1>4. ASSUME NEW d \in SUBSET Departures(e), d # Departures(e)
      PROVE  Cardinality(d) < Cardinality(Departures(e))
  <2>1. /\ IsFiniteSet(d) /\ Cardinality(d) <= Cardinality(Departures(e))
        /\ Cardinality(d) # Cardinality(Departures(e))
    BY <1>2, <1>4, FS_Subset
  <2>2. Cardinality(d) \in Nat
    BY <2>1, FS_CardinalityType
  <2> QED
    BY <1>3, <2>1, <2>2
<1> QED
  BY <1>2, <1>3, <1>4, NamesFinite

\* Repairs have an end, however many of the variables are wrong.
THEOREM RepairsTerminate == Spec => RepairsEnd
<1>1. [Repair => /\ Departures(env') \subseteq Departures(env)
                 /\ Departures(env') # Departures(env)]_vars /\ [Next]_vars
        => [\/ env' = env
            \/ \E n \in Names : Change(n)
            \/ Repair /\ Cardinality(Departures(env')) < Cardinality(Departures(env))]_vars
  <2> SUFFICES ASSUME Next,
                      Repair => /\ Departures(env') \subseteq Departures(env)
                                /\ Departures(env') # Departures(env)
               PROVE  \/ env' = env
                      \/ \E n \in Names : Change(n)
                      \/ Repair /\ Cardinality(Departures(env')) < Cardinality(Departures(env))
    BY DEF vars
  <2>1. CASE Repair
    BY <2>1, DeparturesFinite
  <2>2. CASE Load \/ NewLogger \/ LogFileFails \/ NewVideoService \/ Stop
    BY <2>2 DEF Load, NewLogger, LogFileFails, NewVideoService, Stop, Proceed
  <2> QED
    BY <2>1, <2>2 DEF Next
<1> QED
  BY <1>1, RepairsConverge, PTL DEF Spec, RepairsEnd, RepairsHelp

\* The load decides by the environment alone, and refuses nothing that is as in the
\* example.
THEOREM LoadDecidesRightly == Spec => []LoadDecides
<1>1. Inv => LoadDecides
  <2> SUFFICES ASSUME Inv PROVE LoadDecides
    OBVIOUS
  <2>1. phase # "stopped" => Acceptable(env)
    BY DEF Inv
  <2>2. ASSUME refuser = "Load" PROVE ~ Acceptable(env) /\ Cardinality(Departures(env)) > 0
    <3>1. LoadFromLookup(env) # {}
      BY <2>2 DEF Inv
    <3>2. PICK n \in Names : env[n] # Example[n]
      BY <3>1, RefusalNames
    <3>3. {} \in SUBSET Departures(env) /\ {} # Departures(env)
      BY <3>2 DEF Departures
    <3>4. Cardinality({}) < Cardinality(Departures(env)) /\ Cardinality({}) = 0
      BY <3>3, DeparturesFinite, FS_EmptySet
    <3> QED
      BY <3>1, <3>4, AcceptsAcceptable
  <2> QED
    BY <2>1, <2>2, DeparturesFinite DEF LoadDecides
<1> QED
  BY <1>1, InvAlways, PTL

=============================================================================
