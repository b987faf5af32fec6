------------------------------ MODULE Settings ------------------------------
(***************************************************************************)
(* The start of a backend process as its environment variables decide it:  *)
(* config.Load reads and checks them, NewLogger and NewVideoService check  *)
(* again what they are given.  A process that is refused stops and says    *)
(* why; somebody corrects what it named and starts it again.  Most errors  *)
(* name the variables they are about; some name what was put together from *)
(* several: a URL, the logger.                                             *)
(*                                                                         *)
(* The value of a variable is the number it denotes (durations in seconds, *)
(* Garbage when it denotes none), or for a text one of the kinds that the  *)
(* checks tell apart.  An unset and a blank variable are both None.        *)
(***************************************************************************)
EXTENDS Integers, Sequences, FiniteSets

CONSTANTS
    None, Garbage,
    Inputs,         \* the values tried, per variable
    MaxDepartures   \* bound on the variables that differ from the example

Ports == {"BACKEND_PORT", "POSTGRES_PORT", "REDIS_PORT"}
Domains == {"FRONTEND_DOMAIN", "SEAWEEDFS_FILES_DOMAIN"}
Ints == {"REDIS_DB", "REDIS_POOL_SIZE", "REDIS_MIN_IDLE_CONNS", "HTTP_MAX_HEADER_BYTES",
         "POSTGRES_MAX_CONNS", "POSTGRES_MIN_CONNS"}
Durations == {"CACHE_VIDEO_LIST_TTL", "HEALTH_CHECK_TIMEOUT", "HTTP_READ_HEADER_TIMEOUT",
              "HTTP_READ_TIMEOUT", "HTTP_WRITE_TIMEOUT", "HTTP_IDLE_TIMEOUT",
              "HTTP_SHUTDOWN_TIMEOUT", "POSTGRES_RETRY_TIMEOUT", "POSTGRES_CONNECT_TIMEOUT"}

Required ==
    Ports \cup Domains
    \cup {"APP_NAME", "APP_ENV", "POSTGRES_DB", "POSTGRES_USER", "POSTGRES_PASSWORD",
          "POSTGRES_SSLMODE", "LOG_LEVEL", "LOG_FORMAT"}
Optional ==
    Ints \cup Durations
    \cup {"POSTGRES_MIGRATIONS_PATH", "REDIS_PASSWORD", "LOG_OUTPUT", "LOG_FILE_PATH"}
Names == Required \cup Optional

\* What an error can be about: a variable, or (in lower case) something put together
\* from some that it does not name.
Subjects ==
    Names \cup {"postgres_url", "seaweedfs_public_url", "logger", "log_level", "log_output",
                "video_list_ttl"}

\* The variables that the code puts together to what an error names.
MadeOf(x) ==
    CASE x = "postgres_url" ->
            {"POSTGRES_USER", "POSTGRES_PASSWORD", "POSTGRES_PORT", "POSTGRES_DB",
             "POSTGRES_SSLMODE"}
      [] x = "seaweedfs_public_url" -> {"SEAWEEDFS_FILES_DOMAIN"}
      [] x = "logger" -> {"APP_NAME", "LOG_LEVEL", "LOG_OUTPUT", "LOG_FILE_PATH"}
      [] x = "log_level" -> {"LOG_LEVEL"}
      [] x = "log_output" -> {"LOG_OUTPUT"}
      [] x = "video_list_ttl" -> {"CACHE_VIDEO_LIST_TTL"}
      [] OTHER -> {x}

Traced(subjects) == UNION {MadeOf(x) : x \in subjects}

ASSUME SettingsAssumption ==
    /\ \A n \in Ports \cup Ints \cup Durations : Inputs[n] \subseteq Int \cup {Garbage, None}
    /\ None \notin Int \cup {"text", "domain", "info", "json", "Load", "file system"}
    /\ Garbage \notin Int \cup {None}
    /\ MaxDepartures \in Nat

MaxPort == 65535
MaxHeaderBytes == 1048576

\* .env.example, with its password filled in.
Example ==
    [APP_NAME |-> "text", APP_ENV |-> "text", BACKEND_PORT |-> 8080, FRONTEND_DOMAIN |-> "domain",
     POSTGRES_DB |-> "text", POSTGRES_USER |-> "text", POSTGRES_PASSWORD |-> "text",
     POSTGRES_PORT |-> 5432, POSTGRES_SSLMODE |-> "text", SEAWEEDFS_FILES_DOMAIN |-> "domain",
     REDIS_PORT |-> 6379, LOG_LEVEL |-> "info", LOG_FORMAT |-> "json", REDIS_DB |-> 0,
     REDIS_POOL_SIZE |-> 50, REDIS_MIN_IDLE_CONNS |-> 10, HTTP_MAX_HEADER_BYTES |-> MaxHeaderBytes,
     POSTGRES_MAX_CONNS |-> 10, POSTGRES_MIN_CONNS |-> 0, CACHE_VIDEO_LIST_TTL |-> 300,
     HEALTH_CHECK_TIMEOUT |-> 2, HTTP_READ_HEADER_TIMEOUT |-> 5, HTTP_READ_TIMEOUT |-> 10,
     HTTP_WRITE_TIMEOUT |-> 30, HTTP_IDLE_TIMEOUT |-> 60, HTTP_SHUTDOWN_TIMEOUT |-> 10,
     POSTGRES_RETRY_TIMEOUT |-> 30, POSTGRES_CONNECT_TIMEOUT |-> 5,
     POSTGRES_MIGRATIONS_PATH |-> "text", REDIS_PASSWORD |-> None, LOG_OUTPUT |-> "console",
     LOG_FILE_PATH |-> None]

VARIABLES
    env,     \* the variables the next process is started with
    phase,   \* how far the process has come
    report,  \* what the last refusal named, {} when there was none
    refuser  \* who refused

vars == <<env, phase, report, refuser>>

-----------------------------------------------------------------------------
(* config.LoadFromLookup: a sequence of checks, of which the first that    *)
(* fails is returned as the error.  A check stands for what its error      *)
(* names, {} when it holds.                                                *)

Check(subjects, holds) == IF holds THEN {} ELSE subjects

FirstFailed(checks) ==
    LET failed == {i \in DOMAIN checks : checks[i] # {}}
    IN  UNION {checks[i] : i \in {j \in failed : \A k \in failed : j <= k}}

parsePort(v) == v \in 1 .. MaxPort

\* Mutant: the sign is not checked.
optionalInt_Signed(v) == v = None \/ v \in Int

optionalInt(v) == v = None \/ v \in Nat

optionalDuration(v) == v = None \/ v \in Nat \ {0}

\* No scheme, path, query or blanks.  A bad port passes.
validateDomain(v) == v \notin {"with scheme", "with path"}

Parses(n, v) ==
    /\ n \in Ports => parsePort(v)
    /\ n \in Domains => validateDomain(v)
    /\ n \in Ints => optionalInt(v)
    /\ n \in Durations => optionalDuration(v)

\* REDIS_PORT is looked at before anything is known to be missing.
redisEndpoint(e) ==
    Check({"REDIS_PORT"}, e["REDIS_PORT"] = None \/ parsePort(e["REDIS_PORT"]))

Unset(e) == {n \in Required : e[n] = None}

\* Mutant: the load returns at the first missing variable.
Missing_First(e) == IF Unset(e) = {} THEN {} ELSE {CHOOSE n \in Unset(e) : TRUE}

Missing(e) == Unset(e)

ParseOrder ==
    <<"BACKEND_PORT", "FRONTEND_DOMAIN", "POSTGRES_PORT", "SEAWEEDFS_FILES_DOMAIN", "REDIS_DB",
      "REDIS_POOL_SIZE", "REDIS_MIN_IDLE_CONNS", "CACHE_VIDEO_LIST_TTL", "HEALTH_CHECK_TIMEOUT",
      "HTTP_READ_HEADER_TIMEOUT", "HTTP_READ_TIMEOUT", "HTTP_WRITE_TIMEOUT",
      "HTTP_IDLE_TIMEOUT", "HTTP_SHUTDOWN_TIMEOUT", "HTTP_MAX_HEADER_BYTES",
      "POSTGRES_MAX_CONNS", "POSTGRES_MIN_CONNS", "POSTGRES_RETRY_TIMEOUT",
      "POSTGRES_CONNECT_TIMEOUT">>

Readings(e) ==
    <<redisEndpoint(e), Check(Missing(e), Missing(e) = {})>>
    \o [i \in 1 .. Len(ParseOrder) |->
            Check({ParseOrder[i]}, Parses(ParseOrder[i], e[ParseOrder[i]]))]

\* What an optional variable stands for when it is not set.
Default(n) ==
    IF n \in Durations \cup {"HTTP_MAX_HEADER_BYTES", "LOG_OUTPUT", "POSTGRES_MIGRATIONS_PATH"}
    THEN Example[n]
    ELSE IF n \in Ints THEN 0 ELSE None

Config(e) == [n \in Names |-> IF e[n] = None /\ n \in Optional THEN Default(n) ELSE e[n]]

\* The name of the database becomes the path of the URL.
validatePostgresURL(db) == db # "root"

\* The URL is parsed again, and now with its port.
validateHTTPURL(domain) == domain # "with bad port"

\* Mutants: 0, by which the limit is left to pgxpool, is taken for a limit; the message
\* is that of the other pool.
ConnsRule_ZeroIsALimit(c) ==
    Check({"POSTGRES_MIN_CONNS", "POSTGRES_MAX_CONNS"},
          ~(c["POSTGRES_MIN_CONNS"] > c["POSTGRES_MAX_CONNS"]))
ConnsRule_OtherNames(c) ==
    Check({"REDIS_MIN_IDLE_CONNS", "REDIS_POOL_SIZE"},
          ~(c["POSTGRES_MIN_CONNS"] > c["POSTGRES_MAX_CONNS"] /\ c["POSTGRES_MAX_CONNS"] > 0))

ConnsRule(c) ==
    Check({"POSTGRES_MIN_CONNS", "POSTGRES_MAX_CONNS"},
          ~(c["POSTGRES_MIN_CONNS"] > c["POSTGRES_MAX_CONNS"] /\ c["POSTGRES_MAX_CONNS"] > 0))

IdleRule(c) ==
    Check({"REDIS_MIN_IDLE_CONNS", "REDIS_POOL_SIZE"},
          ~(c["REDIS_POOL_SIZE"] > 0 /\ c["REDIS_MIN_IDLE_CONNS"] > c["REDIS_POOL_SIZE"]))

Positive(c, n) == Check({n}, c[n] > 0)

\* The address of the server is built from its port and always splits again.
Rules(c) ==
    <<
        Check({"BACKEND_PORT"}, parsePort(c["BACKEND_PORT"])),
        Positive(c, "HTTP_READ_TIMEOUT"), Positive(c, "HTTP_READ_HEADER_TIMEOUT"),
        Positive(c, "HTTP_WRITE_TIMEOUT"), Positive(c, "HTTP_IDLE_TIMEOUT"),
        Positive(c, "HTTP_SHUTDOWN_TIMEOUT"), Positive(c, "HTTP_MAX_HEADER_BYTES"),
        Check({"postgres_url"}, validatePostgresURL(c["POSTGRES_DB"])),
        ConnsRule(c),
        Check({"POSTGRES_MIGRATIONS_PATH"}, c["POSTGRES_MIGRATIONS_PATH"] # None),
        Check({"REDIS_PORT"}, parsePort(c["REDIS_PORT"])),
        IdleRule(c),
        Positive(c, "CACHE_VIDEO_LIST_TTL"), Positive(c, "HEALTH_CHECK_TIMEOUT"),
        Check({"seaweedfs_public_url"}, validateHTTPURL(c["SEAWEEDFS_FILES_DOMAIN"])),
        Check({"LOG_LEVEL"}, c["LOG_LEVEL"] \in {"debug", "info", "warn", "error"}),
        Check({"LOG_FORMAT"}, c["LOG_FORMAT"] \in {"json", "text"}),
        Check({"LOG_OUTPUT"}, c["LOG_OUTPUT"] \in {"console", "file", "both"}),
        Check({"LOG_FILE_PATH", "LOG_OUTPUT"},
              ~(c["LOG_OUTPUT"] \in {"file", "both"} /\ c["LOG_FILE_PATH"] = None)) >>

Validate(c) == FirstFailed(Rules(c))

\* What the error names, {} when there is no error.
LoadFromLookup(e) ==
    LET unread == FirstFailed(Readings(e))
    IN  IF unread # {} THEN unread ELSE Validate(Config(e))

-----------------------------------------------------------------------------
(* The start of a process                                                  *)

\* Mutant: a level is forgotten.
LogLevels_WithoutWarn == {"debug", "info", "error"}

LogLevels == {"debug", "info", "warn", "error"}

LogOutputs == {"console", "file", "both"}

Departures(e) == {n \in Names : e[n] # Example[n]}

Init ==
    /\ env \in {Example, [n \in Names |-> None]}
    /\ phase = "stopped"
    /\ report = {}
    /\ refuser = None

\* A process goes on when nothing is refused, or it ends.
Proceed(refused, next, who) ==
    /\ phase' = IF refused = {} THEN next ELSE "stopped"
    /\ report' = refused
    /\ refuser' = IF refused = {} THEN None ELSE who
    /\ UNCHANGED env

Load ==
    /\ phase = "stopped"
    /\ Proceed(LoadFromLookup(env), "loaded", "Load")

NewLogger ==
    /\ phase = "loaded"
    /\ LET c == Config(env)
       IN  Proceed(FirstFailed(<<Check({"log_level"}, c["LOG_LEVEL"] \in LogLevels),
                                 Check({"log_output"}, c["LOG_OUTPUT"] \in LogOutputs)>>),
                   "logging", "NewLogger")

\* The file cannot be opened.
LogFileFails ==
    /\ phase = "loaded"
    /\ Config(env)["LOG_OUTPUT"] \in {"file", "both"}
    /\ Proceed({"logger"}, "logging", "file system")

NewVideoService ==
    /\ phase = "logging"
    /\ Proceed(Check({"video_list_ttl"}, Config(env)["CACHE_VIDEO_LIST_TTL"] > 0),
               "running", "NewVideoService")

Stop ==
    /\ phase = "running"
    /\ phase' = "stopped"
    /\ UNCHANGED <<env, report, refuser>>

\* The next process is given other variables; a process keeps those it was started
\* with.
Change(n) ==
    /\ phase = "stopped"
    /\ \E v \in Inputs[n] : env' = [env EXCEPT ![n] = v]
    /\ Cardinality(Departures(env')) <= MaxDepartures
    /\ report' = {} /\ refuser' = None
    /\ UNCHANGED phase

\* Whoever reads the refusal sets the variables it leads to as the example does: those
\* it names, and those that what it names is put together from.
Repair ==
    /\ phase = "stopped"
    /\ report # {}
    /\ env' = [n \in Names |-> IF n \in Traced(report) THEN Example[n] ELSE env[n]]
    /\ report' = {} /\ refuser' = None
    /\ UNCHANGED phase

Next ==
    \/ Load \/ NewLogger \/ LogFileFails \/ NewVideoService \/ Stop \/ Repair
    \/ \E n \in Names : Change(n)

Spec == Init /\ [][Next]_vars

-----------------------------------------------------------------------------
(* Properties                                                              *)

\* What the parts of a process are built from is fit for use: ports are ports, time
\* limits and the cache's time to live are positive, and a pool whose limit is set is
\* not asked to keep more connections than that.  (0 leaves the limit to the library,
\* whose own is not known here.)
Usable(c) ==
    /\ \A n \in Ports : c[n] \in 1 .. MaxPort
    /\ \A n \in Ints : c[n] \in Nat
    /\ \A n \in Durations : c[n] \in Nat \ {0}
    /\ c["POSTGRES_MAX_CONNS"] = 0 \/ c["POSTGRES_MIN_CONNS"] <= c["POSTGRES_MAX_CONNS"]
    /\ c["REDIS_POOL_SIZE"] = 0 \/ c["REDIS_MIN_IDLE_CONNS"] <= c["REDIS_POOL_SIZE"]
    /\ c["HTTP_MAX_HEADER_BYTES"] > 0
    /\ c["LOG_OUTPUT"] # "console" => c["LOG_FILE_PATH"] # None

\* The types of the variables; a process that has loaded its configuration can use it.
SettingsTypeOK ==
    /\ DOMAIN env = Names
    /\ phase \in {"stopped", "loaded", "logging", "running"}
    /\ report \subseteq Subjects
    /\ phase # "stopped" => report = {} /\ Usable(Config(env))

\* What Load accepts neither NewLogger nor NewVideoService refuses: the lists that config.go,
\* logger.go and usecase/video.go keep of the same values agree.
OnlyLoadRefuses == refuser \in {None, "Load", "file system"}

\* A refusal that is about a missing variable names all that are missing, so that
\* they can be set in one go.
MissingReportedTogether ==
    refuser = "Load" /\ (\E n \in report \cap Required : env[n] = None)
        => {n \in Required : env[n] = None} \subseteq report

\* A refusal leads to a variable that is at fault: it names one, or a URL or the logger
\* that one went into.  Setting what it leads to as the example does gets the
\* environment closer to the example, so that repairs have an end.
RepairsHelp ==
    [][Repair => /\ Departures(env') \subseteq Departures(env)
                 /\ Departures(env') # Departures(env)]_vars

\* As far as LoadFromLookup goes, a process that runs can be started again when an
\* optional variable is no longer set: the defaults fit every value the other variables
\* may have.  (docker-compose.yml insists on some of them for reasons of its own.)
UnsettingIsSafe ==
    phase = "running" =>
        \A n \in Optional \ {"LOG_FILE_PATH"} : LoadFromLookup([env EXCEPT ![n] = None]) = {}

=============================================================================
