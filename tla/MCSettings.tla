----------------------------- MODULE MCSettings -----------------------------
(* Values of the environment variables that the checks tell apart.          *)
EXTENDS Settings

Tried ==
    [n \in Names |->
        IF n \in Ports THEN {None, Garbage, 0, 65536, 65535}
        ELSE IF n \in Domains
             THEN {None, "domain", "with scheme", "with path", "with bad port"}
        ELSE IF n \in Ints THEN {None, Garbage, -1, 0, 5, 20}
        ELSE IF n \in Durations THEN {None, Garbage, 0, 1}
        ELSE IF n = "LOG_LEVEL" THEN {None, "warn", "trace"}
        ELSE IF n = "LOG_FORMAT" THEN {None, "text", "xml"}
        ELSE IF n = "LOG_OUTPUT" THEN {None, "file", "both", "syslog"}
        ELSE IF n = "POSTGRES_DB" THEN {None, "root"}
        ELSE {None, "text"}]
=============================================================================
