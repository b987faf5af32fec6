---------------------------- MODULE RateLimiter ----------------------------
(***************************************************************************)
(* The limiter of POST /api/videos/{id}/view                               *)
(* (controller/restapi/middleware/rate_limit.go): a window per key, a key  *)
(* being a client's address and a path, in a table of limited size.        *)
(*                                                                         *)
(* A request reads the clock before it takes the lock, and any time may    *)
(* pass in between, so the limiter sees times out of order.  Under the     *)
(* lock a call is one step.                                                *)
(***************************************************************************)
EXTENDS Integers, FiniteSets, Functions

CONSTANTS
    Requests,
    Keys,
    Limit,        \* requests per window: 60
    Window,       \* length of a window: one minute
    MaxEntries,   \* rateLimitMaxEntries, 4096
    CleanupFrom,  \* the size below which cleanupExpired returns at once, 1024
    MaxClock      \* bound on the clock

ASSUME RateLimiterAssumption ==
    /\ Limit \in Nat \ {0}
    /\ Window \in Nat \ {0}
    /\ MaxEntries \in Nat \ {0}
    /\ CleanupFrom \in 0 .. MaxEntries
    /\ MaxClock \in Nat

VARIABLES
    clock,     \* since the process started
    entries,   \* the table: per key the requests counted and the window's end
    pc,        \* where each request is
    key,       \* its key, once it has arrived
    now,       \* the time it read
    admitted,  \* history: per key the requests admitted since its entry was made
    inWindow   \* history: those of them that the current window counts

request == <<pc, key, now>>
history == <<admitted, inWindow>>
vars == <<clock, entries, request, history>>

TypeOK ==
    /\ clock \in Nat
    /\ DOMAIN entries \in SUBSET Keys
    /\ entries \in [DOMAIN entries -> [count : Nat \ {0}, resetAt : Nat]]
    /\ pc \in [Requests -> {"new", "timed", "admitted", "refused"}]
    /\ key \in [Requests -> Keys]
    /\ now \in [Requests -> 0 .. clock]
    /\ admitted \in [Keys -> Nat]
    /\ inWindow \in [Keys -> Nat]

-----------------------------------------------------------------------------

\* NewRateLimiter
Init ==
    /\ clock = 0
    /\ entries = [k \in {} |-> 0]
    /\ pc = [r \in Requests |-> "new"]
    /\ key \in [Requests -> Keys]
    /\ now = [r \in Requests |-> 0]
    /\ admitted = [k \in Keys |-> 0]
    /\ inWindow = [k \in Keys |-> 0]

Tick ==
    /\ clock < MaxClock
    /\ clock' = clock + 1
    /\ UNCHANGED <<entries, request, history>>

\* allow, until it holds the lock
ReadClock(r) ==
    /\ pc[r] = "new"
    /\ pc' = [pc EXCEPT ![r] = "timed"]
    /\ now' = [now EXCEPT ![r] = clock]
    /\ UNCHANGED <<clock, entries, key, history>>

\* The keys whose window has not ended at time t.
Live(t) == {k \in DOMAIN entries : t < entries[k].resetAt}

Full(table) == Cardinality(DOMAIN table) >= MaxEntries

\* Mutant: a cleanup only beyond a size that is never reached.
CleanupExpired_TooLarge(t) ==
    IF Cardinality(DOMAIN entries) <= MaxEntries
      THEN entries
      ELSE Restrict(entries, Live(t))

\* Mutant: the cleanup drops the whole table.
CleanupExpired_All(t) == Restrict(entries, {})

\* cleanupExpired
CleanupExpired(t) ==
    IF Cardinality(DOMAIN entries) < CleanupFrom
      THEN entries
      ELSE Restrict(entries, Live(t))

\* The table in which a key without an entry gets one.
Cleaned(t) == IF Full(entries) THEN CleanupExpired(t) ELSE entries

\* A window of k that begins at t, with its first request.
WithWindow(table, k, t) ==
    [j \in DOMAIN table \cup {k} |->
        IF j = k THEN [count |-> 1, resetAt |-> t + Window] ELSE table[j]]

Answer(r, result) == pc' = [pc EXCEPT ![r] = result]

\* The history of the keys that are left in the table, k being admitted.
Forgotten(h) == [j \in Keys |-> IF j \in DOMAIN entries' THEN h[j] ELSE 0]
Admit(k, total, current) ==
    /\ admitted' = Forgotten([admitted EXCEPT ![k] = total])
    /\ inWindow' = Forgotten([inWindow EXCEPT ![k] = current])

\* The key's window is open: the request is counted.
Count(r) ==
    LET k == key[r]
        count == entries[k].count + 1
    IN  /\ pc[r] = "timed"
        /\ k \in Live(now[r])
        /\ entries' = [entries EXCEPT ![k].count = count]
        /\ \/ /\ count <= Limit
              /\ Answer(r, "admitted")
              /\ Admit(k, admitted[k] + 1, inWindow[k] + 1)
           \/ /\ count > Limit
              /\ Answer(r, "refused")
              /\ UNCHANGED history
        /\ UNCHANGED <<clock, key, now>>

\* Mutant: the count starts again, the window keeps its end.
Reopen_KeepsEnd(r) ==
    LET k == key[r]
    IN  /\ pc[r] = "timed"
        /\ k \in DOMAIN entries \ Live(now[r])
        /\ entries' = [entries EXCEPT ![k].count = 1]
        /\ Answer(r, "admitted")
        /\ Admit(k, admitted[k] + 1, 1)
        /\ UNCHANGED <<clock, key, now>>

\* The key's window has ended, and the next one begins.
Reopen(r) ==
    LET k == key[r]
    IN  /\ pc[r] = "timed"
        /\ k \in DOMAIN entries \ Live(now[r])
        /\ entries' = WithWindow(entries, k, now[r])
        /\ Answer(r, "admitted")
        /\ Admit(k, admitted[k] + 1, 1)
        /\ UNCHANGED <<clock, key, now>>

\* The key has no entry, and there is room for one, if need be after a cleanup.
Open(r) ==
    LET k == key[r]
    IN  /\ pc[r] = "timed"
        /\ k \notin DOMAIN entries
        /\ ~Full(Cleaned(now[r]))
        /\ entries' = WithWindow(Cleaned(now[r]), k, now[r])
        /\ Answer(r, "admitted")
        /\ Admit(k, 1, 1)
        /\ UNCHANGED <<clock, key, now>>

\* The key has no entry, and the cleanup makes no room.
TableFull(r) ==
    /\ pc[r] = "timed"
    /\ key[r] \notin DOMAIN entries
    /\ Full(Cleaned(now[r]))
    /\ entries' = Cleaned(now[r])
    /\ Answer(r, "refused")
    /\ admitted' = Forgotten(admitted)
    /\ inWindow' = Forgotten(inWindow)
    /\ UNCHANGED <<clock, key, now>>

Next ==
    \/ Tick
    \/ \E r \in Requests :
        ReadClock(r) \/ Count(r) \/ Reopen(r) \/ Open(r) \/ TableFull(r)

Spec == Init /\ [][Next]_vars

-----------------------------------------------------------------------------

\* The table never holds more than rateLimitMaxEntries keys.
TableBounded == Cardinality(DOMAIN entries) <= MaxEntries

\* However long requests take from reading the clock to holding the lock, a key that
\* keeps its entry is admitted at most Limit times per Window that has passed, and
\* Limit times more.
AdmissionRate == \A k \in Keys : admitted[k] * Window <= Limit * (clock + Window)

\* A request is refused only when Limit requests of its key were admitted to a window
\* that is open at the time it read, or when it has no entry and MaxEntries windows
\* of other keys are open at that time: ended ones never keep it out.
RefusedForCause ==
    [][\A r \in Requests :
        pc[r] # "refused" /\ pc'[r] = "refused" =>
            \/ key[r] \in Live(now[r]) /\ inWindow[key[r]] = Limit
            \/ key[r] \notin DOMAIN entries /\ Cardinality(Live(now[r])) >= MaxEntries]_vars

\* A window that has not ended by the clock is neither dropped nor begun anew nor
\* extended, be it by refused requests, by a cleanup or by a request with an old time.
WindowsRunTheirCourse ==
    [][\A k \in Live(clock) :
        /\ k \in DOMAIN entries'
        /\ entries'[k].resetAt = entries[k].resetAt]_vars

=============================================================================
