------------------------------ MODULE ListCache ------------------------------
(***************************************************************************)
(* The Redis cache of the video list (internal/repo/redis/cache.go): one   *)
(* key holding the list, one key holding its version, and in every backend *)
(* process a singleflight group that shares a load among the callers that  *)
(* miss.  GetOrLoadVideos and Del are modelled at the granularity of the   *)
(* single Redis commands they send, because that is where they interleave. *)
(*                                                                         *)
(* A list is represented by the number of committed increments it shows:   *)
(* ListVideos is one SELECT, so it sees a prefix of the commits.           *)
(*                                                                         *)
(* A call is made at most once; the sets of calls are arbitrary, so this   *)
(* loses nothing.  A call that stops taking steps is a caller that crashed. *)
(***************************************************************************)
EXTENDS Naturals

CONSTANTS
    Loads,        \* the calls of GetOrLoadVideos
    Dels,         \* the calls of Del
    Instances,    \* the backend processes that share the Redis server
    InstanceOf,   \* the process each call is made in
    MaxSends,     \* bound on the transmissions of one call
    MaxCommits,   \* bound on the number of committed increments
    None,         \* an absent Redis key, an empty singleflight slot
    Corrupt       \* a cached payload that json.Unmarshal rejects

Calls == Loads \cup Dels
Copies == 1 .. MaxSends

ASSUME ListCacheAssumption ==
    /\ Loads \cap Dels = {}
    /\ InstanceOf \in [Calls -> Instances]
    /\ MaxSends \in Nat
    /\ MaxCommits \in Nat
    /\ None \notin Nat \cup Loads
    /\ Corrupt \notin Nat \cup {None}

VARIABLES
    db,         \* committed increments: the list a SELECT returns now
    cached,     \* the Redis key "videos:list"
    version,    \* the Redis key "videos:list:version" (absent reads as 0)
    group,      \* per process: the load the singleflight group has registered
    pc,         \* where each call is
    wire,       \* per call and transmission: how far the server has run it
    seen,       \* the version a load read before it queried the database
    list,       \* the list a load read or was given
    waitsFor,   \* the load whose result a joined call waits for
    base,       \* history: db when a Del was called
    before      \* history: the Dels of its process a load started after

redis == <<cached, version>>
vars == <<db, cached, version, group, pc, wire, seen, list, waitsFor, base, before>>

LoadStates == {"idle", "get", "corrupt", "repair", "do", "wait", "version", "load", "set",
               "ok", "err"}
DelStates  == {"idle", "sent", "ok", "err"}

\* A transmission is unused, an invalidation of which INCR and DEL, only DEL or
\* nothing is left to run, or a script that is still to run or has run.
WireStates == {"none", "incr", "del", "deleted", "set", "answered"}

TypeOK ==
    /\ db \in Nat
    /\ cached \in Nat \cup {None, Corrupt}
    /\ version \in Nat
    /\ group \in [Instances -> Loads \cup {None}]
    /\ pc \in [Calls -> LoadStates \cup DelStates]
    /\ \A l \in Loads : pc[l] \in LoadStates
    /\ \A d \in Dels : pc[d] \in DelStates
    /\ wire \in [Calls -> [Copies -> WireStates]]
    /\ seen \in [Loads -> Nat]
    /\ list \in [Loads -> Nat]
    /\ waitsFor \in [Loads -> Loads \cup {None}]
    /\ base \in [Dels -> Nat]
    /\ before \in [Loads -> SUBSET Dels]

Init ==
    /\ db = 0
    /\ cached = None
    /\ version = 0
    /\ group = [p \in Instances |-> None]
    /\ pc = [c \in Calls |-> "idle"]
    /\ wire = [c \in Calls |-> [k \in Copies |-> "none"]]
    /\ seen = [l \in Loads |-> 0]
    /\ list = [l \in Loads |-> 0]
    /\ waitsFor = [l \in Loads |-> None]
    /\ base = [d \in Dels |-> 0]
    /\ before = [l \in Loads |-> {}]

-----------------------------------------------------------------------------
(* Helpers of both operations.                                             *)

Goto(c, state) == pc' = [pc EXCEPT ![c] = state]

Send(c, commands) ==
    \E k \in Copies :
        /\ wire[c][k] = "none"
        /\ \A j \in 1 .. k - 1 : wire[c][j] # "none"
        /\ wire' = [wire EXCEPT ![c][k] = commands]

Has(c, state) == \E k \in Copies : wire[c][k] = state

\* Mutant: Del does not forget the flight.
Forget_Skipped(c) == UNCHANGED group

\* c.group.Forget(key) in the process of call c.
Forget(c) == group' = [group EXCEPT ![InstanceOf[c]] = None]

\* The calls that joined the flight l leads.
Joined(l) == {m \in Loads : pc[m] = "wait" /\ waitsFor[m] = l}

\* A flight ends: the group drops it if it is still the registered one, and its
\* leader and every call that joined it return the same outcome.
Deliver(l, outcome) ==
    /\ pc' = [c \in Calls |-> IF c = l \/ c \in Joined(l) THEN outcome ELSE pc[c]]
    /\ list' = [m \in Loads |-> IF m \in Joined(l) THEN list[l] ELSE list[m]]
    /\ group' = [p \in Instances |-> IF group[p] = l THEN None ELSE group[p]]

-----------------------------------------------------------------------------
(* GetOrLoadVideos                                                         *)

GetOrLoadVideos(l) ==
    /\ pc[l] = "idle"
    /\ Goto(l, "get")
    /\ before' = [before EXCEPT ![l] =
                    {d \in Dels : pc[d] = "ok" /\ InstanceOf[d] = InstanceOf[l]}]
    /\ UNCHANGED <<db, redis, group, wire, seen, list, waitsFor, base>>

\* GET answers a list that decodes.
Hit(l) ==
    /\ pc[l] = "get"
    /\ cached \in Nat
    /\ list' = [list EXCEPT ![l] = cached]
    /\ Goto(l, "ok")
    /\ UNCHANGED <<db, redis, group, wire, seen, waitsFor, base, before>>

\* GET answers a payload that does not decode.
HitCorrupt(l) ==
    /\ pc[l] = "get"
    /\ cached = Corrupt
    /\ Goto(l, "corrupt")
    /\ UNCHANGED <<db, redis, group, wire, seen, list, waitsFor, base, before>>

\* The flight is forgotten and the key invalidated before anything is loaded.
Repair(l) ==
    /\ pc[l] = "corrupt"
    /\ Forget(l)
    /\ Send(l, "incr")
    /\ Goto(l, "repair")
    /\ UNCHANGED <<db, redis, seen, list, waitsFor, base, before>>

\* The invalidation is acknowledged; this call loads outside the group.
Repaired(l) ==
    /\ pc[l] = "repair"
    /\ Has(l, "deleted")
    /\ Goto(l, "version")
    /\ UNCHANGED <<db, redis, group, wire, seen, list, waitsFor, base, before>>

Miss(l) ==
    /\ pc[l] = "get"
    /\ cached = None
    /\ Goto(l, "do")
    /\ UNCHANGED <<db, redis, group, wire, seen, list, waitsFor, base, before>>

\* c.group.Do: join the registered flight, or register one.
Join(l) ==
    /\ pc[l] = "do"
    /\ group[InstanceOf[l]] # None
    /\ waitsFor' = [waitsFor EXCEPT ![l] = group[InstanceOf[l]]]
    /\ Goto(l, "wait")
    /\ UNCHANGED <<db, redis, group, wire, seen, list, base, before>>

Lead(l) ==
    /\ pc[l] = "do"
    /\ group[InstanceOf[l]] = None
    /\ group' = [group EXCEPT ![InstanceOf[l]] = l]
    /\ Goto(l, "version")
    /\ UNCHANGED <<db, redis, wire, seen, list, waitsFor, base, before>>

ReadVersion(l) ==
    /\ pc[l] = "version"
    /\ seen' = [seen EXCEPT ![l] = version]
    /\ Goto(l, "load")
    /\ UNCHANGED <<db, redis, group, wire, list, waitsFor, base, before>>

\* loadFn answers the list of now; it is marshalled and the script is sent.
LoadVideos(l) ==
    /\ pc[l] = "load"
    /\ list' = [list EXCEPT ![l] = db]
    /\ Send(l, "set")
    /\ Goto(l, "set")
    /\ UNCHANGED <<db, redis, group, seen, waitsFor, base, before>>

\* The script has answered 0 or 1: either way the loaded list is returned.
Loaded(l) ==
    /\ pc[l] = "set"
    /\ Has(l, "answered")
    /\ Deliver(l, "ok")
    /\ UNCHANGED <<db, redis, wire, seen, waitsFor, base, before>>

\* An error or a timeout of GET, of the version read, of the database, of the
\* script or of the repair.  What is on the wire may still reach the server.
LoadFails(l) ==
    /\ pc[l] \in {"get", "corrupt", "repair", "version", "load", "set"}
    /\ Deliver(l, "err")
    /\ UNCHANGED <<db, redis, wire, seen, waitsFor, base, before>>

-----------------------------------------------------------------------------
(* Del                                                                     *)

\* Forget the flight of this process, then send INCR version and DEL key in
\* one pipeline (two commands, not a transaction).
Del(d) ==
    /\ pc[d] = "idle"
    /\ base' = [base EXCEPT ![d] = db]
    /\ Forget(d)
    /\ Send(d, "incr")
    /\ Goto(d, "sent")
    /\ UNCHANGED <<db, redis, seen, list, waitsFor, before>>

\* Mutant: Del does not wait for the pipeline.
DelReturns_Unacknowledged(d) ==
    /\ pc[d] = "sent"
    /\ Goto(d, "ok")
    /\ UNCHANGED <<db, redis, group, wire, seen, list, waitsFor, base, before>>

DelReturns(d) ==
    /\ pc[d] = "sent"
    /\ Has(d, "deleted")
    /\ Goto(d, "ok")
    /\ UNCHANGED <<db, redis, group, wire, seen, list, waitsFor, base, before>>

\* An error or a timeout; the pipeline may still run, wholly or in part.
DelFails(d) ==
    /\ pc[d] = "sent"
    /\ Goto(d, "err")
    /\ UNCHANGED <<db, redis, group, wire, seen, list, waitsFor, base, before>>

-----------------------------------------------------------------------------
(* The Redis server, the client library and the rest of the world.         *)

Run(c, k, from, to) ==
    /\ wire[c][k] = from
    /\ wire' = [wire EXCEPT ![c][k] = to]

\* Mutant: the pipeline only deletes the key.
RunIncr_Missing(c, k) ==
    /\ Run(c, k, "incr", "del")
    /\ UNCHANGED <<db, redis, group, pc, seen, list, waitsFor, base, before>>

RunIncr(c, k) ==
    /\ Run(c, k, "incr", "del")
    /\ version' = version + 1
    /\ UNCHANGED <<db, cached, group, pc, seen, list, waitsFor, base, before>>

RunDel(c, k) ==
    /\ Run(c, k, "del", "deleted")
    /\ cached' = None
    /\ UNCHANGED <<db, version, group, pc, seen, list, waitsFor, base, before>>

\* Mutant: a plain SET.
RunScript_Unconditional(l, k) ==
    /\ Run(l, k, "set", "answered")
    /\ cached' = list[l]
    /\ UNCHANGED <<db, version, group, pc, seen, list, waitsFor, base, before>>

\* setIfVersionUnchanged: compare and SET are one atomic script.
RunScript(l, k) ==
    /\ Run(l, k, "set", "answered")
    /\ cached' = IF version = seen[l] THEN list[l] ELSE cached
    /\ UNCHANGED <<db, version, group, pc, seen, list, waitsFor, base, before>>

\* The client library sends a command again when its reply is lost or late; the
\* earlier transmissions may still be under way.
Resend(c) ==
    /\ pc[c] \in {"sent", "repair", "set"}
    /\ Send(c, IF pc[c] = "set" THEN "set" ELSE "incr")
    /\ UNCHANGED <<db, redis, group, pc, seen, list, waitsFor, base, before>>

\* The TTL of the list key runs out.
Expire ==
    /\ cached' = None
    /\ UNCHANGED <<db, version, group, pc, wire, seen, list, waitsFor, base, before>>

\* Someone else overwrites the key with a payload that does not decode.
WriteGarbage ==
    /\ cached' = Corrupt
    /\ UNCHANGED <<db, version, group, pc, wire, seen, list, waitsFor, base, before>>

\* Some request commits an increment.
Commit ==
    /\ db < MaxCommits
    /\ db' = db + 1
    /\ UNCHANGED <<redis, group, pc, wire, seen, list, waitsFor, base, before>>

-----------------------------------------------------------------------------
LoadStep(l) ==
    \/ Hit(l) \/ HitCorrupt(l) \/ Repair(l) \/ Repaired(l) \/ Miss(l) \/ Join(l) \/ Lead(l)
    \/ ReadVersion(l) \/ LoadVideos(l) \/ Loaded(l) \/ LoadFails(l)
DelStep(d) == DelReturns(d) \/ DelFails(d)

Next ==
    \/ \E l \in Loads : GetOrLoadVideos(l) \/ LoadStep(l)
    \/ \E d \in Dels : Del(d) \/ DelStep(d)
    \/ \E c \in Calls : Resend(c) \/ \E k \in Copies : RunIncr(c, k) \/ RunDel(c, k)
    \/ \E l \in Loads, k \in Copies : RunScript(l, k)
    \/ Expire \/ WriteGarbage \/ Commit

Spec == Init /\ [][Next]_vars

-----------------------------------------------------------------------------
(* Properties                                                              *)

\* Some transmission of Del has run: the version is bumped and the key removed.
Invalidated(d) == Has(d, "deleted")

\* The comparison of versions keeps every load that started before an
\* invalidation out of the cache: whatever process stored it, and however late
\* its script ran, a cached list shows every increment that was committed when
\* an invalidation that has run was called.
CachedShowsInvalidations ==
    cached \in Nat => \A d \in Dels : Invalidated(d) => cached >= base[d]

\* A call that returns a list returns one that shows every increment committed
\* when a Del that had already returned in the same process was called: the
\* answer may come from the key, from a load of its own or from a flight joined
\* in the group, and a flight that Del has forgotten is never joined.
ReadsShowInvalidations ==
    \A l \in Loads : pc[l] = "ok" => \A d \in before[l] : list[l] >= base[d]

\* The commands, versions and flights are one way to keep the promise of
\* CachePromise: every step is one of its steps or changes nothing it speaks of.
status == [c \in Calls |-> IF pc[c] \in {"idle", "ok", "err"} THEN pc[c] ELSE "running"]
answer == [l \in Loads |-> IF pc[l] = "ok" THEN list[l] ELSE 0]

Promise == INSTANCE CachePromise WITH status <- status, answer <- answer
KeepsPromise == Promise!Spec

=============================================================================
