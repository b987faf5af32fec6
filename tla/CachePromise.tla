---------------------------- MODULE CachePromise ----------------------------
(***************************************************************************)
(* What the users of repo.Cache and repo.CacheInvalidator (repo/contract.go *)
(* and its callers) may rely on, with nothing of how Redis, the version    *)
(* counter and singleflight provide it.                                    *)
(*                                                                         *)
(* Calls of Del and of GetOrLoadVideos overlap.  Reads that return together *)
(* return one list; it shows no increment that is not committed, and shows *)
(* all that were committed when a Del that preceded any of them in the same *)
(* process was called.  Anything may fail; a call returns once.            *)
(***************************************************************************)
EXTENDS Naturals

CONSTANTS Loads, Dels, InstanceOf

Calls == Loads \cup Dels

VARIABLES
    db,         \* committed increments
    status,     \* of each call
    base,       \* db when a Del was called
    before,     \* the Dels of its process that had returned when a read started
    answer      \* the list a read returned (0 until then)

vars == <<db, status, base, before, answer>>

Init ==
    /\ db = 0
    /\ status = [c \in Calls |-> "idle"]
    /\ base = [d \in Dels |-> 0]
    /\ before = [l \in Loads |-> {}]
    /\ answer = [l \in Loads |-> 0]

Commit ==
    /\ db' = db + 1
    /\ UNCHANGED <<status, base, before, answer>>

StartRead(l) ==
    /\ status[l] = "idle"
    /\ status' = [status EXCEPT ![l] = "running"]
    /\ before' = [before EXCEPT ![l] =
                    {d \in Dels : status[d] = "ok" /\ InstanceOf[d] = InstanceOf[l]}]
    /\ UNCHANGED <<db, base, answer>>

StartDel(d) ==
    /\ status[d] = "idle"
    /\ status' = [status EXCEPT ![d] = "running"]
    /\ base' = [base EXCEPT ![d] = db]
    /\ UNCHANGED <<db, before, answer>>

EndDel(d, outcome) ==
    /\ status[d] = "running"
    /\ status' = [status EXCEPT ![d] = outcome]
    /\ UNCHANGED <<db, base, before, answer>>

\* The reads in S are answered with the list of the first v increments.
Answer(S, v) ==
    /\ \A l \in S : status[l] = "running" /\ \A d \in before[l] : v >= base[d]
    /\ status' = [c \in Calls |-> IF c \in S THEN "ok" ELSE status[c]]
    /\ answer' = [l \in Loads |-> IF l \in S THEN v ELSE answer[l]]
    /\ UNCHANGED <<db, base, before>>

Fail(S) ==
    /\ \A l \in S : status[l] = "running"
    /\ status' = [c \in Calls |-> IF c \in S THEN "err" ELSE status[c]]
    /\ UNCHANGED <<db, base, before, answer>>

Next ==
    \/ Commit
    \/ \E l \in Loads : StartRead(l)
    \/ \E d \in Dels : StartDel(d) \/ EndDel(d, "ok") \/ EndDel(d, "err")
    \/ \E S \in SUBSET Loads : Fail(S) \/ \E v \in 0 .. db : Answer(S, v)

Spec == Init /\ [][Next]_vars

=============================================================================
