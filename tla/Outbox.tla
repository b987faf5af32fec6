------------------------------- MODULE Outbox -------------------------------
(***************************************************************************)
(* The outbox: the table outbox_events (query/outbox.sql, repo/persistent) *)
(* and the workers that drain it, one per backend process                  *)
(* (internal/app/outbox.go).                                               *)
(*                                                                         *)
(* A claim leases an event for 30 seconds.  A batch may take longer than   *)
(* that (16 events, each up to 10 seconds), so a lease may run out at any  *)
(* moment of its batch and time is not modelled: a lock, of a lease or of  *)
(* a retry, ends some time after it was set.                               *)
(*                                                                         *)
(* A statement whose answer does not arrive in time fails for the worker,  *)
(* but the database may still run it later.  The worker goes on meanwhile. *)
(***************************************************************************)
EXTENDS Integers, FiniteSets

CONSTANTS
    Events,       \* the events, numbered in the order of created_at, id
    Unsupported,  \* the events of a type the worker does not know
    Workers,
    BatchSize,    \* outboxBatchSize
    MaxAttempts,  \* outboxMaxAttempts
    MaxFaults,    \* bound on the crashes, signals and lost answers
    None

ASSUME OutboxAssumption ==
    /\ Events \subseteq Nat
    /\ Unsupported \subseteq Events
    /\ IsFiniteSet(Workers)
    /\ BatchSize \in Nat \ {0}
    /\ MaxAttempts \in Nat \ {0}
    /\ MaxFaults \in Nat
    /\ None \notin Events

VARIABLES
    inserted,   \* the rows
    processed,  \* the rows with processed_at
    failed,     \* the rows with failed_at
    locked,     \* the rows whose locked_until is not yet past
    attempts,   \* per row
    late,       \* statements given up on that the database may still run
    at,         \* where each worker is
    claim,      \* per worker: the attempts its batch carries for an event, or 0
    current,    \* the event a worker works on
    progress,   \* the workers whose batch has processed an event
    cancelled,  \* the workers whose context is cancelled
    invalidated, \* history: the events for which Del has run after the insert
    faults      \* crashes, signals and lost answers so far

rows == <<inserted, processed, failed, locked, attempts>>
batch == <<claim, current, progress>>
vars == <<rows, late, at, batch, cancelled, invalidated, faults>>

WorkerStates ==
    {"fetch", "next", "del", "mark", "cleanup", "unsupported", "wait", "stopped", "down"}

Kinds == {"fetch", "processed", "failed", "release"}

TypeOK ==
    /\ inserted \subseteq Events
    /\ processed \subseteq inserted
    /\ failed \subseteq inserted
    /\ locked \subseteq inserted
    /\ attempts \in [Events -> Nat]
    /\ late \subseteq Kinds \X (Events \cup {None})
    /\ at \in [Workers -> WorkerStates]
    /\ claim \in [Workers -> [Events -> Nat]]
    /\ current \in [Workers -> Events \cup {None}]
    /\ \A w \in Workers :
        at[w] \in {"del", "mark", "cleanup", "unsupported"} => current[w] # None
    /\ progress \subseteq Workers
    /\ cancelled \subseteq Workers
    /\ invalidated \subseteq inserted
    /\ faults \in 0 .. MaxFaults

Init ==
    /\ inserted = {} /\ processed = {} /\ failed = {} /\ locked = {}
    /\ attempts = [e \in Events |-> 0]
    /\ late = {}
    /\ at = [w \in Workers |-> "fetch"]
    /\ claim = [w \in Workers |-> [e \in Events |-> 0]]
    /\ current = [w \in Workers |-> None]
    /\ progress = {}
    /\ cancelled = {}
    /\ invalidated = {}
    /\ faults = 0

Settled == processed \cup failed

-----------------------------------------------------------------------------
(* The statements of query/outbox.sql, each atomic in the database.  A row *)
(* that SKIP LOCKED passes over is being changed by another statement, and *)
(* every one of these makes it ineligible: it might as well have run first. *)

\* The transaction of IncrementViews inserts its event; transactions commit in
\* any order.
InsertOutboxEvent(e) ==
    /\ e \notin inserted
    /\ inserted' = inserted \cup {e}
    /\ UNCHANGED <<processed, failed, locked, attempts>>
    /\ UNCHANGED <<late, at, batch, cancelled, invalidated, faults>>

\* Mutant: only rows that were never claimed are fetched.
Eligible_NoRetry == {e \in inserted \ (Settled \cup locked) : attempts[e] = 0}

\* Mutant: rows that are failed are fetched again.
Eligible_Failed == inserted \ (processed \cup locked)

Eligible == inserted \ (Settled \cup locked)

\* ORDER BY created_at, id LIMIT n
First(n, S) == {e \in S : Cardinality({x \in S : x < e}) < n}

Fetched == First(BatchSize, Eligible)

\* Mutant: the claim does not count the attempt.
FetchUnprocessed_Uncounted ==
    /\ locked' = locked \cup Fetched
    /\ UNCHANGED <<inserted, processed, failed, attempts>>

FetchUnprocessed ==
    /\ locked' = locked \cup Fetched
    /\ attempts' = [e \in Events |-> IF e \in Fetched THEN attempts[e] + 1 ELSE attempts[e]]
    /\ UNCHANGED <<inserted, processed, failed>>

\* A row that is failed is not excepted.
MarkProcessed(e) ==
    /\ processed' = processed \cup {e}
    /\ locked' = IF e \in processed THEN locked ELSE locked \ {e}
    /\ UNCHANGED <<inserted, failed, attempts>>

MarkFailed(e) ==
    /\ failed' = IF e \in Settled THEN failed ELSE failed \cup {e}
    /\ locked' = IF e \in Settled THEN locked ELSE locked \ {e}
    /\ UNCHANGED <<inserted, processed, attempts>>

\* locked_until becomes the time of the retry, whoever holds the lease.
Release(e) ==
    /\ locked' = IF e \in Settled THEN locked ELSE locked \cup {e}
    /\ UNCHANGED <<inserted, processed, failed, attempts>>

Run(kind, e) ==
    \/ kind = "fetch" /\ FetchUnprocessed
    \/ kind = "processed" /\ MarkProcessed(e)
    \/ kind = "failed" /\ MarkFailed(e)
    \/ kind = "release" /\ Release(e)

\* The database runs a statement its client has given up on.
RunLate ==
    \E s \in late :
        /\ Run(s[1], s[2])
        /\ late' = late \ {s}
        /\ UNCHANGED <<at, batch, cancelled, invalidated, faults>>

\* A lease or a retry delay is over.
Unlock(e) ==
    /\ e \in locked
    /\ locked' = locked \ {e}
    /\ UNCHANGED <<inserted, processed, failed, attempts>>
    /\ UNCHANGED <<late, at, batch, cancelled, invalidated, faults>>

-----------------------------------------------------------------------------
(* The worker                                                              *)

Fault == faults < MaxFaults /\ faults' = faults + 1

Goto(w, state) == at' = [at EXCEPT ![w] = state]

\* A statement is answered, or it is not in time and its fate is open.  With the
\* context cancelled it is not sent.
Answered(w, kind, e) ==
    /\ w \notin cancelled
    /\ Run(kind, e)
    /\ UNCHANGED <<late, faults>>

Unanswered(w, kind, e) ==
    /\ IF w \in cancelled THEN UNCHANGED <<late, faults>>
                          ELSE Fault /\ late' = late \cup {<<kind, e>>}
    /\ UNCHANGED rows

\* Del removes the list, or fails, and then may have removed it or not.
Deleted(w) == w \notin cancelled /\ invalidated' = invalidated \cup {current[w]}
DelFailed(w) == UNCHANGED invalidated \/ Deleted(w)

\* ProcessBatch claims a batch ...
Fetch(w) ==
    /\ at[w] = "fetch"
    /\ Answered(w, "fetch", None)
    /\ claim' = [claim EXCEPT ![w] =
                    [e \in Events |-> IF e \in Fetched THEN attempts[e] + 1 ELSE 0]]
    /\ progress' = progress \ {w}
    /\ Goto(w, "next")
    /\ UNCHANGED <<current, cancelled, invalidated>>

\* Mutant: Run goes on at once instead of returning when its context is cancelled.
FetchFails_Continues(w) ==
    /\ at[w] = "fetch"
    /\ Unanswered(w, "fetch", None)
    /\ Goto(w, IF w \in cancelled THEN "fetch" ELSE "wait")
    /\ UNCHANGED <<batch, cancelled, invalidated>>

FetchFails(w) ==
    /\ at[w] = "fetch"
    /\ Unanswered(w, "fetch", None)
    /\ Goto(w, IF w \in cancelled THEN "stopped" ELSE "wait")
    /\ UNCHANGED <<batch, cancelled, invalidated>>

\* Mutant: events that were not fetched are processed.
ProcessEvent_Unclaimed(w) ==
    /\ at[w] = "next"
    /\ \E e \in Events :
        /\ current' = [current EXCEPT ![w] = e]
        /\ Goto(w, IF e \in Unsupported THEN "unsupported" ELSE "del")
    /\ UNCHANGED <<rows, late, claim, progress, cancelled, invalidated, faults>>

\* ... and takes its events one by one, in no particular order.
ProcessEvent(w) ==
    /\ at[w] = "next"
    /\ \E e \in Events :
        /\ claim[w][e] > 0
        /\ current' = [current EXCEPT ![w] = e]
        /\ Goto(w, IF e \in Unsupported THEN "unsupported" ELSE "del")
    /\ UNCHANGED <<rows, late, claim, progress, cancelled, invalidated, faults>>

\* The event is left, counted as processed or not.
Leave(w, counted) ==
    /\ claim' = [claim EXCEPT ![w][current[w]] = 0]
    /\ current' = [current EXCEPT ![w] = None]
    /\ progress' = IF counted THEN progress \cup {w} ELSE progress
    /\ Goto(w, "next")

DelSucceeds(w) ==
    /\ at[w] = "del"
    /\ Deleted(w)
    /\ Goto(w, "mark")
    /\ UNCHANGED <<rows, late, batch, cancelled, faults>>

\* Mutant: the event is marked although Del failed.
DelFails_Ignored(w) ==
    /\ at[w] = "del"
    /\ DelFailed(w)
    /\ Goto(w, "mark")
    /\ UNCHANGED <<rows, late, batch, cancelled, faults>>

DelFails(w) ==
    /\ at[w] = "del"
    /\ DelFailed(w)
    /\ Goto(w, "cleanup")
    /\ UNCHANGED <<rows, late, batch, cancelled, faults>>

MarkSucceeds(w) ==
    /\ at[w] = "mark"
    /\ Answered(w, "processed", current[w])
    /\ Leave(w, TRUE)
    /\ UNCHANGED <<cancelled, invalidated>>

\* Del and MarkProcessed share one time limit, so that Del may leave none of it.
MarkFails(w) ==
    /\ at[w] = "mark"
    /\ \/ Unanswered(w, "processed", current[w])
       \/ UNCHANGED <<rows, late, faults>>
    /\ Goto(w, "cleanup")
    /\ UNCHANGED <<batch, cancelled, invalidated>>

\* Mutants: one attempt too few, one too many.
CleanupKind_Early(w) ==
    IF claim[w][current[w]] + 1 >= MaxAttempts THEN "failed" ELSE "release"
CleanupKind_Late(w) == IF claim[w][current[w]] > MaxAttempts THEN "failed" ELSE "release"

\* The attempts are those of the claim, not of the row.
CleanupKind(w) == IF claim[w][current[w]] >= MaxAttempts THEN "failed" ELSE "release"

ReleaseOrFail(w) ==
    /\ at[w] = "cleanup"
    /\ \/ Answered(w, CleanupKind(w), current[w])
       \/ Unanswered(w, CleanupKind(w), current[w])
    /\ Leave(w, FALSE)
    /\ UNCHANGED <<cancelled, invalidated>>

RejectUnsupported(w) ==
    /\ at[w] = "unsupported"
    /\ \/ Answered(w, "failed", current[w]) /\ Leave(w, TRUE)
       \/ Unanswered(w, "failed", current[w]) /\ Leave(w, FALSE)
    /\ UNCHANGED <<cancelled, invalidated>>

\* Run fetches again at once after progress, else it waits for the poll interval.
EndBatch(w) ==
    /\ at[w] = "next"
    /\ \A e \in Events : claim[w][e] = 0
    /\ Goto(w, IF w \in progress THEN "fetch" ELSE "wait")
    /\ UNCHANGED <<rows, late, batch, cancelled, invalidated, faults>>

\* When the context is cancelled and the timer has fired, either is taken.
Wait(w) ==
    /\ at[w] = "wait"
    /\ \/ w \in cancelled /\ Goto(w, "stopped")
       \/ Goto(w, "fetch")
    /\ UNCHANGED <<rows, late, batch, cancelled, invalidated, faults>>

-----------------------------------------------------------------------------
(* The process of a worker                                                 *)

\* SIGTERM, or the HTTP server failed: the errgroup cancels the context.
Cancel(w) ==
    /\ at[w] \notin {"stopped", "down"}
    /\ w \notin cancelled
    /\ Fault
    /\ cancelled' = cancelled \cup {w}
    /\ UNCHANGED <<rows, late, at, batch, invalidated>>

\* The process dies and its batch with it.
Crash(w) ==
    /\ at[w] \notin {"stopped", "down"}
    /\ Fault
    /\ Goto(w, "down")
    /\ UNCHANGED <<rows, late, batch, cancelled, invalidated>>

Start(w) ==
    /\ at[w] \in {"stopped", "down"}
    /\ Goto(w, "fetch")
    /\ claim' = [claim EXCEPT ![w] = [e \in Events |-> 0]]
    /\ current' = [current EXCEPT ![w] = None]
    /\ progress' = progress \ {w}
    /\ cancelled' = cancelled \ {w}
    /\ UNCHANGED <<rows, late, invalidated, faults>>

-----------------------------------------------------------------------------
WorkerStep(w) ==
    \/ Fetch(w) \/ FetchFails(w) \/ ProcessEvent(w) \/ DelSucceeds(w) \/ DelFails(w)
    \/ MarkSucceeds(w) \/ MarkFails(w) \/ ReleaseOrFail(w) \/ RejectUnsupported(w)
    \/ EndBatch(w) \/ Wait(w)

Next ==
    \/ \E e \in Events : InsertOutboxEvent(e) \/ Unlock(e)
    \/ \E w \in Workers : WorkerStep(w) \/ Cancel(w) \/ Crash(w) \/ Start(w)
    \/ RunLate

Spec == Init /\ [][Next]_vars

\* Every operation of a worker has a timeout, locks end, and a process that has
\* stopped is started again.  Late statements need never run, and nothing is
\* assumed of Redis: Del may fail every time.
Fairness ==
    /\ \A w \in Workers : WF_vars(WorkerStep(w)) /\ WF_vars(Start(w))
    /\ \A e \in Events : WF_vars(Unlock(e))
FairSpec == Spec /\ Fairness

-----------------------------------------------------------------------------
(* Properties                                                              *)

\* An event is marked processed only when its invalidation has run since it was
\* inserted, by whichever worker and however late the statement ran.
ProcessedWasInvalidated == processed \subseteq invalidated

\* An event of a known type is given up on only when it has been claimed
\* outboxMaxAttempts times.
GivenUpAfterRetries == \A e \in failed \ Unsupported : attempts[e] >= MaxAttempts

\* The retry limit holds: beyond outboxMaxAttempts an event is claimed again only
\* for a worker that was still working on it when its lease ran out, or for one
\* that was cut off by a crash, a signal or a lost answer.
RetriesBounded ==
    \A e \in Events : attempts[e] <= MaxAttempts - 1 + Cardinality(Workers) + faults

\* The table and its workers deliver events as EventDelivery promises: whatever
\* overlaps, is lost or runs late, a settled event is not claimed again and an event
\* that was given up on is marked processed only after its invalidation.
Delivery == INSTANCE EventDelivery WITH
    attempts <- attempts, invalidated <- invalidated
DeliversEvents == Delivery!Spec

\* No two workers hold the same claim of an event: when both hold one, the lease
\* of the smaller ran out before the other was made.
ClaimsDistinct ==
    \A v, w \in Workers, e \in Events :
        v # w /\ claim[v][e] > 0 => claim[v][e] # claim[w][e]

\* Every event is processed or given up on, also when every Del fails, once the
\* crashes and the lost answers have an end.
EveryEventSettles == \A e \in Events : e \in inserted ~> e \in Settled

\* Run returns after its context is cancelled, unless the process dies before.
WorkersStop ==
    \A w \in Workers : w \in cancelled ~> at[w] \in {"stopped", "down"}

=============================================================================
