------------------------------ MODULE VideoTx ------------------------------
(***************************************************************************)
(* The requests about one video, GET /api/videos/{id} and POST             *)
(* /api/videos/{id}/view, from the router to PostgreSQL and back: the      *)
(* handlers (controller/restapi/v1), the repository's transaction          *)
(* (repo/persistent/video.go), its statements (sqlc/video.sql.go), the     *)
(* connection pool they share and the row lock of the video.               *)
(*                                                                         *)
(* The client side of a transaction (at) and its server side (tx) are      *)
(* apart: a client that gives up closes its connection, and what it had    *)
(* sent may still be run, or the server drops it when it notices.          *)
(*                                                                         *)
(* What a request asks for is fixed from the start.  The invalidation of   *)
(* the list after the commit is VideoService's; here it works or fails.    *)
(***************************************************************************)
EXTENDS Naturals, FiniteSets

CONSTANTS
    ViewRequests,   \* the POST requests
    GetRequests,    \* the GET requests
    Videos,         \* the rows of the table videos
    Absent,         \* an id without a row
    Malformed,      \* a path parameter that is no UUID
    PoolSize,       \* the connections of the pool
    None            \* an unlocked row

Requests == ViewRequests \cup GetRequests
Targets == Videos \cup {Absent, Malformed}

ASSUME VideoTxAssumption ==
    /\ ViewRequests \cap GetRequests = {}
    /\ {Absent, Malformed} \cap Videos = {}
    /\ PoolSize \in Nat \ {0}
    /\ None \notin ViewRequests

VARIABLES
    views,      \* of each video, as committed
    events,     \* the view requests whose outbox event is committed
    lockedBy,   \* per video: the request whose transaction has its row locked
    target,     \* what each request asks for
    at,         \* where each request is
    tx,         \* the server side of each view request's transaction
    counted,    \* the number the increment returned in that transaction
    held,       \* the requests that hold a connection of the pool
    status,     \* the status a request was answered with
    shown,      \* the views in its answer
    earlier     \* history: the requests answered before a request arrived

server == <<views, events, lockedBy, tx, counted>>
vars == <<server, target, at, held, status, shown, earlier>>

AtStates == {"idle", "arrived", "increment", "read", "commit", "norows", "rollback",
             "invalidate", "select", "done"}

\* No transaction, or one that has its increment to run, has run it, has found no
\* row, has its COMMIT to run, or has ended.
TxStates == {"none", "update", "updated", "empty", "commit", "committed", "aborted"}

Refusals == {400, 404, 429}

TypeOK ==
    /\ views \in [Videos -> Nat]
    /\ events \subseteq ViewRequests
    /\ lockedBy \in [Videos -> ViewRequests \cup {None}]
    /\ \A v \in Videos : lockedBy[v] # None =>
        tx[lockedBy[v]] \in {"updated", "commit"} /\ target[lockedBy[v]] = v
    /\ target \in [Requests -> Targets]
    /\ at \in [Requests -> AtStates]
    /\ tx \in [ViewRequests -> TxStates]
    /\ counted \in [ViewRequests -> Nat]
    /\ held \subseteq Requests
    /\ status \in [Requests -> {0, 200, 500} \cup Refusals]
    /\ \A r \in Requests : status[r] # 0 <=> at[r] = "done"
    /\ shown \in [Requests -> Nat]
    /\ earlier \in [Requests -> SUBSET Requests]

Init ==
    /\ views = [v \in Videos |-> 0]
    /\ events = {}
    /\ lockedBy = [v \in Videos |-> None]
    /\ target \in [Requests -> Targets]
    /\ at = [r \in Requests |-> "idle"]
    /\ tx = [r \in ViewRequests |-> "none"]
    /\ counted = [r \in ViewRequests |-> 0]
    /\ held = {}
    /\ status = [r \in Requests |-> 0]
    /\ shown = [r \in Requests |-> 0]
    /\ earlier = [r \in Requests |-> {}]

Goto(r, state) == at' = [at EXCEPT ![r] = state]
Become(r, state) == tx' = [tx EXCEPT ![r] = state]

\* pool.Acquire: a connection is free.
Acquire(r) == Cardinality(held) < PoolSize /\ held' = held \cup {r}
Release(r) == held' = held \ {r}

\* httpkit.RenderOK or HandleError.
Reply(r, code) ==
    /\ Goto(r, "done")
    /\ status' = [status EXCEPT ![r] = code]

Arrive(r) ==
    /\ at[r] = "idle"
    /\ Goto(r, "arrived")
    /\ earlier' = [earlier EXCEPT ![r] = {q \in Requests : at[q] = "done"}]
    /\ UNCHANGED <<server, target, held, status, shown>>

\* The limiter stands before the handler, and the id is parsed behind it.
LimitExceeded(r) ==
    /\ r \in ViewRequests
    /\ at[r] = "arrived"
    /\ Reply(r, 429)
    /\ UNCHANGED <<server, target, held, shown, earlier>>

BindFails(r) ==
    /\ at[r] = "arrived"
    /\ target[r] = Malformed
    /\ Reply(r, 400)
    /\ UNCHANGED <<server, target, held, shown, earlier>>

-----------------------------------------------------------------------------
(* POST: the repository's IncrementViews                                   *)

\* A connection is taken, BEGIN is answered and the increment is sent.
BeginTx(r) ==
    /\ at[r] = "arrived"
    /\ target[r] # Malformed
    /\ Acquire(r)
    /\ Become(r, "update")
    /\ Goto(r, "increment")
    /\ UNCHANGED <<views, events, lockedBy, counted, target, status, shown, earlier>>

\* The context is over, no connection is free in time, or BEGIN fails.
BeginFails(r) ==
    /\ at[r] = "arrived"
    /\ target[r] # Malformed
    /\ Reply(r, 500)
    /\ UNCHANGED <<server, target, held, shown, earlier>>

\* The increment is answered with a row, without one or with an error.
Incremented(r) ==
    /\ at[r] = "increment"
    /\ tx[r] = "updated"
    /\ Goto(r, "read")
    /\ UNCHANGED <<server, target, held, status, shown, earlier>>

NoRows(r) ==
    /\ at[r] = "increment"
    /\ tx[r] = "empty"
    /\ Goto(r, "norows")
    /\ UNCHANGED <<server, target, held, status, shown, earlier>>

StatementFails(r) ==
    /\ at[r] \in {"increment", "read", "commit"}
    /\ tx[r] = "aborted"
    /\ Goto(r, "rollback")
    /\ UNCHANGED <<server, target, held, status, shown, earlier>>

\* Mutant: the row is read through the pool, not through the transaction.
RowSeen_OutsideTx(r) == views[target[r]]

\* A transaction sees its own increment.
RowSeen(r) == IF lockedBy[target[r]] = r THEN counted[r] ELSE views[target[r]]

\* GetVideoByID in the transaction; the COMMIT is sent.
ReadIncremented(r) ==
    /\ at[r] = "read"
    /\ tx[r] = "updated"
    /\ shown' = [shown EXCEPT ![r] = RowSeen(r)]
    /\ Become(r, "commit")
    /\ Goto(r, "commit")
    /\ UNCHANGED <<views, events, lockedBy, counted, target, held, status, earlier>>

\* Mutant: the answer to COMMIT is not awaited.
Committed_Unawaited(r) ==
    /\ at[r] = "commit"
    /\ Release(r)
    /\ Goto(r, "invalidate")
    /\ UNCHANGED <<server, target, status, shown, earlier>>

Committed(r) ==
    /\ at[r] = "commit"
    /\ tx[r] = "committed"
    /\ Release(r)
    /\ Goto(r, "invalidate")
    /\ UNCHANGED <<server, target, status, shown, earlier>>

\* Mutant: the handler returns without an answer.
Invalidate_Silent(r) ==
    /\ at[r] = "invalidate"
    /\ Goto(r, "done")
    /\ \E code \in {0, 200} : status' = [status EXCEPT ![r] = code]
    /\ UNCHANGED <<server, target, held, shown, earlier>>

\* The list is invalidated, or that fails: then the request does, though its view
\* is committed.
Invalidate(r) ==
    /\ at[r] = "invalidate"
    /\ \E code \in {200, 500} : Reply(r, code)
    /\ UNCHANGED <<server, target, held, shown, earlier>>

\* The deferred rollback: answered, or given up on and its connection closed.  A
\* row it had locked is free since its statement failed.
Rollback(r) ==
    /\ at[r] \in {"norows", "rollback"}
    /\ Become(r, "aborted") \/ UNCHANGED tx
    /\ Release(r)
    /\ Reply(r, IF at[r] = "norows" THEN 404 ELSE 500)
    /\ UNCHANGED <<views, events, lockedBy, counted, target, shown, earlier>>

\* Mutants: a time limit taken for a missing row, a connection that is not given
\* back, and an increment without a time limit.
TimesOut_NotFound(r) ==
    /\ at[r] \in {"increment", "read", "commit"}
    /\ Release(r)
    /\ Reply(r, 404)
    /\ UNCHANGED <<server, target, shown, earlier>>
TimesOut_Leaks(r) ==
    /\ at[r] \in {"increment", "read", "commit"}
    /\ Reply(r, 500)
    /\ UNCHANGED <<server, target, held, shown, earlier>>
TimesOut_Unlimited(r) ==
    /\ at[r] \in {"read", "commit"}
    /\ Release(r)
    /\ Reply(r, 500)
    /\ UNCHANGED <<server, target, shown, earlier>>

\* The time limit of the transaction is over, its client is gone or the connection
\* is lost: it is closed, and the deferred rollback has nothing left to do.
TimesOut(r) ==
    /\ at[r] \in {"increment", "read", "commit"}
    /\ Release(r)
    /\ Reply(r, 500)
    /\ UNCHANGED <<server, target, shown, earlier>>

-----------------------------------------------------------------------------
(* PostgreSQL                                                              *)

Unlock(r) == lockedBy' = [v \in Videos |-> IF lockedBy[v] = r THEN None ELSE lockedBy[v]]

\* Mutant: read, add and write without the row lock.
Update_Unlocked(r) ==
    /\ tx[r] = "update"
    /\ \E v \in Videos :
        /\ v = target[r]
        /\ lockedBy' = [lockedBy EXCEPT ![v] = r]
        /\ counted' = [counted EXCEPT ![r] = views[v] + 1]
    /\ Become(r, "updated")
    /\ UNCHANGED <<views, events, target, at, held, status, shown, earlier>>

\* UPDATE ... RETURNING and the INSERT of the event that depends on it: it waits
\* for the row lock and adds to the views of the row as committed by then.
Update(r) ==
    /\ tx[r] = "update"
    /\ \E v \in Videos :
        /\ v = target[r]
        /\ lockedBy[v] = None
        /\ lockedBy' = [lockedBy EXCEPT ![v] = r]
        /\ counted' = [counted EXCEPT ![r] = views[v] + 1]
    /\ Become(r, "updated")
    /\ UNCHANGED <<views, events, target, at, held, status, shown, earlier>>

UpdateEmpty(r) ==
    /\ tx[r] = "update"
    /\ target[r] \notin Videos
    /\ Become(r, "empty")
    /\ UNCHANGED <<views, events, lockedBy, counted, target, at, held, status, shown, earlier>>

Commit(r) ==
    /\ tx[r] = "commit"
    /\ \E v \in Videos :
        /\ v = target[r]
        /\ views' = [views EXCEPT ![v] = counted[r]]
    /\ events' = events \cup {r}
    /\ Unlock(r)
    /\ Become(r, "committed")
    /\ UNCHANGED <<counted, target, at, held, status, shown, earlier>>

\* A statement fails or the connection is lost, or the server notices that it is.
Abort(r) ==
    /\ tx[r] \in {"update", "updated", "empty", "commit"}
    /\ Unlock(r)
    /\ Become(r, "aborted")
    /\ UNCHANGED <<views, events, counted, target, at, held, status, shown, earlier>>

-----------------------------------------------------------------------------
(* GET: the repository's GetByID                                           *)

\* A GET has no time limit of its own while it waits for a connection.
Query(r) ==
    /\ at[r] = "arrived"
    /\ target[r] # Malformed
    /\ Acquire(r)
    /\ Goto(r, "select")
    /\ UNCHANGED <<server, target, status, shown, earlier>>

VideoSelected(r) ==
    /\ at[r] = "select"
    /\ \E v \in Videos :
        /\ v = target[r]
        /\ shown' = [shown EXCEPT ![r] = views[v]]
    /\ Release(r)
    /\ Reply(r, 200)
    /\ UNCHANGED <<server, target, earlier>>

NothingSelected(r) ==
    /\ at[r] = "select"
    /\ target[r] \notin Videos
    /\ Release(r)
    /\ Reply(r, 404)
    /\ UNCHANGED <<server, target, shown, earlier>>

\* The client is gone, or the query fails.
GetFails(r) ==
    /\ \/ at[r] = "arrived" /\ target[r] # Malformed /\ UNCHANGED held
       \/ at[r] = "select" /\ Release(r)
    /\ Reply(r, 500)
    /\ UNCHANGED <<server, target, shown, earlier>>

-----------------------------------------------------------------------------
ViewStep(r) ==
    \/ LimitExceeded(r) \/ BindFails(r) \/ BeginTx(r) \/ BeginFails(r) \/ Incremented(r)
    \/ NoRows(r) \/ StatementFails(r) \/ ReadIncremented(r) \/ Committed(r) \/ Invalidate(r)
    \/ Rollback(r) \/ TimesOut(r)
ServerStep(r) == Update(r) \/ UpdateEmpty(r) \/ Commit(r) \/ Abort(r)
GetStep(r) == BindFails(r) \/ Query(r) \/ VideoSelected(r) \/ NothingSelected(r) \/ GetFails(r)

Next ==
    \/ \E r \in Requests : Arrive(r)
    \/ \E r \in ViewRequests : ViewStep(r) \/ ServerStep(r)
    \/ \E r \in GetRequests : GetStep(r)

Spec == Init /\ [][Next]_vars

\* A view request goes on, if only because of its time limits.  A GET fails only if
\* its client leaves or its query fails, on which it cannot rely: it gets a
\* connection because waiting requests are served in turn, and its SELECT, which
\* waits for no lock, is answered.  Of the server nothing else is assumed than that
\* it ends a transaction whose connection is closed.
AnswerSelect(r) == VideoSelected(r) \/ NothingSelected(r)
EndOrphan(r) == r \notin held /\ (Commit(r) \/ Abort(r))
Fairness ==
    /\ \A r \in ViewRequests : WF_vars(ViewStep(r)) /\ WF_vars(EndOrphan(r))
    /\ \A r \in GetRequests :
        WF_vars(BindFails(r)) /\ SF_vars(Query(r)) /\ WF_vars(AnswerSelect(r))
FairSpec == Spec /\ Fairness

-----------------------------------------------------------------------------
(* Properties                                                              *)

CountedFor(v) == {r \in ViewRequests : tx[r] = "committed" /\ target[r] = v}

\* No view is lost and none is counted twice, with or without its answer: the
\* committed transactions of a video have counted 1 to its views, each a number of
\* its own, and each has committed one outbox event.
NoLostViews ==
    /\ events = {r \in ViewRequests : tx[r] = "committed"}
    /\ \A v \in Videos :
        /\ {counted[r] : r \in CountedFor(v)} = 1 .. views[v]
        /\ \A q, r \in CountedFor(v) : q # r => counted[q] # counted[r]

\* A request answered with 400, 404 or 429 has counted no view and never will,
\* whatever of its transaction still runs.
RefusalsHaveNoEffect ==
    \A r \in ViewRequests :
        status[r] \in Refusals => tx[r] \notin {"updated", "commit", "committed"}

\* Of two requests for a video, one of which arrived after the other was answered,
\* the later is answered with the views of the earlier at least, and with more if
\* it counts one itself.
AnswersInOrder ==
    \A r \in Requests : \A q \in earlier[r] :
        status[r] = 200 /\ status[q] = 200 /\ target[r] = target[q] =>
            IF r \in ViewRequests THEN shown[r] > shown[q] ELSE shown[r] >= shown[q]

\* Every path out of a handler gives its connection back.
ConnectionsReturned == \A r \in Requests : at[r] = "done" => r \notin held

\* Every request is answered, however many wait for a connection and although those
\* who hold one may be waiting for the row that another transaction has locked.
RequestsAnswered == \A r \in Requests : at[r] # "idle" ~> at[r] = "done"

\* No row stays locked by a transaction that nobody ends any more.
LocksEnd == \A v \in Videos, r \in ViewRequests : lockedBy[v] = r ~> lockedBy[v] # r

\* The handlers and the database count views as ViewCounter does: a view at once
\* when its transaction commits.
outcome == [r \in Requests |->
    IF at[r] = "idle" THEN "new"
    ELSE IF at[r] # "done" THEN "open"
    ELSE IF status[r] = 200 THEN "ok"
    ELSE IF status[r] \in Refusals THEN "refused" ELSE "failed"]
counts == [r \in ViewRequests |-> IF tx[r] = "committed" THEN counted[r] ELSE 0]
answers == [r \in Requests |-> IF status[r] = 200 THEN shown[r] ELSE 0]

Counter == INSTANCE ViewCounter WITH state <- outcome, count <- counts, answer <- answers
CountsViews == Counter!Spec

=============================================================================
