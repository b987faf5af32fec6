---------------------------- MODULE ViewCounter ----------------------------
(***************************************************************************)
(* What the API promises of the views of a video, with nothing of how the  *)
(* handlers, the connection pool and PostgreSQL provide it: a view request *)
(* counts one view, at some moment between its arrival and its answer, and *)
(* is answered with the number it counted; a request that reads a video    *)
(* is answered with the number of some such moment.  A request that was    *)
(* refused never counts; of one that failed it is open whether it counted, *)
(* and it may yet count after its answer.                                  *)
(***************************************************************************)
EXTENDS Naturals

CONSTANTS ViewRequests, GetRequests, Videos, Targets

Requests == ViewRequests \cup GetRequests

VARIABLES
    views,      \* of each video
    target,     \* what a request asks for
    state,      \* of each request
    count,      \* the number a view request has counted, or 0
    answer      \* the number a request was answered with

vars == <<views, target, state, count, answer>>

Init ==
    /\ views = [v \in Videos |-> 0]
    /\ target \in [Requests -> Targets]
    /\ state = [r \in Requests |-> "new"]
    /\ count = [r \in ViewRequests |-> 0]
    /\ answer = [r \in Requests |-> 0]

Arrive(r) ==
    /\ state[r] = "new"
    /\ state' = [state EXCEPT ![r] = "open"]
    /\ UNCHANGED <<views, target, count, answer>>

Count(r) ==
    /\ state[r] \in {"open", "failed"}
    /\ count[r] = 0
    /\ \E v \in Videos :
        /\ v = target[r]
        /\ views' = [views EXCEPT ![v] = @ + 1]
        /\ count' = [count EXCEPT ![r] = views[v] + 1]
    /\ UNCHANGED <<target, state, answer>>

AnswerView(r) ==
    /\ state[r] = "open"
    /\ count[r] > 0
    /\ state' = [state EXCEPT ![r] = "ok"]
    /\ answer' = [answer EXCEPT ![r] = count[r]]
    /\ UNCHANGED <<views, target, count>>

AnswerGet(r) ==
    /\ state[r] = "open"
    /\ target[r] \in Videos
    /\ state' = [state EXCEPT ![r] = "ok"]
    /\ answer' = [answer EXCEPT ![r] = views[target[r]]]
    /\ UNCHANGED <<views, target, count>>

Refuse(r) ==
    /\ state[r] = "open"
    /\ r \in ViewRequests => count[r] = 0
    /\ state' = [state EXCEPT ![r] = "refused"]
    /\ UNCHANGED <<views, target, count, answer>>

Fail(r) ==
    /\ state[r] = "open"
    /\ state' = [state EXCEPT ![r] = "failed"]
    /\ UNCHANGED <<views, target, count, answer>>

Next ==
    \/ \E r \in Requests : Arrive(r) \/ Refuse(r) \/ Fail(r)
    \/ \E r \in ViewRequests : Count(r) \/ AnswerView(r)
    \/ \E r \in GetRequests : AnswerGet(r)

Spec == Init /\ [][Next]_vars

=============================================================================
