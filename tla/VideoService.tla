---------------------------- MODULE VideoService ----------------------------
(***************************************************************************)
(* The video use cases (internal/usecase/video.go) on top of ListCache:    *)
(* ListVideos shares one call of GetOrLoadVideos among the requests of a   *)
(* process through a singleflight group of its own, IncrementViews commits *)
(* to PostgreSQL and then invalidates the cached list.                     *)
(*                                                                         *)
(* A request has the name of the cache call it may make: the list requests *)
(* are Loads, the view requests are Dels.  All commits are view requests'. *)
(*                                                                         *)
(* GetVideo reads one row of the database and changes nothing: not here.   *)
(***************************************************************************)
EXTENDS ListCache

VARIABLES
    listGroup,  \* per process: the list request whose flight is registered
    req,        \* where each request is
    joined,     \* the flight's leader whose result a list request is given
    reply,      \* the list a request answered
    view,       \* the number of the increment a view request committed, or 0
    viewed      \* history: view requests of the process answered before a request

svc == <<listGroup, req, joined, reply, view, viewed>>
svcVars == <<vars, svc>>

ListStates == {"idle", "list", "lead", "wait", "ok", "err"}
ViewStates == {"idle", "tx", "committed", "invalidate", "ok", "err"}

SvcTypeOK ==
    /\ TypeOK
    /\ listGroup \in [Instances -> Loads \cup {None}]
    /\ req \in [Calls -> ListStates \cup ViewStates]
    /\ \A l \in Loads : req[l] \in ListStates
    /\ \A d \in Dels : req[d] \in ViewStates
    /\ joined \in [Loads -> Loads]
    /\ reply \in [Loads -> Nat]
    /\ view \in [Dels -> Nat]
    /\ viewed \in [Loads -> SUBSET Dels]

SvcInit ==
    /\ Init
    /\ listGroup = [p \in Instances |-> None]
    /\ req = [c \in Calls |-> "idle"]
    /\ joined = [l \in Loads |-> l]
    /\ reply = [l \in Loads |-> 0]
    /\ view = [d \in Dels |-> 0]
    /\ viewed = [l \in Loads |-> {}]

Become(c, state) == req' = [req EXCEPT ![c] = state]

-----------------------------------------------------------------------------
(* ListVideos                                                              *)

\* A request whose context is already cancelled fails at once.
ListVideos(l) ==
    /\ req[l] = "idle"
    /\ \E state \in {"list", "err"} : Become(l, state)
    /\ viewed' = [viewed EXCEPT ![l] =
                    {d \in Dels : req[d] = "ok" /\ InstanceOf[d] = InstanceOf[l]}]
    /\ UNCHANGED <<vars, listGroup, joined, reply, view>>

JoinList(l) ==
    /\ req[l] = "list"
    /\ listGroup[InstanceOf[l]] # None
    /\ joined' = [joined EXCEPT ![l] = listGroup[InstanceOf[l]]]
    /\ Become(l, "wait")
    /\ UNCHANGED <<vars, listGroup, reply, view, viewed>>

LeadList(l) ==
    /\ req[l] = "list"
    /\ listGroup[InstanceOf[l]] = None
    /\ listGroup' = [listGroup EXCEPT ![InstanceOf[l]] = l]
    /\ Become(l, "lead")
    /\ UNCHANGED <<vars, joined, reply, view, viewed>>

LoadList(l) ==
    /\ req[l] = "lead"
    /\ GetOrLoadVideos(l)
    /\ UNCHANGED svc

\* Mutant: only the leader is answered.
ListDone_LeaderOnly(l) ==
    /\ req[l] = "lead"
    /\ pc[l] \in {"ok", "err"}
    /\ Become(l, pc[l])
    /\ reply' = [reply EXCEPT ![l] = list[l]]
    /\ listGroup' = [listGroup EXCEPT ![InstanceOf[l]] = None]
    /\ UNCHANGED <<vars, joined, view, viewed>>

\* GetOrLoadVideos returned: the flight ends for its leader and for all who joined.
ListDone(l) ==
    /\ req[l] = "lead"
    /\ pc[l] \in {"ok", "err"}
    /\ LET flight == {m \in Loads : req[m] \in {"lead", "wait"} /\ joined[m] = l}
       IN  /\ req' = [c \in Calls |-> IF c \in flight THEN pc[l] ELSE req[c]]
           /\ reply' = [m \in Loads |-> IF m \in flight /\ pc[l] = "ok"
                                        THEN list[l] ELSE reply[m]]
    /\ listGroup' = [listGroup EXCEPT ![InstanceOf[l]] = None]
    /\ UNCHANGED <<vars, joined, view, viewed>>

-----------------------------------------------------------------------------
(* IncrementViews                                                          *)

IncrementViews(d) ==
    /\ req[d] = "idle"
    /\ Become(d, "tx")
    /\ UNCHANGED <<vars, listGroup, joined, reply, view, viewed>>

\* The transaction takes effect; view is the count of commits it makes.
Effect(d) ==
    /\ Commit
    /\ view' = [view EXCEPT ![d] = db + 1]
    /\ UNCHANGED <<listGroup, joined, reply, viewed>>

TxCommit(d) ==
    /\ req[d] = "tx"
    /\ Effect(d)
    /\ Become(d, "committed")

\* The repository answers an error: nothing was committed, or the answer to the
\* commit was lost.  Only the outbox event is left to invalidate the list.
TxFails(d) ==
    /\ req[d] \in {"tx", "committed"}
    /\ Become(d, "err")
    /\ UNCHANGED <<vars, listGroup, joined, reply, view, viewed>>

\* The client gave up on a COMMIT that the server runs all the same.
LateCommit(d) ==
    /\ req[d] = "err"
    /\ view[d] = 0
    /\ Effect(d)
    /\ UNCHANGED req

\* Mutant: the flight of ListVideos is forgotten too.
InvalidateList_ForgetsFlight(d) ==
    /\ req[d] = "committed"
    /\ Del(d)
    /\ Become(d, "invalidate")
    /\ listGroup' = [listGroup EXCEPT ![InstanceOf[d]] = None]
    /\ UNCHANGED <<joined, reply, view, viewed>>

InvalidateList(d) ==
    /\ req[d] = "committed"
    /\ Del(d)
    /\ Become(d, "invalidate")
    /\ UNCHANGED <<listGroup, joined, reply, view, viewed>>

\* Mutant: a failed Del is ignored, for the outbox will invalidate the list later.
IncrementDone_IgnoresError(d) ==
    /\ req[d] = "invalidate"
    /\ pc[d] \in {"ok", "err"}
    /\ Become(d, "ok")
    /\ UNCHANGED <<vars, listGroup, joined, reply, view, viewed>>

\* The request fails when Del fails, although the increment is committed.
IncrementDone(d) ==
    /\ req[d] = "invalidate"
    /\ pc[d] \in {"ok", "err"}
    /\ Become(d, pc[d])
    /\ UNCHANGED <<vars, listGroup, joined, reply, view, viewed>>

-----------------------------------------------------------------------------
ListStep(l) == JoinList(l) \/ LeadList(l) \/ LoadList(l) \/ ListDone(l)
ViewStep(d) == TxCommit(d) \/ TxFails(d) \/ InvalidateList(d) \/ IncrementDone(d)

\* What the cache calls and the Redis server do meanwhile.
CacheStep ==
    \/ \E l \in Loads : LoadStep(l)
    \/ \E d \in Dels : DelStep(d)
    \/ \E c \in Calls : Resend(c) \/ \E k \in Copies : RunIncr(c, k) \/ RunDel(c, k)
    \/ \E l \in Loads, k \in Copies : RunScript(l, k)
    \/ Expire \/ WriteGarbage

SvcNext ==
    \/ \E l \in Loads : ListVideos(l) \/ ListStep(l)
    \/ \E d \in Dels : IncrementViews(d) \/ ViewStep(d) \/ LateCommit(d)
    \/ CacheStep /\ UNCHANGED svc

SvcSpec == SvcInit /\ [][SvcNext]_svcVars

\* A request that arrived is carried on; the transaction and every command it
\* waits for end within their time limits, if only with an error.
SvcFairness ==
    /\ \A l \in Loads : WF_svcVars(ListStep(l)) /\ WF_svcVars(LoadStep(l) /\ UNCHANGED svc)
    /\ \A d \in Dels : WF_svcVars(ViewStep(d)) /\ WF_svcVars(DelStep(d) /\ UNCHANGED svc)
SvcFairSpec == SvcSpec /\ SvcFairness

-----------------------------------------------------------------------------
(* Properties                                                              *)

\* However many requests miss, a process runs at most one GetOrLoadVideos at a
\* time: the flight of ListVideos ends only when its load does, so the group
\* inside the cache never has a call to join.
LoadsOneAtATime ==
    \A l, m \in Loads :
        l # m /\ InstanceOf[l] = InstanceOf[m] =>
            pc[l] \in {"idle", "ok", "err"} \/ pc[m] \in {"idle", "ok", "err"}

\* Once a view request of any process is answered, the shared cache does not hold
\* a list without its increment, whatever loads were under way and whatever their
\* scripts do later.
AnsweredViewsNotHidden ==
    cached \in Nat => \A d \in Dels : req[d] = "ok" => cached >= view[d]

\* A list answer shows every increment that was answered, in its process, before the
\* request that leads the flight it was served by was made, its own or another.
FlightsShowAnsweredViews ==
    \A l \in Loads : req[l] = "ok" => \A d \in viewed[joined[l]] : reply[l] >= view[d]

\* A list request shows every increment that was answered before it was made, as
\* the end-to-end test asks of "listed views immediately after increment".
ListsShowAnsweredViews ==
    \A l \in Loads : req[l] = "ok" => \A d \in viewed[l] : reply[l] >= view[d]

\* Every request is answered: nobody is left waiting on a flight whose leader has
\* finished, been forgotten or failed.
RequestsReturn ==
    \A c \in Calls : req[c] # "idle" ~> req[c] \in {"ok", "err"}

=============================================================================
