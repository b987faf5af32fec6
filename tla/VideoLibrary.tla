---------------------------- MODULE VideoLibrary ----------------------------
(***************************************************************************)
(* The backend as a whole: the video use cases on the shared list cache    *)
(* (VideoService) together with the outbox that is to make up for an       *)
(* invalidation that was never made.  The transaction of a view writes an  *)
(* event; attempts at the event call the same Del as the requests do.      *)
(*                                                                         *)
(* Of the outbox only the promise of EventDelivery is here, which Outbox   *)
(* is shown to keep: Claim, MarkProcessed and GiveUp are its Attempt,      *)
(* Process and GiveUp, with the invalidation made by Del.  Workers, leases *)
(* and statements are left out, and an attempt may stop anywhere, overlap  *)
(* with others and run late.                                               *)
(*                                                                         *)
(* An event has the name of the view request that wrote it.                *)
(***************************************************************************)
EXTENDS VideoService

CONSTANTS
    Views,        \* the view requests
    Attempts,     \* the attempts at events, of all workers
    MaxAttempts   \* outboxMaxAttempts

ASSUME LibraryAssumption ==
    /\ Dels = Views \cup Attempts
    /\ Views \cap Attempts = {}
    /\ None \notin Views
    /\ MaxAttempts \in Nat \ {0}

VARIABLES
    inserted, processed, failed,  \* the events by what their rows say
    attempts,                     \* per event
    target                        \* the event of an attempt

outbox == <<inserted, processed, failed, attempts, target>>
libVars == <<svcVars, outbox>>

Settled == processed \cup failed

LibTypeOK ==
    /\ SvcTypeOK
    /\ inserted = {d \in Views : view[d] > 0}
    /\ processed \subseteq inserted /\ failed \subseteq inserted
    /\ attempts \in [Views -> Nat]
    /\ target \in [Attempts -> Views \cup {None}]

LibInit ==
    /\ SvcInit
    /\ inserted = {} /\ processed = {} /\ failed = {}
    /\ attempts = [d \in Views |-> 0]
    /\ target = [a \in Attempts |-> None]

-----------------------------------------------------------------------------
(* The transaction of IncrementViews: the view and its event, or neither.  *)

\* Mutant: the event is not written.
CommitView_WithoutEvent(d) ==
    /\ TxCommit(d) \/ LateCommit(d)
    /\ UNCHANGED outbox

CommitView(d) ==
    /\ TxCommit(d) \/ LateCommit(d)
    /\ inserted' = inserted \cup {d}
    /\ UNCHANGED <<processed, failed, attempts, target>>

-----------------------------------------------------------------------------
(* An attempt at an event: claim, Del, and what Del's outcome calls for.   *)

\* Mutant: the event is written before the transaction of the view, and claimed
\* before that commits.
Claim_Early(a, d) ==
    /\ target[a] = None
    /\ d \notin Settled
    /\ target' = [target EXCEPT ![a] = d]
    /\ attempts' = [attempts EXCEPT ![d] = attempts[d] + 1]
    /\ UNCHANGED <<svcVars, inserted, processed, failed>>

Claim(a, d) ==
    /\ target[a] = None
    /\ d \in inserted \ Settled
    /\ target' = [target EXCEPT ![a] = d]
    /\ attempts' = [attempts EXCEPT ![d] = attempts[d] + 1]
    /\ UNCHANGED <<svcVars, inserted, processed, failed>>

Invalidate(a) ==
    /\ target[a] # None
    /\ Del(a)
    /\ UNCHANGED <<svc, outbox>>

\* Mutant: also when Del failed.
MarkProcessed_AfterError(a) ==
    /\ target[a] # None /\ pc[a] \in {"ok", "err"}
    /\ processed' = processed \cup {target[a]}
    /\ UNCHANGED <<svcVars, inserted, failed, attempts, target>>

\* Also of an event that was given up on meanwhile.
MarkProcessed(a) ==
    /\ target[a] # None /\ pc[a] = "ok"
    /\ processed' = processed \cup {target[a]}
    /\ UNCHANGED <<svcVars, inserted, failed, attempts, target>>

\* Del failed, or MarkProcessed did, and the attempts are used up.
GiveUp(a) ==
    /\ target[a] # None /\ pc[a] \in {"ok", "err"}
    /\ target[a] \notin Settled
    /\ attempts[target[a]] >= MaxAttempts
    /\ failed' = failed \cup {target[a]}
    /\ UNCHANGED <<svcVars, inserted, processed, attempts, target>>

-----------------------------------------------------------------------------
\* What a request does besides committing.
RequestStep ==
    \/ \E l \in Loads : ListVideos(l) \/ ListStep(l)
    \/ \E d \in Views :
        IncrementViews(d) \/ TxFails(d) \/ InvalidateList(d) \/ IncrementDone(d)

LibNext ==
    \/ RequestStep /\ UNCHANGED outbox
    \/ CacheStep /\ UNCHANGED <<svc, outbox>>
    \/ \E d \in Views : CommitView(d)
    \/ \E a \in Attempts, d \in Views : Claim(a, d)
    \/ \E a \in Attempts : Invalidate(a) \/ MarkProcessed(a) \/ GiveUp(a)

LibSpec == LibInit /\ [][LibNext]_libVars

Settle(d) == \E a \in Attempts : target[a] = d /\ (MarkProcessed(a) \/ GiveUp(a))

\* The outbox goes on: events are claimed, and settled in the end (EveryEventSettles
\* of Outbox).  Nothing is assumed of the requests, which may die anywhere, nor of
\* Redis; that the list's time to live runs out is not assumed either.
LibFairness ==
    /\ \A d \in Views :
        WF_libVars(\E a \in Attempts : Claim(a, d)) /\ WF_libVars(Settle(d))
    /\ \A a \in Attempts :
        WF_libVars(Invalidate(a)) /\ WF_libVars(DelStep(a) /\ UNCHANGED <<svc, outbox>>)
LibFairSpec == LibSpec /\ LibFairness

-----------------------------------------------------------------------------
(* Properties                                                              *)

\* A list that lacks a committed view is in the shared cache only while the view's
\* event is not processed and its request not answered: whatever died, timed out or
\* ran late in between, somebody still has the view to make up for.
HiddenViewsArePending ==
    \A d \in Views :
        cached \in Nat /\ cached < view[d] =>
            /\ d \in inserted \ processed
            /\ req[d] # "ok"

\* Every committed view is shown by the cached list in the end and from then on,
\* also when its request died before Del and nobody learnt of the commit, unless
\* the event is given up on.
ViewsAppear ==
    \A d \in Views :
        view[d] > 0 ~> (d \in failed \/ [](cached \in Nat => cached >= view[d]))

\* Whoever invalidated the list on account of a view.
MadeFor(d) == {d} \cup {a \in Attempts : target[a] = d}

\* Once any Del for a view has run in Redis, that of its request or that of an
\* attempt, in whatever process, whether it was answered or not and what became of the
\* event since, no list without the view is in the shared cache.
InvalidatedViewsShown ==
    \A d \in Views : \A c \in MadeFor(d) :
        Invalidated(c) /\ cached \in Nat => cached >= view[d]

=============================================================================
