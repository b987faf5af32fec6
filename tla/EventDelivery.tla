--------------------------- MODULE EventDelivery ---------------------------
(***************************************************************************)
(* What the outbox promises to whoever writes an event into it, with       *)
(* nothing of the workers, leases and statements that provide it: at least *)
(* once, but not for ever.  An event that is settled is never attempted    *)
(* again; one is marked processed only when its invalidation has run since *)
(* it was written, and given up on only when its attempts are used up.     *)
(*                                                                         *)
(* Several attempts at one event may overlap, so an event that was given up *)
(* on may still be marked processed by an attempt made before.             *)
(***************************************************************************)
EXTENDS Naturals

CONSTANTS Events, Unsupported, MaxAttempts

VARIABLES
    inserted, processed, failed,    \* sets of events
    attempts,                       \* made at each event
    invalidated                     \* the events whose invalidation has run

vars == <<inserted, processed, failed, attempts, invalidated>>

Settled == processed \cup failed

Init ==
    /\ inserted = {} /\ processed = {} /\ failed = {} /\ invalidated = {}
    /\ attempts = [e \in Events |-> 0]

Insert(e) ==
    /\ e \notin inserted
    /\ inserted' = inserted \cup {e}
    /\ UNCHANGED <<processed, failed, attempts, invalidated>>

Attempt(S) ==
    /\ S \cap Settled = {}
    /\ S \subseteq inserted
    /\ attempts' = [e \in Events |-> IF e \in S THEN attempts[e] + 1 ELSE attempts[e]]
    /\ UNCHANGED <<inserted, processed, failed, invalidated>>

Invalidate(e) ==
    /\ e \in inserted
    /\ invalidated' = invalidated \cup {e}
    /\ UNCHANGED <<inserted, processed, failed, attempts>>

Process(e) ==
    /\ e \in invalidated
    /\ processed' = processed \cup {e}
    /\ UNCHANGED <<inserted, failed, attempts, invalidated>>

GiveUp(e) ==
    /\ e \in inserted \ Settled
    /\ e \in Unsupported \/ attempts[e] >= MaxAttempts
    /\ failed' = failed \cup {e}
    /\ UNCHANGED <<inserted, processed, attempts, invalidated>>

Next ==
    \/ \E e \in Events : Insert(e) \/ Invalidate(e) \/ Process(e) \/ GiveUp(e)
    \/ \E S \in SUBSET Events : Attempt(S)

Spec == Init /\ [][Next]_vars

=============================================================================
