---------------------------- MODULE OutboxProofs ----------------------------
(***************************************************************************)
(* The safety properties of Outbox, for any number of events, workers and  *)
(* faults.                                                                 *)
(*                                                                         *)
(* A statement acts on the row long after the worker decided to send it,   *)
(* so the invariant has to speak of what is on its way: a worker holds a   *)
(* claim no newer than the row (Held), and a statement that may still run  *)
(* was decided on facts that stay true (Sound): that the invalidation ran, *)
(* or that the event was claimed often enough.                             *)
(*                                                                         *)
(* The second half shows that the outbox implements EventDelivery.  A      *)
(* third part counts what every claim was lost to (RetryInv), which gives  *)
(* the limit of retries.  The last two parts say that what is settled      *)
(* stays so, and that no worker is caught in a batch: safety that the      *)
(* liveness properties of Outbox rest on.                                  *)
(***************************************************************************)
EXTENDS Outbox, FiniteSetTheorems, TLAPS

Busy == {"del", "mark", "cleanup", "unsupported"}

\* A statement is sent with good reason.
Justified(k, e) ==
    /\ k # "fetch" => e \in inserted
    /\ k = "processed" => e \in invalidated
    /\ k = "failed" /\ e \notin Unsupported => attempts[e] >= MaxAttempts

\* The table, and what may still be done to it.
TableInv ==
    /\ inserted \subseteq Events
    /\ processed \subseteq inserted /\ failed \subseteq inserted /\ locked \subseteq inserted
    /\ attempts \in [Events -> Nat]
    /\ late \subseteq Kinds \X (Events \cup {None})
    /\ \A s \in late : Justified(s[1], s[2])
    /\ ProcessedWasInvalidated
    /\ GivenUpAfterRetries

\* What the workers hold: claims of rows, and reasons for what they send next.
WorkerInv ==
    /\ at \in [Workers -> WorkerStates]
    /\ claim \in [Workers -> [Events -> Nat]]
    /\ current \in [Workers -> Events \cup {None}]
    /\ \A w \in Workers, e \in Events :
        claim[w][e] <= attempts[e] /\ (claim[w][e] > 0 => e \in inserted)
    /\ \A w \in Workers : at[w] \in Busy => current[w] \in Events /\ claim[w][current[w]] > 0
    /\ \A w \in Workers : at[w] = "mark" => current[w] \in invalidated
    /\ \A w \in Workers : at[w] = "unsupported" => current[w] \in Unsupported
    /\ ClaimsDistinct

OtherInv ==
    /\ invalidated \subseteq inserted
    /\ progress \subseteq Workers
    /\ cancelled \subseteq Workers
    /\ faults \in 0 .. MaxFaults

Inv == TableInv /\ WorkerInv /\ OtherInv

LEMMA InvTypes == Inv => TypeOK
  BY OutboxAssumption DEF Inv, TableInv, WorkerInv, OtherInv, TypeOK, Busy

LEMMA InvInit == Init => Inv
<1> SUFFICES ASSUME Init PROVE Inv
  OBVIOUS
<1> USE OutboxAssumption DEF Init
<1>1. TableInv
  BY DEF TableInv, ProcessedWasInvalidated, GivenUpAfterRetries
<1>2. WorkerInv
  BY DEF WorkerInv, ClaimsDistinct, WorkerStates, Busy
<1>3. OtherInv
  BY DEF OtherInv
<1> QED
  BY <1>1, <1>2, <1>3 DEF Inv

-----------------------------------------------------------------------------
(* What a statement does to the table, and what issuing one leaves behind.  *)

\* The rows after a statement: only it settles its row, and attempts only grow.
TableStep(k, e) ==
    /\ inserted' = inserted
    /\ processed' \subseteq processed \cup {x \in inserted : k = "processed" /\ x = e}
    /\ failed' \subseteq failed \cup {x \in inserted : k = "failed" /\ x = e}
    /\ locked' \subseteq inserted
    /\ attempts' \in [Events -> Nat]
    /\ \A x \in Events : attempts'[x] >= attempts[x]

LEMMA FetchedInserted == Fetched \subseteq inserted
  BY DEF Fetched, First, Eligible

LEMMA RunChanges ==
    ASSUME TableInv, NEW k \in Kinds, NEW e, k # "fetch" => e \in inserted, Run(k, e)
    PROVE  TableStep(k, e)
<1> USE FetchedInserted DEF TableInv, Run, TableStep
<1>1. CASE k = "fetch"
  BY <1>1 DEF FetchUnprocessed
<1>2. CASE k = "processed"
  BY <1>2 DEF MarkProcessed
<1>3. CASE k = "failed"
  BY <1>3 DEF MarkFailed
<1>4. CASE k = "release"
  BY <1>4 DEF Release
<1> QED
  BY <1>1, <1>2, <1>3, <1>4 DEF Kinds

LEMMA TableStepKeeps ==
    ASSUME TableInv, NEW k \in Kinds, NEW e \in Events \cup {None}, Justified(k, e),
           TableStep(k, e), UNCHANGED invalidated, late' \subseteq late \cup {<<k, e>>}
    PROVE  TableInv'
<1> USE OutboxAssumption DEF TableInv, TableStep
<1>1. \A s \in late \cup {<<k, e>>} : s \in Kinds \X (Events \cup {None}) /\ Justified(s[1], s[2])
  OBVIOUS
<1>2. ASSUME NEW s \in late' PROVE Justified(s[1], s[2])'
  <2>1. s \in Kinds \X (Events \cup {None}) /\ Justified(s[1], s[2])
    BY <1>1
  <2>2. s[1] # "fetch" => s[2] \in Events
    BY <2>1 DEF Justified
  <2>3. s[2] \in Events => /\ attempts'[s[2]] >= attempts[s[2]]
                            /\ attempts[s[2]] \in Nat /\ attempts'[s[2]] \in Nat
    OBVIOUS
  <2> QED
    BY <2>1, <2>2, <2>3 DEF Justified
<1>3. ProcessedWasInvalidated'
  BY DEF ProcessedWasInvalidated, Justified
<1>4. GivenUpAfterRetries'
  <2> SUFFICES ASSUME NEW x \in failed', x \notin Unsupported PROVE attempts'[x] >= MaxAttempts
    BY DEF GivenUpAfterRetries
  <2>1. x \in Events /\ attempts[x] >= MaxAttempts
    BY DEF GivenUpAfterRetries, Justified
  <2> QED
    BY <2>1
<1> QED
  BY <1>1, <1>2, <1>3, <1>4

\* Whether a statement is answered or given up on, the table stays sound.
LEMMA IssueKeeps ==
    ASSUME TableInv, OtherInv, NEW w \in Workers, NEW k \in Kinds, NEW e \in Events \cup {None},
           Justified(k, e), Answered(w, k, e) \/ Unanswered(w, k, e), UNCHANGED invalidated
    PROVE  TableInv' /\ TableStep(k, e) /\ faults' \in 0 .. MaxFaults
<1>1. TableStep(k, e)
  <2>1. CASE Answered(w, k, e)
    BY <2>1, RunChanges DEF Answered, Justified
  <2>2. CASE Unanswered(w, k, e)
    BY <2>2 DEF Unanswered, rows, TableStep, TableInv
  <2> QED
    BY <2>1, <2>2
<1>2. late' \subseteq late \cup {<<k, e>>}
  BY DEF Answered, Unanswered
<1>3. faults' \in 0 .. MaxFaults
  BY OutboxAssumption DEF Answered, Unanswered, Fault, OtherInv
<1> QED
  BY <1>1, <1>2, <1>3, TableStepKeeps

-----------------------------------------------------------------------------
(* Every step keeps the invariant.                                         *)

\* Leaving an event gives up no other claim.
LEMMA LeaveKeeps ==
    ASSUME TableInv, WorkerInv, NEW w \in Workers, at[w] \in Busy, NEW k, NEW e, TableStep(k, e),
           NEW counted, Leave(w, counted), UNCHANGED invalidated
    PROVE  WorkerInv'
<1> USE DEF TableInv, WorkerInv, TableStep, Leave, Goto
<1>1. \A v \in Workers, x \in Events :
        claim'[v][x] = IF v = w /\ x = current[w] THEN 0 ELSE claim[v][x]
  OBVIOUS
<1>2. claim' \in [Workers -> [Events -> Nat]]
  BY Zenon DEF Leave
<1>3. ClaimsDistinct'
  BY <1>1 DEF ClaimsDistinct
<1> QED
  BY <1>1, <1>2, <1>3 DEF WorkerStates, Busy

LEMMA InvNext == Inv /\ [Next]_vars => Inv'
<1> SUFFICES ASSUME TableInv, WorkerInv, OtherInv, [Next]_vars
             PROVE  TableInv' /\ WorkerInv' /\ OtherInv'
  BY DEF Inv
<1> USE OutboxAssumption DEF WorkerStates, Kinds, Busy, Goto, rows, batch
<1>1. ASSUME NEW e \in Events, InsertOutboxEvent(e) PROVE TableInv' /\ WorkerInv' /\ OtherInv'
  <2>1. TableInv'
    BY <1>1 DEF InsertOutboxEvent, TableInv, Justified, ProcessedWasInvalidated,
            GivenUpAfterRetries
  <2>2. WorkerInv'
    BY <1>1 DEF InsertOutboxEvent, WorkerInv, ClaimsDistinct
  <2>3. OtherInv'
    BY <1>1 DEF InsertOutboxEvent, OtherInv
  <2> QED
    BY <2>1, <2>2, <2>3
<1>2. ASSUME NEW e \in Events, Unlock(e) PROVE TableInv' /\ WorkerInv' /\ OtherInv'
  <2>1. TableInv'
    BY <1>2 DEF Unlock, TableInv, Justified, ProcessedWasInvalidated,
            GivenUpAfterRetries
  <2>2. WorkerInv'
    BY <1>2 DEF Unlock, WorkerInv, ClaimsDistinct
  <2>3. OtherInv'
    BY <1>2 DEF Unlock, OtherInv
  <2> QED
    BY <2>1, <2>2, <2>3
<1>3. ASSUME RunLate PROVE TableInv' /\ WorkerInv' /\ OtherInv'
  <2>1. PICK s \in late : Run(s[1], s[2]) /\ late' = late \ {s}
    BY <1>3 DEF RunLate
  <2>2. s[1] \in Kinds /\ s[2] \in Events \cup {None} /\ Justified(s[1], s[2])
    BY <2>1 DEF TableInv
  <2>3. TableStep(s[1], s[2])
    BY <2>1, <2>2, RunChanges DEF Justified
  <2>4. TableInv'
    BY <1>3, <2>1, <2>2, <2>3, TableStepKeeps DEF RunLate
  <2>5. WorkerInv'
    BY <1>3, <2>3 DEF RunLate, TableInv, WorkerInv, ClaimsDistinct, TableStep
  <2>6. OtherInv'
    BY <1>3, <2>3 DEF RunLate, OtherInv, TableStep
  <2> QED
    BY <2>4, <2>5, <2>6
<1>4. ASSUME NEW w \in Workers, Fetch(w) PROVE TableInv' /\ WorkerInv' /\ OtherInv'
  <2>1. Justified("fetch", None)
    BY DEF Justified
  <2>2. TableInv' /\ TableStep("fetch", None) /\ faults' \in 0 .. MaxFaults
    BY <1>4, <2>1, IssueKeeps DEF Fetch
  <2>3. attempts' = [e \in Events |-> IF e \in Fetched THEN attempts[e] + 1 ELSE attempts[e]]
    BY <1>4 DEF Fetch, Answered, Run, FetchUnprocessed
  <2>4. claim' = [claim EXCEPT ![w] =
                    [e \in Events |-> IF e \in Fetched THEN attempts[e] + 1 ELSE 0]]
    BY <1>4 DEF Fetch
  <2>5. \A v \in Workers, e \in Events :
          claim'[v][e] = IF v # w THEN claim[v][e]
                         ELSE IF e \in Fetched THEN attempts[e] + 1 ELSE 0
    BY <2>4 DEF WorkerInv
  <2>6. claim' \in [Workers -> [Events -> Nat]]
    BY <2>4 DEF WorkerInv, TableInv
  <2>7. \A v \in Workers, e \in Events :
          claim'[v][e] <= attempts'[e] /\ (claim'[v][e] > 0 => e \in inserted')
    BY <2>2, <2>3, <2>5, FetchedInserted DEF WorkerInv, TableInv, TableStep
  <2>8. ClaimsDistinct'
    BY <2>5 DEF WorkerInv, TableInv, ClaimsDistinct
  <2>9. WorkerInv'
    BY <1>4, <2>5, <2>6, <2>7, <2>8 DEF Fetch, WorkerInv
  <2>10. OtherInv'
    BY <1>4, <2>2 DEF Fetch, OtherInv, TableStep
  <2> QED
    BY <2>2, <2>9, <2>10
<1>5. ASSUME NEW w \in Workers, FetchFails(w) PROVE TableInv' /\ WorkerInv' /\ OtherInv'
  <2>1. Justified("fetch", None) /\ None \in Events \cup {None}
    BY <1>5 DEF Justified
  <2>2. Answered(w, "fetch", None) \/ Unanswered(w, "fetch", None)
    BY <1>5, <2>1 DEF FetchFails
  <2>3. TableInv' /\ TableStep("fetch", None) /\ faults' \in 0 .. MaxFaults
    BY <1>5, <2>1, <2>2, IssueKeeps DEF FetchFails
  <2>4. WorkerInv'
    BY <1>5, <2>1, <2>2, <2>3 DEF FetchFails, TableInv, WorkerInv, ClaimsDistinct,
            TableStep
  <2>5. OtherInv'
    BY <1>5, <2>1, <2>2, <2>3 DEF FetchFails, OtherInv, TableStep
  <2> QED
    BY <2>3, <2>4, <2>5
<1>6. ASSUME NEW w \in Workers, ProcessEvent(w) PROVE TableInv' /\ WorkerInv' /\ OtherInv'
  <2>1. TableInv'
    BY <1>6 DEF ProcessEvent, TableInv, Justified, ProcessedWasInvalidated,
            GivenUpAfterRetries
  <2>2. WorkerInv'
    BY <1>6 DEF ProcessEvent, WorkerInv, ClaimsDistinct
  <2>3. OtherInv'
    BY <1>6 DEF ProcessEvent, OtherInv
  <2> QED
    BY <2>1, <2>2, <2>3
<1>7. ASSUME NEW w \in Workers, DelSucceeds(w) PROVE TableInv' /\ WorkerInv' /\ OtherInv'
  <2>1. TableInv'
    BY <1>7 DEF DelSucceeds, Deleted, TableInv, Justified, ProcessedWasInvalidated,
            GivenUpAfterRetries
  <2>2. WorkerInv'
    BY <1>7 DEF DelSucceeds, Deleted, WorkerInv, ClaimsDistinct
  <2>3. OtherInv'
    <3>1. current[w] \in inserted
      BY <1>7 DEF DelSucceeds, WorkerInv
    <3> QED
      BY <1>7, <3>1 DEF DelSucceeds, Deleted, OtherInv
  <2> QED
    BY <2>1, <2>2, <2>3
<1>8. ASSUME NEW w \in Workers, DelFails(w) PROVE TableInv' /\ WorkerInv' /\ OtherInv'
  <2>1. TableInv'
    BY <1>8 DEF DelFails, DelFailed, Deleted, TableInv, Justified, ProcessedWasInvalidated,
            GivenUpAfterRetries
  <2>2. WorkerInv'
    BY <1>8 DEF DelFails, DelFailed, Deleted, WorkerInv, ClaimsDistinct
  <2>3. OtherInv'
    <3>1. current[w] \in inserted
      BY <1>8 DEF DelFails, WorkerInv
    <3> QED
      BY <1>8, <3>1 DEF DelFails, DelFailed, Deleted, OtherInv
  <2> QED
    BY <2>1, <2>2, <2>3
<1>9. ASSUME NEW w \in Workers, MarkSucceeds(w) PROVE TableInv' /\ WorkerInv' /\ OtherInv'
  <2>1. Justified("processed", current[w]) /\ current[w] \in Events \cup {None}
    BY <1>9 DEF MarkSucceeds, Justified, WorkerInv, OtherInv
  <2>2. Answered(w, "processed", current[w]) \/ Unanswered(w, "processed", current[w])
    BY <1>9, <2>1 DEF MarkSucceeds
  <2>3. TableInv' /\ TableStep("processed", current[w]) /\ faults' \in 0 .. MaxFaults
    BY <1>9, <2>1, <2>2, IssueKeeps DEF MarkSucceeds
  <2>4. WorkerInv'
    BY <1>9, <2>3, LeaveKeeps DEF MarkSucceeds
  <2>5. OtherInv'
    BY <1>9, <2>1, <2>2, <2>3 DEF MarkSucceeds, Leave, OtherInv, TableStep
  <2> QED
    BY <2>3, <2>4, <2>5
<1>10. ASSUME NEW w \in Workers, MarkFails(w) PROVE TableInv' /\ WorkerInv' /\ OtherInv'
  <2>1. Justified("processed", current[w]) /\ current[w] \in Events \cup {None}
    BY <1>10 DEF MarkFails, Justified, WorkerInv, OtherInv
  <2>2. TableInv' /\ TableStep("processed", current[w]) /\ faults' \in 0 .. MaxFaults
    <3>1. CASE Unanswered(w, "processed", current[w])
      BY <1>10, <2>1, <3>1, IssueKeeps DEF MarkFails
    <3>2. CASE UNCHANGED <<rows, late, faults>>
      BY <1>10, <3>2 DEF MarkFails, TableStep, TableInv, Justified, OtherInv,
              ProcessedWasInvalidated, GivenUpAfterRetries
    <3> QED
      BY <1>10, <3>1, <3>2 DEF MarkFails
  <2>3. WorkerInv'
    BY <1>10, <2>1, <2>2 DEF MarkFails, TableInv, WorkerInv, ClaimsDistinct,
            TableStep
  <2>4. OtherInv'
    BY <1>10, <2>1, <2>2 DEF MarkFails, OtherInv, TableStep
  <2> QED
    BY <2>2, <2>3, <2>4
<1>11. ASSUME NEW w \in Workers, ReleaseOrFail(w) PROVE TableInv' /\ WorkerInv' /\ OtherInv'
  <2>1. Justified(CleanupKind(w), current[w]) /\ current[w] \in Events \cup {None}
    <3>1. current[w] \in Events /\ claim[w][current[w]] > 0
      BY <1>11 DEF ReleaseOrFail, WorkerInv
    <3>2. claim[w][current[w]] \in Nat /\ attempts[current[w]] \in Nat
      <4>1. claim[w] \in [Events -> Nat] /\ attempts \in [Events -> Nat]
        BY DEF WorkerInv, TableInv
      <4> QED
        BY <3>1, <4>1
    <3>3. current[w] \in inserted /\ claim[w][current[w]] <= attempts[current[w]]
      BY <3>1 DEF WorkerInv
    <3> QED
      BY <3>1, <3>2, <3>3 DEF Justified, CleanupKind
  <2>2. Answered(w, CleanupKind(w), current[w]) \/ Unanswered(w, CleanupKind(w), current[w])
    BY <1>11, <2>1 DEF ReleaseOrFail
  <2>3. TableInv' /\ TableStep(CleanupKind(w), current[w]) /\ faults' \in 0 .. MaxFaults
    BY <1>11, <2>1, <2>2, IssueKeeps DEF ReleaseOrFail, CleanupKind
  <2>4. WorkerInv'
    BY <1>11, <2>3, LeaveKeeps DEF ReleaseOrFail
  <2>5. OtherInv'
    BY <1>11, <2>1, <2>2, <2>3 DEF ReleaseOrFail, Leave, OtherInv, TableStep
  <2> QED
    BY <2>3, <2>4, <2>5
<1>12. ASSUME NEW w \in Workers, RejectUnsupported(w) PROVE TableInv' /\ WorkerInv' /\ OtherInv'
  <2>1. Justified("failed", current[w]) /\ current[w] \in Events \cup {None}
    BY <1>12 DEF RejectUnsupported, Justified, WorkerInv
  <2>2. Answered(w, "failed", current[w]) \/ Unanswered(w, "failed", current[w])
    BY <1>12, <2>1 DEF RejectUnsupported
  <2>3. TableInv' /\ TableStep("failed", current[w]) /\ faults' \in 0 .. MaxFaults
    BY <1>12, <2>1, <2>2, IssueKeeps DEF RejectUnsupported
  <2>4. WorkerInv'
    BY <1>12, <2>3, LeaveKeeps DEF RejectUnsupported
  <2>5. OtherInv'
    BY <1>12, <2>1, <2>2, <2>3 DEF RejectUnsupported, Leave, OtherInv, TableStep
  <2> QED
    BY <2>3, <2>4, <2>5
<1>13. ASSUME NEW w \in Workers, EndBatch(w) PROVE TableInv' /\ WorkerInv' /\ OtherInv'
  <2>1. TableInv'
    BY <1>13 DEF EndBatch, TableInv, Justified, ProcessedWasInvalidated,
            GivenUpAfterRetries
  <2>2. WorkerInv'
    BY <1>13 DEF EndBatch, WorkerInv, ClaimsDistinct
  <2>3. OtherInv'
    BY <1>13 DEF EndBatch, OtherInv
  <2> QED
    BY <2>1, <2>2, <2>3
<1>14. ASSUME NEW w \in Workers, Wait(w) PROVE TableInv' /\ WorkerInv' /\ OtherInv'
  <2>1. TableInv'
    BY <1>14 DEF Wait, TableInv, Justified, ProcessedWasInvalidated,
            GivenUpAfterRetries
  <2>2. WorkerInv'
    BY <1>14 DEF Wait, WorkerInv, ClaimsDistinct
  <2>3. OtherInv'
    BY <1>14 DEF Wait, OtherInv
  <2> QED
    BY <2>1, <2>2, <2>3
<1>15. ASSUME NEW w \in Workers, Cancel(w) PROVE TableInv' /\ WorkerInv' /\ OtherInv'
  <2>1. TableInv'
    BY <1>15 DEF Cancel, Fault, TableInv, Justified, ProcessedWasInvalidated,
            GivenUpAfterRetries
  <2>2. WorkerInv'
    BY <1>15 DEF Cancel, Fault, WorkerInv, ClaimsDistinct
  <2>3. OtherInv'
    BY <1>15 DEF Cancel, Fault, OtherInv
  <2> QED
    BY <2>1, <2>2, <2>3
<1>16. ASSUME NEW w \in Workers, Crash(w) PROVE TableInv' /\ WorkerInv' /\ OtherInv'
  <2>1. TableInv'
    BY <1>16 DEF Crash, Fault, TableInv, Justified, ProcessedWasInvalidated,
            GivenUpAfterRetries
  <2>2. WorkerInv'
    BY <1>16 DEF Crash, Fault, WorkerInv, ClaimsDistinct
  <2>3. OtherInv'
    BY <1>16 DEF Crash, Fault, OtherInv
  <2> QED
    BY <2>1, <2>2, <2>3
<1>17. ASSUME NEW w \in Workers, Start(w) PROVE TableInv' /\ WorkerInv' /\ OtherInv'
  <2>1. TableInv'
    BY <1>17 DEF Start, TableInv, Justified, ProcessedWasInvalidated,
            GivenUpAfterRetries
  <2>2. WorkerInv'
    <3>1. \A v \in Workers, e \in Events : claim'[v][e] = IF v = w THEN 0 ELSE claim[v][e]
      BY <1>17 DEF Start, WorkerInv
    <3>2. claim' \in [Workers -> [Events -> Nat]]
      BY <1>17 DEF Start, WorkerInv
    <3>3. ClaimsDistinct'
      BY <3>1 DEF WorkerInv, ClaimsDistinct
    <3> QED
      BY <1>17, <3>1, <3>2, <3>3 DEF Start, WorkerInv, TableInv
  <2>3. OtherInv'
    BY <1>17 DEF Start, OtherInv
  <2> QED
    BY <2>1, <2>2, <2>3
<1>18. ASSUME UNCHANGED vars PROVE TableInv' /\ WorkerInv' /\ OtherInv'
  BY <1>18 DEF vars, TableInv, Justified, WorkerInv, OtherInv, ProcessedWasInvalidated,
               GivenUpAfterRetries, ClaimsDistinct
<1> QED
  BY <1>1, <1>2, <1>3, <1>4, <1>5, <1>6, <1>7, <1>8, <1>9, <1>10, <1>11,
     <1>12, <1>13, <1>14, <1>15, <1>16, <1>17, <1>18
     DEF Next, WorkerStep

LEMMA InvAlways == Spec => []Inv
  BY InvInit, InvNext, PTL DEF Spec

\* Every variable keeps its type.
THEOREM TypeCorrect == Spec => []TypeOK
  BY InvAlways, InvTypes, PTL

\* An event is marked processed only when its invalidation has run, whichever
\* worker ran it and however late the statement that marks it.
THEOREM ProcessedSound == Spec => []ProcessedWasInvalidated
<1>1. Inv => ProcessedWasInvalidated
  BY DEF Inv, TableInv
<1> QED
  BY <1>1, InvAlways, PTL

\* An event of a known type is given up on only after outboxMaxAttempts claims.
THEOREM GivenUpSound == Spec => []GivenUpAfterRetries
<1>1. Inv => GivenUpAfterRetries
  BY DEF Inv, TableInv
<1> QED
  BY <1>1, InvAlways, PTL

\* No two workers hold the same claim of an event.
THEOREM NoSharedClaim == Spec => []ClaimsDistinct
<1>1. Inv => ClaimsDistinct
  BY DEF Inv, WorkerInv
<1> QED
  BY <1>1, InvAlways, PTL

-----------------------------------------------------------------------------
(* The table and its workers implement EventDelivery.                      *)

Delivered == [Delivery!Next]_(Delivery!vars)

\* A statement that is justified is one of the promised steps.
LEMMA RunDelivers ==
    ASSUME TableInv, NEW k \in Kinds, NEW e \in Events \cup {None}, Justified(k, e), Run(k, e),
           UNCHANGED invalidated
    PROVE  Delivered
<1> USE DEF Run, Delivered, Delivery!vars
<1>1. CASE k = "fetch"
  <2>1. Fetched \subseteq inserted /\ Fetched \cap Delivery!Settled = {}
    BY DEF Fetched, First, Eligible, Settled, Delivery!Settled
  <2>2. Fetched \in SUBSET Events
    BY <2>1 DEF TableInv
  <2>3. Delivery!Attempt(Fetched)
    BY <1>1, <2>1 DEF FetchUnprocessed, Delivery!Attempt
  <2> QED
    BY <2>2, <2>3 DEF Delivery!Next
<1>2. CASE k = "processed"
  <2>1. e \in Events
    BY <1>2 DEF Justified, TableInv
  <2>2. Delivery!Process(e)
    BY <1>2 DEF MarkProcessed, Delivery!Process, Justified
  <2> QED
    BY <2>1, <2>2 DEF Delivery!Next
<1>3. CASE k = "failed"
  <2>1. e \in Events
    BY <1>3 DEF Justified, TableInv
  <2>2. CASE e \in Settled
    BY <1>3, <2>2 DEF MarkFailed
  <2>3. CASE e \notin Settled
    <3>1. Delivery!GiveUp(e)
      BY <1>3, <2>3 DEF MarkFailed, Delivery!GiveUp, Justified, Settled, Delivery!Settled
    <3> QED
      BY <2>1, <3>1 DEF Delivery!Next
  <2> QED
    BY <2>2, <2>3
<1>4. CASE k = "release"
  BY <1>4 DEF Release
<1> QED
  BY <1>1, <1>2, <1>3, <1>4 DEF Kinds

LEMMA IssueDelivers ==
    ASSUME TableInv, NEW w \in Workers, NEW k \in Kinds, NEW e \in Events \cup {None},
           Justified(k, e), Answered(w, k, e) \/ Unanswered(w, k, e), UNCHANGED invalidated
    PROVE  Delivered
<1>1. CASE Answered(w, k, e)
  BY <1>1, RunDelivers DEF Answered
<1>2. CASE Unanswered(w, k, e)
  BY <1>2 DEF Unanswered, rows, Delivered, Delivery!vars
<1> QED
  BY <1>1, <1>2

LEMMA DelDelivers ==
    ASSUME Inv, NEW w \in Workers, at[w] = "del", UNCHANGED rows,
           UNCHANGED invalidated \/ Deleted(w)
    PROVE  Delivered
<1>1. current[w] \in Events /\ current[w] \in inserted
  BY DEF Inv, WorkerInv, Busy
<1>2. CASE UNCHANGED invalidated
  BY <1>2 DEF rows, Delivered, Delivery!vars
<1>3. CASE Deleted(w)
  <2>1. Delivery!Invalidate(current[w])
    BY <1>1, <1>3 DEF Deleted, Delivery!Invalidate, rows
  <2> QED
    BY <1>1, <2>1 DEF Delivered, Delivery!Next
<1> QED
  BY <1>2, <1>3

LEMMA StepDelivers == Inv /\ [Next]_vars => Delivered
<1> SUFFICES ASSUME Inv, [Next]_vars PROVE Delivered
  OBVIOUS
<1>0. TableInv /\ WorkerInv
  BY DEF Inv
<1>1. ASSUME NEW e \in Events, InsertOutboxEvent(e) PROVE Delivered
  <2>1. Delivery!Insert(e)
    BY <1>1 DEF InsertOutboxEvent, Delivery!Insert
  <2> QED
    BY <2>1 DEF Delivered, Delivery!Next
<1>2. ASSUME RunLate PROVE Delivered
  <2>1. PICK s \in late : Run(s[1], s[2])
    BY <1>2 DEF RunLate
  <2>2. s[1] \in Kinds /\ s[2] \in Events \cup {None} /\ Justified(s[1], s[2])
    BY <1>0, <2>1 DEF TableInv
  <2> QED
    BY <1>0, <1>2, <2>1, <2>2, RunDelivers DEF RunLate
<1>3. ASSUME NEW w \in Workers, WorkerStep(w) PROVE Delivered
  <2>1. CASE Fetch(w) \/ FetchFails(w)
    <3>1. Justified("fetch", None) /\ "fetch" \in Kinds
      BY DEF Justified, Kinds
    <3> QED
      BY <1>0, <2>1, <3>1, IssueDelivers DEF Fetch, FetchFails
  <2>2. CASE DelSucceeds(w) \/ DelFails(w)
    BY <2>2, DelDelivers DEF DelSucceeds, DelFails, DelFailed
  <2>3. CASE MarkSucceeds(w) \/ MarkFails(w)
    <3>1. /\ current[w] \in Events /\ Justified("processed", current[w])
          /\ "processed" \in Kinds
      BY <1>0, <2>3 DEF MarkSucceeds, MarkFails, Justified, WorkerInv, Busy, Kinds
    <3>2. CASE Answered(w, "processed", current[w]) \/ Unanswered(w, "processed", current[w])
      BY <1>0, <2>3, <3>1, <3>2, IssueDelivers DEF MarkSucceeds, MarkFails
    <3>3. CASE UNCHANGED <<rows, late, faults>>
      BY <2>3, <3>3 DEF MarkSucceeds, MarkFails, rows, Delivered, Delivery!vars
    <3> QED
      BY <2>3, <3>2, <3>3 DEF MarkSucceeds, MarkFails
  <2>4. CASE ReleaseOrFail(w)
    <3>1. current[w] \in Events /\ claim[w][current[w]] > 0 /\ CleanupKind(w) \in Kinds
      BY <1>0, <2>4 DEF ReleaseOrFail, WorkerInv, Busy, CleanupKind, Kinds
    <3>2. /\ claim[w][current[w]] \in Nat /\ attempts[current[w]] \in Nat
          /\ current[w] \in inserted /\ claim[w][current[w]] <= attempts[current[w]]
      <4>1. claim[w] \in [Events -> Nat] /\ attempts \in [Events -> Nat]
        BY <1>0 DEF WorkerInv, TableInv
      <4> QED
        BY <1>0, <3>1, <4>1 DEF WorkerInv
    <3>3. Justified(CleanupKind(w), current[w])
      BY <3>1, <3>2, OutboxAssumption DEF Justified, CleanupKind
    <3> QED
      BY <1>0, <2>4, <3>1, <3>3, IssueDelivers DEF ReleaseOrFail
  <2>5. CASE RejectUnsupported(w)
    <3>1. current[w] \in Events /\ Justified("failed", current[w]) /\ "failed" \in Kinds
      BY <1>0, <2>5 DEF RejectUnsupported, Justified, WorkerInv, Busy, Kinds
    <3> QED
      BY <1>0, <2>5, <3>1, IssueDelivers DEF RejectUnsupported
  <2>6. CASE ProcessEvent(w) \/ EndBatch(w) \/ Wait(w)
    BY <2>6 DEF ProcessEvent, EndBatch, Wait, rows, Delivered, Delivery!vars
  <2> QED
    BY <1>3, <2>1, <2>2, <2>3, <2>4, <2>5, <2>6 DEF WorkerStep
<1>4. ASSUME NEW w \in Workers, Cancel(w) \/ Crash(w) \/ Start(w) PROVE Delivered
  BY <1>4 DEF Cancel, Crash, Start, rows, Delivered, Delivery!vars
<1>5. ASSUME NEW e \in Events, Unlock(e) PROVE Delivered
  BY <1>5 DEF Unlock, Delivered, Delivery!vars
<1>6. ASSUME UNCHANGED vars PROVE Delivered
  BY <1>6 DEF vars, rows, Delivered, Delivery!vars
<1> QED
  BY <1>1, <1>2, <1>3, <1>4, <1>5, <1>6 DEF Next

\* The table and its workers deliver events as EventDelivery promises: at least
\* once, not for ever, and settled only with reason.
THEOREM OutboxDelivers == Spec => DeliversEvents
<1>1. Init => Delivery!Init
  BY DEF Init, Delivery!Init
<1> QED
  BY <1>1, InvAlways, StepDelivers, PTL DEF Spec, DeliversEvents, Delivered, Delivery!Spec

-----------------------------------------------------------------------------
(* The retry limit.  An event that is not settled has been claimed often    *)
(* only if a worker that carries on holds a claim that used up its attempts *)
(* and will fail it, or if such a claim was lost to a fault; a claim that   *)
(* may still run late has its fault to spend.                               *)

\* The workers that are going to give up on e when its invalidation fails.
Retrying(e) ==
    {w \in Workers \ cancelled :
        at[w] \notin {"stopped", "down"} /\ claim[w][e] >= MaxAttempts}

\* The faults that are not spent on a fetch that may still run.
Slack == faults - (IF <<"fetch", None>> \in late THEN 1 ELSE 0)

\* Between batches a worker holds no claim.
NothingClaimed ==
    \A w \in Workers : at[w] \in {"fetch", "wait"} => \A e \in Events : claim[w][e] = 0

RetryAux ==
    /\ \A s \in late : s[1] = "fetch" => s[2] = None
    /\ Slack >= 0
    /\ NothingClaimed

RetryCount ==
    \A e \in Events \ Settled :
        attempts[e] <= MaxAttempts - 1 + Cardinality(Retrying(e)) + Slack

RetryInv == RetryAux /\ RetryCount /\ RetriesBounded

LEMMA WorkersCounted ==
    /\ Cardinality(Workers) \in Nat
    /\ \A R \in SUBSET Workers :
        /\ IsFiniteSet(R)
        /\ Cardinality(R) \in Nat
        /\ Cardinality(R) <= Cardinality(Workers)
  BY OutboxAssumption, FS_CardinalityType, FS_Subset

LEMMA OneMore ==
    ASSUME NEW R \in SUBSET Workers, NEW Q \in SUBSET Workers, NEW w
    PROVE  /\ R \subseteq Q => Cardinality(R) <= Cardinality(Q)
           /\ R \subseteq Q \cup {w} => Cardinality(R) <= Cardinality(Q) + 1
           /\ Q \cup {w} \subseteq R /\ w \notin Q => Cardinality(R) >= Cardinality(Q) + 1
<1>1. IsFiniteSet(R) /\ IsFiniteSet(Q) /\ Cardinality(R) \in Nat /\ Cardinality(Q) \in Nat
  BY WorkersCounted
<1>2. /\ IsFiniteSet(Q \cup {w})
      /\ Cardinality(Q \cup {w}) = IF w \in Q THEN Cardinality(Q) ELSE Cardinality(Q) + 1
  BY <1>1, FS_AddElement
<1>3. R \subseteq Q => Cardinality(R) <= Cardinality(Q)
  BY <1>1, FS_Subset
<1>4. R \subseteq Q \cup {w} => Cardinality(R) <= Cardinality(Q \cup {w})
  BY <1>2, FS_Subset
<1>5. Q \cup {w} \subseteq R => Cardinality(Q \cup {w}) <= Cardinality(R)
  BY <1>1, FS_Subset
<1> QED
  BY <1>1, <1>2, <1>3, <1>4, <1>5

LEMMA RetryingWorkers ==
    /\ \A e : Retrying(e) \in SUBSET Workers
    /\ \A e : Retrying(e)' \in SUBSET Workers
  BY DEF Retrying

LEMMA SlackBound ==
    /\ faults \in Nat => Slack \in Int /\ Slack <= faults
    /\ faults' \in Nat => Slack' \in Int /\ Slack' <= faults'
<1>1. \A n \in Nat, b \in BOOLEAN : n - (IF b THEN 1 ELSE 0) \in Int /\ n - (IF b THEN 1 ELSE 0) <= n
  OBVIOUS
<1> QED
  BY <1>1 DEF Slack

\* A step that makes no claim may lose one that used up its attempts only to a fault.
LEMMA NoClaimMade ==
    ASSUME TableInv, OtherInv, OtherInv', RetryInv, attempts' = attempts,
           processed \subseteq processed', failed \subseteq failed', faults' >= faults,
           NEW w,
           \A e \in Events \ Settled' :
              \/ Retrying(e) \subseteq Retrying(e)' /\ Slack' >= Slack
              \/ Retrying(e) \subseteq Retrying(e)' \cup {w} /\ Slack' >= Slack + 1
    PROVE  RetryCount' /\ RetriesBounded'
<1>1. Slack \in Int /\ Slack' \in Int
  BY OutboxAssumption DEF OtherInv, Slack
<1>2. ASSUME NEW e \in Events \ Settled'
      PROVE  attempts'[e] <= MaxAttempts - 1 + Cardinality(Retrying(e)') + Slack'
  <2>1. e \notin Settled
    BY DEF Settled
  <2>2. attempts[e] <= MaxAttempts - 1 + Cardinality(Retrying(e)) + Slack
    BY <2>1 DEF RetryInv, RetryCount
  <2>3. Cardinality(Retrying(e)) \in Nat /\ Cardinality(Retrying(e)') \in Nat
    BY WorkersCounted, RetryingWorkers
  <2>4. /\ Retrying(e) \subseteq Retrying(e)'
            => Cardinality(Retrying(e)) <= Cardinality(Retrying(e)')
        /\ Retrying(e) \subseteq Retrying(e)' \cup {w}
            => Cardinality(Retrying(e)) <= Cardinality(Retrying(e)') + 1
    BY OneMore, RetryingWorkers
  <2>5. attempts[e] \in Nat
    BY DEF TableInv
  <2> QED
    BY <1>1, <2>2, <2>3, <2>4, <2>5, OutboxAssumption
<1>3. RetriesBounded'
  BY OutboxAssumption, WorkersCounted DEF RetryInv, RetriesBounded, OtherInv, TableInv
<1> QED
  BY <1>2, <1>3 DEF RetryCount

\* What a statement other than a claim does, answered or not.
LEMMA IssueSlack ==
    ASSUME OtherInv, OtherInv', RetryAux, NEW w \in Workers, NEW k \in Kinds, k # "fetch", NEW e,
           Answered(w, k, e) \/ Unanswered(w, k, e)
    PROVE  /\ attempts' = attempts
           /\ processed \subseteq processed' /\ failed \subseteq failed' /\ faults' >= faults
           /\ \A s \in late' : s[1] = "fetch" => s[2] = None
           /\ Slack' >= Slack
           /\ \/ k \in {"processed", "failed"} => e \in Settled'
              \/ w \in cancelled
              \/ Slack' >= Slack + 1
<1> USE OutboxAssumption DEF OtherInv
<1>0. faults \in Nat /\ faults' \in Nat
  OBVIOUS
<1>1. CASE Answered(w, k, e)
  <2>1. late' = late /\ faults' = faults /\ Run(k, e)
    BY <1>1 DEF Answered
  <2>2. /\ attempts' = attempts
        /\ processed \subseteq processed' /\ failed \subseteq failed'
        /\ k \in {"processed", "failed"} => e \in Settled'
    BY <2>1 DEF Run, MarkProcessed, MarkFailed, Release, Settled
  <2>3. Slack' = Slack
    BY <2>1 DEF Slack
  <2>4. Slack \in Int
    BY <1>0 DEF Slack
  <2>5. \A s \in late' : s[1] = "fetch" => s[2] = None
    BY <2>1 DEF RetryAux
  <2> QED
    BY <1>0, <2>1, <2>2, <2>3, <2>4, <2>5
<1>2. CASE Unanswered(w, k, e)
  <2>1. attempts' = attempts /\ processed' = processed /\ failed' = failed
    BY <1>2 DEF Unanswered, rows
  <2>2. \/ w \in cancelled /\ late' = late /\ faults' = faults
        \/ late' = late \cup {<<k, e>>} /\ faults' = faults + 1
    BY <1>2 DEF Unanswered, Fault
  <2>3. <<"fetch", None>> \in late' <=> <<"fetch", None>> \in late
    BY <2>2
  <2>4. Slack \in Int /\ Slack' - Slack = faults' - faults
    BY <1>0, <2>3 DEF Slack
  <2>5. Slack' \in Int
    BY <1>0 DEF Slack
  <2>6. \A s \in late' : s[1] = "fetch" => s[2] = None
    BY <2>2 DEF RetryAux
  <2>7. faults' >= faults /\ (w \in cancelled \/ faults' = faults + 1)
    BY <1>0, <2>2
  <2>8. Slack' >= Slack /\ (w \in cancelled \/ Slack' >= Slack + 1)
    BY <1>0, <2>4, <2>5, <2>7
  <2>9. processed \subseteq processed' /\ failed \subseteq failed'
    BY <2>1
  <2> QED
    BY <2>1, <2>6, <2>7, <2>8, <2>9, Zenon
<1> QED
  BY <1>1, <1>2

LEMMA NothingSent ==
    ASSUME TableInv, OtherInv, OtherInv', RetryInv, NothingClaimed',
           UNCHANGED <<attempts, processed, failed, late, faults>>,
           \A e \in Events : Retrying(e) \subseteq Retrying(e)'
    PROVE  RetryInv'
<1>1. Slack' = Slack /\ Slack \in Int /\ faults' >= faults
  BY OutboxAssumption DEF Slack, OtherInv
<1>2. RetryCount' /\ RetriesBounded'
  <2>1. Slack' >= Slack
    BY <1>1
  <2>2. attempts' = attempts /\ processed \subseteq processed' /\ failed \subseteq failed'
    OBVIOUS
  <2> QED
    BY <1>1, <2>1, <2>2, NoClaimMade
<1>3. RetryAux'
  BY <1>1 DEF RetryInv, RetryAux, NothingClaimed
<1> QED
  BY <1>2, <1>3 DEF RetryInv

\* A claim is let go by a statement that settles its event, or that is lost.
LEMMA StatementSent ==
    ASSUME TableInv, OtherInv, OtherInv', RetryInv, NothingClaimed',
           NEW w \in Workers, NEW k \in Kinds, k # "fetch", NEW e,
           Answered(w, k, e) \/ Unanswered(w, k, e),
           \A x \in Events :
              \/ Retrying(x) \subseteq Retrying(x)'
              \/ /\ x = e /\ k \in {"processed", "failed"} /\ w \notin cancelled
                 /\ Retrying(x) \subseteq Retrying(x)' \cup {w}
    PROVE  RetryInv'
<1>1. RetryAux
  BY DEF RetryInv
<1>2. /\ attempts' = attempts
      /\ processed \subseteq processed' /\ failed \subseteq failed' /\ faults' >= faults
      /\ \A s \in late' : s[1] = "fetch" => s[2] = None
      /\ Slack' >= Slack
      /\ \/ k \in {"processed", "failed"} => e \in Settled'
         \/ w \in cancelled
         \/ Slack' >= Slack + 1
  BY <1>1, IssueSlack
<1>3. ASSUME NEW x \in Events \ Settled'
      PROVE  \/ Retrying(x) \subseteq Retrying(x)' /\ Slack' >= Slack
             \/ Retrying(x) \subseteq Retrying(x)' \cup {w} /\ Slack' >= Slack + 1
  BY <1>2, <1>3
<1>4. RetryCount' /\ RetriesBounded'
  BY <1>2, <1>3, NoClaimMade
<1>5. Slack' >= 0
  <2>1. faults \in Nat /\ faults' \in Nat
    BY OutboxAssumption DEF OtherInv
  <2>2. Slack \in Int /\ Slack' \in Int
    BY <2>1, SlackBound
  <2>3. Slack >= 0
    BY <1>1 DEF RetryAux
  <2> QED
    BY <1>2, <2>2, <2>3
<1>6. RetryAux'
  BY <1>2, <1>5 DEF RetryAux, NothingClaimed
<1> QED
  BY <1>4, <1>6 DEF RetryInv

LEMMA RetryInit == Init => RetryInv
<1> SUFFICES ASSUME Init PROVE RetryInv
  OBVIOUS
<1>0. late = {} /\ faults = 0
  BY DEF Init
<1>1. Slack = 0
  <2>1. ~(<<"fetch", None>> \in late)
    BY <1>0
  <2>2. Slack = faults - 0
    BY <2>1 DEF Slack
  <2> QED
    BY <1>0, <2>2
<1>2. RetryAux
  BY <1>1 DEF Init, RetryAux, NothingClaimed
<1>3. RetryCount
  BY <1>1, WorkersCounted, RetryingWorkers, OutboxAssumption DEF Init, RetryCount
<1>4. RetriesBounded
  BY WorkersCounted, OutboxAssumption DEF Init, RetriesBounded
<1> QED
  BY <1>2, <1>3, <1>4 DEF RetryInv

LEMMA RetryNext == Inv /\ Inv' /\ RetryInv /\ [Next]_vars => RetryInv'
<1> SUFFICES ASSUME Inv, Inv', RetryInv, [Next]_vars
             PROVE  RetryInv'
  OBVIOUS
<1>0. /\ TableInv /\ WorkerInv /\ OtherInv /\ TableInv' /\ WorkerInv' /\ OtherInv'
      /\ NothingClaimed /\ RetryAux
  BY DEF Inv, RetryInv, RetryAux
<1> USE <1>0
<1>1. ASSUME UNCHANGED <<attempts, processed, failed, late, faults>>,
             UNCHANGED <<at, claim, cancelled>>
      PROVE  RetryInv'
  <2>1. NothingClaimed' /\ \A e \in Events : Retrying(e) \subseteq Retrying(e)'
    BY <1>1 DEF NothingClaimed, Retrying
  <2> QED
    BY <1>1, <2>1, NothingSent
<1>2. ASSUME RunLate PROVE RetryInv'
  <2>1. PICK s \in late : Run(s[1], s[2]) /\ late' = late \ {s}
    BY <1>2 DEF RunLate
  <2>2. s \in Kinds \X (Events \cup {None}) /\ (s[1] = "fetch" => s[2] = None)
    BY <2>1 DEF TableInv, RetryAux
  <2>3. UNCHANGED <<at, claim, cancelled, faults>>
    BY <1>2 DEF RunLate, batch
  <2>4. NothingClaimed' /\ \A e : Retrying(e)' = Retrying(e)
    BY <2>3 DEF NothingClaimed, Retrying
  <2>5. \A x \in late' : x[1] = "fetch" => x[2] = None
    BY <2>1 DEF RetryAux
  <2>6. CASE s[1] = "fetch"
    <3>1. s = <<"fetch", None>>
      BY <2>2, <2>6
    <3>2. Slack' = Slack + 1 /\ Slack \in Nat
      BY <2>1, <2>3, <3>1, OutboxAssumption DEF Slack, OtherInv, RetryAux
    <3>3. /\ processed' = processed /\ failed' = failed
          /\ attempts' = [e \in Events |->
                            IF e \in Fetched THEN attempts[e] + 1 ELSE attempts[e]]
      BY <2>1, <2>6 DEF Run, FetchUnprocessed
    <3>4. \A e \in Fetched : e \notin Settled
      BY DEF Fetched, First, Eligible
    <3>5. \A e \in Events : attempts[e] \in Nat
      BY DEF TableInv
    <3>6. ASSUME NEW e \in Events \ Settled'
          PROVE  attempts'[e] <= MaxAttempts - 1 + Cardinality(Retrying(e)') + Slack'
      <4>1. attempts[e] <= MaxAttempts - 1 + Cardinality(Retrying(e)) + Slack
        BY <3>3 DEF Settled, RetryInv, RetryCount
      <4>2. attempts'[e] <= attempts[e] + 1
        BY <3>3, <3>5
      <4>3. Cardinality(Retrying(e)) \in Nat /\ attempts'[e] \in Nat
        BY WorkersCounted, RetryingWorkers DEF TableInv
      <4> QED
        BY <2>4, <3>2, <3>5, <4>1, <4>2, <4>3, OutboxAssumption
    <3>7. ASSUME NEW e \in Events
          PROVE  attempts'[e] <= MaxAttempts - 1 + Cardinality(Workers) + faults'
      <4>1. CASE e \in Settled
        BY <2>3, <3>3, <3>4, <4>1 DEF RetryInv, RetriesBounded
      <4>2. CASE e \notin Settled
        <5>1. attempts'[e] <= MaxAttempts - 1 + Cardinality(Retrying(e)') + Slack'
          BY <3>3, <3>6, <4>2 DEF Settled
        <5>2. /\ Cardinality(Retrying(e)') <= Cardinality(Workers)
              /\ Cardinality(Retrying(e)') \in Nat /\ Cardinality(Workers) \in Nat
          BY WorkersCounted, RetryingWorkers
        <5>3. faults' \in Nat
          BY OutboxAssumption DEF OtherInv
        <5>6. Slack' <= faults' /\ Slack' \in Int
          BY <5>3, SlackBound
        <5>4. attempts'[e] \in Nat
          BY DEF TableInv
        <5> QED
          BY <5>1, <5>2, <5>3, <5>4, <5>6, OutboxAssumption
      <4> QED
        BY <4>1, <4>2
    <3>8. RetryAux'
      BY <2>4, <2>5, <3>2 DEF RetryAux
    <3> QED
      BY <3>6, <3>7, <3>8 DEF RetryInv, RetryCount, RetriesBounded
  <2>7. CASE s[1] # "fetch"
    <3>1. Slack' = Slack /\ Slack \in Nat /\ faults' >= faults
      BY <2>1, <2>3, <2>7, OutboxAssumption DEF Slack, OtherInv, RetryAux
    <3>2. attempts' = attempts /\ processed \subseteq processed' /\ failed \subseteq failed'
      BY <2>1, <2>7 DEF Run, MarkProcessed, MarkFailed, Release
    <3>3. RetryCount' /\ RetriesBounded'
      BY <2>4, <3>1, <3>2, NoClaimMade
    <3>4. RetryAux'
      BY <2>4, <2>5, <3>1 DEF RetryAux
    <3> QED
      BY <3>3, <3>4 DEF RetryInv
  <2> QED
    BY <2>6, <2>7
<1>3. ASSUME NEW w \in Workers, Fetch(w) PROVE RetryInv'
  <2>1. /\ processed' = processed /\ failed' = failed /\ late' = late /\ faults' = faults
        /\ cancelled' = cancelled /\ w \notin cancelled
        /\ attempts' = [e \in Events |-> IF e \in Fetched THEN attempts[e] + 1 ELSE attempts[e]]
    BY <1>3 DEF Fetch, Answered, Run, FetchUnprocessed
  <2>2. at[w] = "fetch" /\ at' = [at EXCEPT ![w] = "next"]
    BY <1>3 DEF Fetch, Goto
  <2>3. \A v \in Workers, e \in Events :
          claim'[v][e] = IF v # w THEN claim[v][e]
                         ELSE IF e \in Fetched THEN attempts[e] + 1 ELSE 0
    BY <1>3 DEF Fetch, WorkerInv
  <2>4. \A v \in Workers : at'[v] = IF v = w THEN "next" ELSE at[v]
    BY <2>2 DEF WorkerInv
  <2>5. \A e \in Events : claim[w][e] = 0
    BY <2>2 DEF NothingClaimed
  <2>6. NothingClaimed'
    BY <2>3, <2>4 DEF NothingClaimed
  <2>7. Slack' = Slack /\ Slack \in Nat
    BY <2>1, OutboxAssumption DEF Slack, OtherInv, RetryAux
  <2>8. \A e \in Fetched : e \notin Settled
    BY DEF Fetched, First, Eligible
  <2>9. \A e \in Events : attempts[e] \in Nat /\ attempts'[e] \in Nat
    BY DEF TableInv
  <2>10. ASSUME NEW e \in Events \ Settled'
         PROVE  attempts'[e] <= MaxAttempts - 1 + Cardinality(Retrying(e)') + Slack'
    <3>1. attempts[e] <= MaxAttempts - 1 + Cardinality(Retrying(e)) + Slack
      BY <2>1 DEF Settled, RetryInv, RetryCount
    <3>2. /\ Cardinality(Retrying(e)) \in Nat /\ Cardinality(Retrying(e)') \in Nat
          /\ Retrying(e) \in SUBSET Workers /\ Retrying(e)' \in SUBSET Workers
      BY WorkersCounted, RetryingWorkers
    <3>3. w \notin Retrying(e) /\ Retrying(e) \subseteq Retrying(e)'
      BY <2>1, <2>3, <2>4, <2>5, OutboxAssumption DEF Retrying
    <3>4. Cardinality(Retrying(e)) <= Cardinality(Retrying(e)')
      BY <3>2, <3>3, OneMore
    <3>5. CASE e \in Fetched /\ attempts[e] + 1 >= MaxAttempts
      <4>1. w \in Retrying(e)'
        BY <2>1, <2>3, <2>4, <3>5 DEF Retrying
      <4>2. Cardinality(Retrying(e)') >= Cardinality(Retrying(e)) + 1
        BY <3>2, <3>3, <4>1, OneMore
      <4> QED
        BY <2>1, <2>7, <2>9, <3>1, <3>2, <3>5, <4>2, OutboxAssumption
    <3>6. CASE ~(e \in Fetched /\ attempts[e] + 1 >= MaxAttempts)
      BY <2>1, <2>7, <2>9, <3>1, <3>2, <3>4, <3>6, OutboxAssumption
    <3> QED
      BY <3>5, <3>6
  <2>11. ASSUME NEW e \in Events
         PROVE  attempts'[e] <= MaxAttempts - 1 + Cardinality(Workers) + faults'
    <3>1. CASE e \in Settled
      BY <2>1, <2>8, <3>1 DEF RetryInv, RetriesBounded
    <3>2. CASE e \notin Settled
      <4>1. attempts'[e] <= MaxAttempts - 1 + Cardinality(Retrying(e)') + Slack'
        BY <2>1, <2>10, <3>2 DEF Settled
      <4>2. /\ Cardinality(Retrying(e)') <= Cardinality(Workers)
            /\ Cardinality(Retrying(e)') \in Nat /\ Cardinality(Workers) \in Nat
        BY WorkersCounted, RetryingWorkers
      <4>3. faults' \in Nat
        BY OutboxAssumption DEF OtherInv
      <4>4. Slack' <= faults' /\ Slack' \in Int
        BY <4>3, SlackBound
      <4> QED
        BY <2>9, <4>1, <4>2, <4>3, <4>4, OutboxAssumption
    <3> QED
      BY <3>1, <3>2
  <2>12. RetryAux'
    BY <2>1, <2>6, <2>7 DEF RetryAux
  <2> QED
    BY <2>10, <2>11, <2>12 DEF RetryInv, RetryCount, RetriesBounded
<1>4. ASSUME NEW w \in Workers, FetchFails(w) PROVE RetryInv'
  <2>1. /\ UNCHANGED <<attempts, processed, failed, claim, cancelled>>
        /\ \A v \in Workers : at'[v] = IF v = w THEN (IF w \in cancelled THEN "stopped" ELSE "wait")
                               ELSE at[v]
        /\ at[w] = "fetch"
    BY <1>4 DEF FetchFails, Unanswered, rows, batch, Goto, WorkerInv
  <2>2. \/ late' = late /\ faults' = faults
        \/ late' = late \cup {<<"fetch", None>>} /\ faults' = faults + 1
    BY <1>4 DEF FetchFails, Unanswered, Fault
  <2>3. \A e \in Events : claim[w][e] = 0
    BY <2>1 DEF NothingClaimed
  <2>4. NothingClaimed'
    BY <2>1, <2>3 DEF NothingClaimed
  <2>5. \A e \in Events : Retrying(e) \subseteq Retrying(e)'
    BY <2>1, <2>3, OutboxAssumption DEF Retrying
  <2>6. faults' >= faults /\ faults' \in Nat /\ faults \in Nat
    BY <2>2, OutboxAssumption DEF OtherInv
  <2>7. Slack' >= Slack /\ Slack' >= 0
    <3>1. CASE late' = late /\ faults' = faults
      <4>1. Slack' = Slack
        BY <3>1 DEF Slack
      <4> QED
        BY <2>6, <4>1, SlackBound DEF RetryAux
    <3>2. CASE late' = late \cup {<<"fetch", None>>} /\ faults' = faults + 1
      <4>1. Slack' = faults' - 1
        BY <3>2 DEF Slack
      <4> QED
        BY <2>6, <3>2, <4>1, SlackBound DEF RetryAux
    <3> QED
      BY <2>2, <3>1, <3>2
  <2>8. attempts' = attempts /\ processed \subseteq processed' /\ failed \subseteq failed'
    BY <2>1
  <2>9. RetryCount' /\ RetriesBounded'
    BY <2>5, <2>6, <2>7, <2>8, NoClaimMade
  <2>10. \A s \in late' : s[1] = "fetch" => s[2] = None
    BY <2>2 DEF RetryAux
  <2> QED
    BY <2>4, <2>7, <2>9, <2>10 DEF RetryInv, RetryAux
<1>5. ASSUME NEW w \in Workers, ProcessEvent(w) \/ DelSucceeds(w) \/ DelFails(w) \/ EndBatch(w)
                                 \/ Wait(w)
      PROVE  RetryInv'
  <2>1. UNCHANGED <<attempts, processed, failed, late, faults, claim, cancelled>>
    BY <1>5 DEF ProcessEvent, DelSucceeds, DelFails, EndBatch, Wait, rows, batch
  <2>2. /\ \A v \in Workers : v # w => at'[v] = at[v]
        /\ at'[w] \in {"stopped", "down"} => at[w] \in {"stopped", "down"} \/ w \in cancelled
        /\ at'[w] \in {"fetch", "wait"} => \A e \in Events : claim[w][e] = 0
    BY <1>5 DEF ProcessEvent, DelSucceeds, DelFails, EndBatch, Wait, Goto, WorkerInv, NothingClaimed
  <2>3. NothingClaimed'
    BY <2>1, <2>2 DEF NothingClaimed
  <2>4. \A e \in Events : Retrying(e) \subseteq Retrying(e)'
    BY <2>1, <2>2 DEF Retrying
  <2> QED
    BY <2>1, <2>3, <2>4, NothingSent
<1>6. ASSUME NEW w \in Workers, MarkFails(w) PROVE RetryInv'
  <2>1. UNCHANGED <<claim, cancelled>> /\ at' = [at EXCEPT ![w] = "cleanup"]
    BY <1>6 DEF MarkFails, batch, Goto
  <2>2. \A v \in Workers : at'[v] = IF v = w THEN "cleanup" ELSE at[v]
    BY <2>1 DEF WorkerInv
  <2>3. NothingClaimed'
    BY <2>1, <2>2 DEF NothingClaimed
  <2>4. \A e \in Events : Retrying(e) \subseteq Retrying(e)'
    BY <2>1, <2>2 DEF Retrying
  <2>5. CASE Unanswered(w, "processed", current[w])
    <3>1. "processed" \in Kinds
      BY DEF Kinds
    <3> QED
      BY <2>3, <2>4, <2>5, <3>1, StatementSent
  <2>6. CASE UNCHANGED <<rows, late, faults>>
    <3>1. UNCHANGED <<attempts, processed, failed, late, faults>>
      BY <2>6 DEF rows
    <3> QED
      BY <2>3, <2>4, <3>1, NothingSent
  <2> QED
    BY <1>6, <2>5, <2>6 DEF MarkFails
<1>7. ASSUME NEW w \in Workers, at[w] \in {"mark", "cleanup", "unsupported"},
             NEW counted, Leave(w, counted), UNCHANGED cancelled,
             NEW k \in Kinds, k # "fetch",
             Answered(w, k, current[w]) \/ Unanswered(w, k, current[w]),
             k \notin {"processed", "failed"} => claim[w][current[w]] < MaxAttempts
      PROVE  RetryInv'
  <2>1. /\ \A v \in Workers, x \in Events :
             claim'[v][x] = IF v = w /\ x = current[w] THEN 0 ELSE claim[v][x]
        /\ \A v \in Workers : at'[v] = IF v = w THEN "next" ELSE at[v]
        /\ cancelled' = cancelled /\ current[w] \in Events
    BY <1>7 DEF Leave, Goto, WorkerInv, Busy
  <2>2. NothingClaimed'
    BY <1>7, <2>1 DEF NothingClaimed
  <2>3. ASSUME NEW x \in Events
        PROVE  \/ Retrying(x) \subseteq Retrying(x)'
               \/ /\ x = current[w] /\ k \in {"processed", "failed"} /\ w \notin cancelled
                  /\ Retrying(x) \subseteq Retrying(x)' \cup {w}
    <3>1. CASE x # current[w]
      BY <2>1, <3>1 DEF Retrying
    <3>2. CASE x = current[w] /\ w \in Retrying(x)
      <4>1. w \notin cancelled /\ claim[w][x] >= MaxAttempts
        BY <3>2 DEF Retrying
      <4>2. k \in {"processed", "failed"}
        BY <1>7, <3>2, <4>1, OutboxAssumption DEF WorkerInv
      <4>3. Retrying(x) \subseteq Retrying(x)' \cup {w}
        BY <2>1 DEF Retrying
      <4> QED
        BY <3>2, <4>1, <4>2, <4>3
    <3>3. CASE x = current[w] /\ w \notin Retrying(x)
      BY <2>1, <3>3 DEF Retrying
    <3> QED
      BY <3>1, <3>2, <3>3
  <2> QED
    BY <1>7, <2>2, <2>3, StatementSent
<1>8. ASSUME NEW w \in Workers, MarkSucceeds(w) PROVE RetryInv'
  <2>1. "processed" \in Kinds /\ "processed" # "fetch"
    BY DEF Kinds
  <2> QED
    BY <1>7, <1>8, <2>1 DEF MarkSucceeds
<1>9. ASSUME NEW w \in Workers, ReleaseOrFail(w) PROVE RetryInv'
  <2>1. CleanupKind(w) \in Kinds /\ CleanupKind(w) # "fetch"
    BY DEF Kinds, CleanupKind
  <2>2. current[w] \in Events
    BY <1>9 DEF ReleaseOrFail, WorkerInv, Busy
  <2>3. CleanupKind(w) \notin {"processed", "failed"} => claim[w][current[w]] < MaxAttempts
    <3> DEFINE x == current[w]
    <3> HIDE <1>0 DEF x
    <3>1. claim \in [Workers -> [Events -> Nat]]
      BY <1>0 DEF WorkerInv
    <3>2. claim[w][x] \in Nat /\ MaxAttempts \in Nat
      BY <2>2, <3>1, OutboxAssumption DEF x
    <3>3. CASE claim[w][x] >= MaxAttempts
      BY <3>3 DEF CleanupKind, x
    <3>4. CASE ~(claim[w][x] >= MaxAttempts)
      BY <3>2, <3>4 DEF x
    <3> QED
      BY <3>3, <3>4
  <2> QED
    BY <1>7, <1>9, <2>1, <2>2, <2>3 DEF ReleaseOrFail
<1>10. ASSUME NEW w \in Workers, RejectUnsupported(w) PROVE RetryInv'
  <2>1. "failed" \in Kinds /\ "failed" # "fetch"
    BY DEF Kinds
  <2> QED
    BY <1>7, <1>10, <2>1 DEF RejectUnsupported
<1>11. ASSUME NEW w \in Workers, Cancel(w) \/ Crash(w) PROVE RetryInv'
  <2>1. /\ UNCHANGED <<attempts, processed, failed, late, claim>> /\ faults' = faults + 1
        /\ \A v \in Workers : v # w => at'[v] = at[v]
        /\ at'[w] \in {at[w], "down"}
        /\ cancelled' \in {cancelled, cancelled \cup {w}}
    BY <1>11 DEF Cancel, Crash, Fault, rows, batch, Goto, WorkerInv
  <2>2. NothingClaimed'
    BY <2>1 DEF NothingClaimed
  <2>3. \A e \in Events : Retrying(e) \subseteq Retrying(e)' \cup {w}
    BY <2>1 DEF Retrying
  <2>4. faults \in Nat /\ faults' \in Nat /\ faults' >= faults
    BY <2>1, OutboxAssumption DEF OtherInv
  <2>5. <<"fetch", None>> \in late' <=> <<"fetch", None>> \in late
    BY <2>1
  <2>6. Slack' - Slack = faults' - faults
    BY <2>4, <2>5 DEF Slack
  <2>7. Slack' >= Slack + 1 /\ Slack' >= 0
    BY <2>1, <2>4, <2>6, SlackBound DEF RetryAux
  <2>8. attempts' = attempts /\ processed \subseteq processed' /\ failed \subseteq failed'
    BY <2>1
  <2>9. RetryCount' /\ RetriesBounded'
    BY <2>3, <2>4, <2>7, <2>8, NoClaimMade
  <2> QED
    BY <2>1, <2>2, <2>7, <2>9 DEF RetryInv, RetryAux
<1>12. ASSUME NEW w \in Workers, Start(w) PROVE RetryInv'
  <2>1. /\ UNCHANGED <<attempts, processed, failed, late, faults>>
        /\ at[w] \in {"stopped", "down"} /\ cancelled' \subseteq cancelled
        /\ \A v \in Workers : v # w => at'[v] = at[v]
        /\ \A v \in Workers, e \in Events : claim'[v][e] = IF v = w THEN 0 ELSE claim[v][e]
    BY <1>12 DEF Start, rows, Goto, WorkerInv
  <2>2. NothingClaimed'
    BY <2>1 DEF NothingClaimed
  <2>3. \A e \in Events : Retrying(e) \subseteq Retrying(e)'
    BY <2>1 DEF Retrying
  <2> QED
    BY <2>1, <2>2, <2>3, NothingSent
<1>13. ASSUME NEW e \in Events, InsertOutboxEvent(e) \/ Unlock(e) PROVE RetryInv'
  BY <1>1, <1>13 DEF InsertOutboxEvent, Unlock, batch
<1>14. ASSUME UNCHANGED vars PROVE RetryInv'
  BY <1>1, <1>14 DEF vars, rows, batch
<1> QED
  BY <1>2, <1>3, <1>4, <1>5, <1>6, <1>8, <1>9, <1>10, <1>11, <1>12, <1>13, <1>14
     DEF Next, WorkerStep

\* An event is claimed more often than outboxMaxAttempts only for workers that worked
\* on it at a time, or when a crash, a signal or a lost answer cut an attempt off.
THEOREM RetriesHold == Spec => []RetriesBounded
<1>1. RetryInv => RetriesBounded
  BY DEF RetryInv
<1> QED
  BY <1>1, InvAlways, RetryInit, RetryNext, PTL DEF Spec

-----------------------------------------------------------------------------
(* What the abstract specification promises, for the table and its workers. *)

\* What is settled stays settled and is never claimed again.
SettledForGood == [][\A e \in Settled : e \in Settled' /\ attempts'[e] = attempts[e]]_vars

LEMMA DeliverySettles ==
    ASSUME Settled \subseteq Events, Delivered
    PROVE  \A e \in Settled : e \in Settled' /\ attempts'[e] = attempts[e]
BY DEF Delivered, Delivery!Next, Delivery!vars, Delivery!Insert, Delivery!Attempt,
       Delivery!Invalidate, Delivery!Process, Delivery!GiveUp, Delivery!Settled, Settled

\* Whatever overlaps, is lost or runs late, an event that was processed or given up on
\* stays so and no worker claims it again.
THEOREM SettledStaysSettled == Spec => SettledForGood
<1>1. Inv => Settled \subseteq Events
  BY DEF Inv, TableInv, Settled
<1>2. Inv /\ [Next]_vars => \A e \in Settled : e \in Settled' /\ attempts'[e] = attempts[e]
  BY <1>1, StepDelivers, DeliverySettles
<1> QED
  BY <1>2, InvAlways, PTL DEF Spec, SettledForGood

-----------------------------------------------------------------------------
(* A batch comes to its end.                                               *)

\* What is left of a worker's batch.
Held(w) == {e \in Events : claim[w][e] > 0}

\* No batch is larger than outboxBatchSize, and between batches nothing is held.
BatchesFit ==
    \A w \in Workers :
        /\ Cardinality(Held(w)) <= BatchSize
        /\ at[w] \in {"fetch", "wait", "stopped"} => Held(w) = {}

\* An upper bound on the steps a worker takes before its batch is done and, with its
\* context cancelled, before it has stopped.
StepsLeft(w) ==
    LET held == 4 * Cardinality(Held(w))
    IN  CASE at[w] = "next" -> held + 3
          [] at[w] = "del" -> held + 2
          [] at[w] = "mark" -> held + 1
          [] at[w] \in {"cleanup", "unsupported"} -> held
          [] at[w] = "wait" -> 2
          [] at[w] = "fetch" -> 1
          [] OTHER -> 0

\* Whatever fails, is not answered or runs late, every step of a worker brings its
\* batch nearer to its end, and every step of one whose context is cancelled brings
\* it nearer to its stop: Run and ProcessBatch do not go round in circles.
BatchesEnd == [][
    \A w \in Workers :
        WorkerStep(w) /\ (at[w] # "fetch" \/ w \in cancelled) => StepsLeft(w)' < StepsLeft(w)]_vars

BatchInv == IsFiniteSet(inserted) /\ BatchesFit

\* ORDER BY ... LIMIT n returns at most n rows: each has fewer than n before it, and
\* no two have equally many.
LEMMA FirstFits ==
    ASSUME NEW S \in SUBSET Nat, IsFiniteSet(S), NEW n \in Nat
    PROVE  IsFiniteSet(First(n, S)) /\ Cardinality(First(n, S)) <= n
<1> DEFINE F == First(n, S)
           Before(e) == {x \in S : x < e}
           f == [e \in F |-> Cardinality(Before(e))]
<1>0. F \subseteq S /\ F \subseteq Nat
  BY DEF First
<1>1. \A e \in F : Cardinality(Before(e)) < n
  BY DEF First
<1>2. ASSUME NEW e PROVE IsFiniteSet(Before(e)) /\ Cardinality(Before(e)) \in Nat
  <2>1. Before(e) \in SUBSET S
    OBVIOUS
  <2> HIDE DEF Before
  <2> QED
    BY <2>1, FS_Subset, FS_CardinalityType
<1>3. ASSUME NEW a \in F, NEW b \in F, a < b PROVE f[a] < f[b]
  <2>0. a \in S /\ a \in Nat /\ b \in Nat
    BY <1>0
  <2>1. Before(a) \cup {a} \in SUBSET Before(b) /\ a \notin Before(a)
    <3>1. /\ ~ (a < a)
          /\ \A x \in S : x < a => x < b
      BY <1>3, <2>0
    <3> QED
      BY <1>3, <2>0, <3>1
  <2>2. f[a] = Cardinality(Before(a)) /\ f[b] = Cardinality(Before(b))
    OBVIOUS
  <2> HIDE DEF Before, f
  <2>3. IsFiniteSet(Before(b)) /\ Cardinality(Before(a)) \in Nat /\ Cardinality(Before(b)) \in Nat
    BY <1>2
  <2>4. Cardinality(Before(a) \cup {a}) = Cardinality(Before(a)) + 1
    BY <1>2, <2>1, FS_AddElement
  <2>5. Cardinality(Before(a) \cup {a}) <= Cardinality(Before(b))
    BY <2>1, <2>3, FS_Subset
  <2> QED
    BY <2>2, <2>3, <2>4, <2>5
<1>4. f \in [F -> 0 .. n - 1]
  <2> SUFFICES ASSUME NEW e \in F PROVE Cardinality(Before(e)) \in 0 .. n - 1
    OBVIOUS
  <2>1. Cardinality(Before(e)) \in Nat /\ Cardinality(Before(e)) < n
    BY <1>1, <1>2
  <2> HIDE DEF Before
  <2> QED
    BY <2>1
<1>5. \A a, b \in F : f[a] = f[b] => a = b
  <2> SUFFICES ASSUME NEW a \in F, NEW b \in F, a # b PROVE f[a] # f[b]
    OBVIOUS
  <2>1. a < b \/ b < a
    BY <1>0
  <2> HIDE DEF f, F
  <2>2. f[a] \in Nat /\ f[b] \in Nat
    BY <1>4
  <2> QED
    BY <1>3, <2>1, <2>2
<1> HIDE DEF f
<1>6. f \in Injection(F, 0 .. n - 1)
  BY <1>4, <1>5 DEF Injection, IsInjective
<1>7. IsFiniteSet(0 .. n - 1) /\ Cardinality(0 .. n - 1) = n
  BY FS_Interval
<1> QED
  BY <1>6, <1>7, FS_Injection

LEMMA HeldFinite ==
    ASSUME Inv, BatchInv, NEW w \in Workers
    PROVE  IsFiniteSet(Held(w)) /\ Cardinality(Held(w)) \in Nat
<1>1. Held(w) \subseteq inserted
  BY DEF Held, Inv, WorkerInv
<1> QED
  BY <1>1, FS_Subset, FS_CardinalityType DEF BatchInv

LEMMA BatchFetched ==
    ASSUME Inv, BatchInv, NEW w \in Workers, Fetch(w)
    PROVE  Cardinality(Held(w)') <= BatchSize
<1>1. claim'[w] = [e \in Events |-> IF e \in Fetched THEN attempts[e] + 1 ELSE 0]
  BY DEF Fetch, Inv, WorkerInv
<1>2. \A e \in Events : attempts[e] + 1 > 0
  BY DEF Inv, TableInv
<1>3. Fetched \subseteq Events
  BY FetchedInserted DEF Inv, TableInv
<1>4. Held(w)' = Fetched
  BY <1>1, <1>2, <1>3 DEF Held
<1>5. Eligible \in SUBSET Nat /\ IsFiniteSet(Eligible)
  BY OutboxAssumption, FS_Subset DEF Eligible, BatchInv, Inv, TableInv
<1> QED
  BY <1>4, <1>5, FirstFits, OutboxAssumption DEF Fetched

\* Leaving an event takes it, and nothing else, off the batch.
LEMMA BatchLeft ==
    ASSUME Inv, BatchInv, NEW w \in Workers, at[w] \in Busy, NEW counted, Leave(w, counted)
    PROVE  /\ Cardinality(Held(w)') = Cardinality(Held(w)) - 1
           /\ at'[w] = "next"
<1>1. current[w] \in Held(w)
  BY DEF Held, Inv, WorkerInv
<1>2. \A e \in Events : claim'[w][e] = IF e = current[w] THEN 0 ELSE claim[w][e]
  BY DEF Leave, Inv, WorkerInv
<1>3. Held(w)' = Held(w) \ {current[w]}
  BY <1>2 DEF Held
<1>4. at'[w] = "next"
  BY DEF Leave, Goto, Inv, WorkerInv
<1> QED
  BY <1>1, <1>3, <1>4, HeldFinite, FS_RemoveElement

LEMMA OthersHold ==
    ASSUME Inv, NEW w \in Workers,
           \E counted : Fetch(w) \/ Leave(w, counted) \/ Start(w)
    PROVE  \A v \in Workers : v # w => at'[v] = at[v] /\ claim'[v] = claim[v]
  BY DEF Inv, WorkerInv, Fetch, Leave, Start, Goto

LEMMA BatchInvInit == Init => BatchInv
<1> SUFFICES ASSUME Init PROVE BatchInv
  OBVIOUS
<1>1. \A w \in Workers : Held(w) = {}
  BY DEF Init, Held
<1> QED
  BY <1>1, FS_EmptySet, OutboxAssumption DEF Init, BatchInv, BatchesFit

LEMMA BatchInvNext == Inv /\ BatchInv /\ [Next]_vars => BatchInv'
<1> SUFFICES ASSUME Inv, BatchInv, [Next]_vars PROVE BatchInv'
  OBVIOUS
<1>0. /\ at \in [Workers -> WorkerStates] /\ claim \in [Workers -> [Events -> Nat]]
      /\ IsFiniteSet(inserted) /\ BatchesFit /\ \A w \in Workers : Cardinality(Held(w)) \in Nat
  BY HeldFinite DEF Inv, WorkerInv, BatchInv
<1>1. IsFiniteSet(inserted')
  <2>1. ASSUME NEW e \in Events, InsertOutboxEvent(e) PROVE IsFiniteSet(inserted')
    BY <1>0, <2>1, FS_AddElement DEF InsertOutboxEvent
  <2>2. ASSUME ~ (\E e \in Events : InsertOutboxEvent(e)) PROVE inserted' = inserted
    BY <2>2 DEF Next, vars, rows, Unlock, RunLate, Run, FetchUnprocessed, MarkProcessed,
                MarkFailed, Release, WorkerStep, Fetch, FetchFails, ProcessEvent, DelSucceeds,
                DelFails, MarkSucceeds, MarkFails, ReleaseOrFail, RejectUnsupported, EndBatch,
                Wait, Answered, Unanswered, Cancel, Crash, Start
  <2> QED
    BY <1>0, <2>1, <2>2
<1> DEFINE Fits(w) == /\ Cardinality(Held(w)) <= BatchSize
                      /\ at[w] \in {"fetch", "wait", "stopped"} => Held(w) = {}
           Same(w) == /\ claim'[w] = claim[w]
                      /\ at'[w] \in {"fetch", "wait", "stopped"} =>
                            at[w] \in {"fetch", "wait", "stopped"} \/ Held(w) = {}
<1>2. ASSUME NEW w \in Workers, Same(w) PROVE Fits(w)'
  <2>1. Held(w)' = Held(w)
    BY <1>2 DEF Held
  <2> QED
    BY <1>0, <1>2, <2>1 DEF BatchesFit
<1>3. ASSUME NEW w \in Workers, Fetch(w) PROVE \A v \in Workers : Fits(v)'
  <2>1. \A v \in Workers : v # w => Same(v)
    BY <1>3, OthersHold
  <2>2. Fits(w)'
    BY <1>0, <1>3, BatchFetched DEF Fetch, Goto
  <2> QED
    BY <1>2, <2>1, <2>2
<1>4. ASSUME NEW w \in Workers, NEW counted, at[w] \in Busy, Leave(w, counted)
      PROVE  \A v \in Workers : Fits(v)'
  <2>1. \A v \in Workers : v # w => Same(v)
    BY <1>4, OthersHold
  <2>2. Fits(w)'
    <3>1. Cardinality(Held(w)') = Cardinality(Held(w)) - 1 /\ at'[w] = "next"
      BY <1>4, BatchLeft
    <3> QED
      BY <1>0, <3>1, OutboxAssumption DEF BatchesFit
  <2> QED
    BY <1>2, <2>1, <2>2
<1>5. ASSUME NEW w \in Workers, Start(w) PROVE \A v \in Workers : Fits(v)'
  <2>1. \A v \in Workers : v # w => Same(v)
    BY <1>5, OthersHold
  <2>2. Held(w)' = {}
    BY <1>0, <1>5 DEF Start, Held
  <2> QED
    BY <1>2, <2>1, <2>2, FS_EmptySet, OutboxAssumption
<1>6. ASSUME UNCHANGED <<at, claim>> PROVE \A v \in Workers : Same(v)
  BY <1>6
<1>7. ASSUME NEW w \in Workers, NEW state, Goto(w, state), UNCHANGED claim,
             state \in {"fetch", "wait", "stopped"} =>
                at[w] \in {"fetch", "wait", "stopped"} \/ Held(w) = {}
      PROVE  \A v \in Workers : Same(v)
  BY <1>0, <1>7 DEF Goto
<1>8. ASSUME NEW w \in Workers, FetchFails(w) \/ ProcessEvent(w) \/ DelSucceeds(w) \/ DelFails(w)
      PROVE  \A v \in Workers : Same(v)
  BY <1>0, <1>8 DEF FetchFails, ProcessEvent, DelSucceeds, DelFails, Goto, batch
<1>9. ASSUME NEW w \in Workers, MarkFails(w) \/ EndBatch(w) \/ Wait(w) \/ Cancel(w) \/ Crash(w)
      PROVE  \A v \in Workers : Same(v)
  <2>1. EndBatch(w) => Held(w) = {}
    BY <1>0 DEF EndBatch, Held
  <2> QED
    BY <1>0, <1>9, <2>1 DEF MarkFails, EndBatch, Wait, Cancel, Crash, Goto, batch
<1>10. ASSUME NEW w \in Workers, MarkSucceeds(w) \/ ReleaseOrFail(w) \/ RejectUnsupported(w)
       PROVE  at[w] \in Busy /\ \E counted \in BOOLEAN : Leave(w, counted)
  BY <1>10 DEF MarkSucceeds, ReleaseOrFail, RejectUnsupported, Busy
<1>11. ASSUME \/ \E e \in Events : InsertOutboxEvent(e) \/ Unlock(e)
              \/ RunLate \/ UNCHANGED vars
       PROVE  UNCHANGED <<at, claim>>
  BY <1>11 DEF InsertOutboxEvent, Unlock, RunLate, vars, batch
<1> HIDE DEF Fits, Same
<1>12. \A v \in Workers : Fits(v)'
  BY <1>2, <1>3, <1>4, <1>5, <1>6, <1>8, <1>9, <1>10, <1>11 DEF Next, WorkerStep
<1> QED
  BY <1>1, <1>12 DEF Fits, BatchInv, BatchesFit

LEMMA BatchInvAlways == Spec => []BatchInv
  BY InvAlways, BatchInvInit, BatchInvNext, PTL DEF Spec

\* A worker never holds more than outboxBatchSize events, and none between batches.
THEOREM BatchesAreBounded == Spec => []BatchesFit
<1>1. BatchInv => BatchesFit
  BY DEF BatchInv
<1> QED
  BY <1>1, BatchInvAlways, PTL

LEMMA StepsDecrease ==
    ASSUME Inv, BatchInv, NEW w \in Workers, WorkerStep(w),
           at[w] # "fetch" \/ w \in cancelled
    PROVE  StepsLeft(w)' < StepsLeft(w)
<1>0. /\ at \in [Workers -> WorkerStates] /\ claim \in [Workers -> [Events -> Nat]]
      /\ Cardinality(Held(w)) \in Nat
  BY HeldFinite DEF Inv, WorkerInv
<1>1. CASE Fetch(w) \/ FetchFails(w)
  BY <1>0, <1>1 DEF Fetch, FetchFails, Answered, Goto, StepsLeft
<1>2. ASSUME claim' = claim PROVE Held(w)' = Held(w)
  BY <1>2 DEF Held
<1>3. CASE ProcessEvent(w) \/ DelSucceeds(w) \/ DelFails(w) \/ MarkFails(w)
  <2>1. Held(w)' = Held(w)
    BY <1>2, <1>3 DEF ProcessEvent, DelSucceeds, DelFails, MarkFails, batch
  <2>2. \/ at[w] = "next" /\ at'[w] \in {"del", "unsupported"}
        \/ at[w] = "del" /\ at'[w] \in {"mark", "cleanup"}
        \/ at[w] = "mark" /\ at'[w] = "cleanup"
    BY <1>0, <1>3 DEF ProcessEvent, DelSucceeds, DelFails, MarkFails, Goto
  <2> QED
    BY <1>0, <2>1, <2>2 DEF StepsLeft
<1>4. CASE MarkSucceeds(w) \/ ReleaseOrFail(w) \/ RejectUnsupported(w)
  <2>1. at[w] \in Busy /\ \E counted \in BOOLEAN : Leave(w, counted)
    BY <1>4 DEF MarkSucceeds, ReleaseOrFail, RejectUnsupported, Busy
  <2>2. Cardinality(Held(w)') = Cardinality(Held(w)) - 1 /\ at'[w] = "next"
    BY <2>1, BatchLeft
  <2>3. at[w] \in {"mark", "cleanup", "unsupported"}
    BY <1>4 DEF MarkSucceeds, ReleaseOrFail, RejectUnsupported
  <2> QED
    BY <1>0, <2>2, <2>3 DEF StepsLeft
<1>5. CASE EndBatch(w) \/ Wait(w)
  <2>1. \/ at[w] = "next" /\ at'[w] \in {"fetch", "wait"}
        \/ at[w] = "wait" /\ at'[w] \in {"fetch", "stopped"}
    BY <1>0, <1>5 DEF EndBatch, Wait, Goto
  <2> QED
    BY <1>0, <2>1 DEF StepsLeft
<1> QED
  BY <1>1, <1>3, <1>4, <1>5 DEF WorkerStep

\* A batch is done after at most 4 steps for each of its events and one more, and a
\* cancelled worker has stopped two steps later, whatever fails meanwhile.
THEOREM BatchesComeToAnEnd == Spec => BatchesEnd
<1>1. Inv /\ BatchInv /\ [Next]_vars =>
        \A w \in Workers :
            WorkerStep(w) /\ (at[w] # "fetch" \/ w \in cancelled) =>
                StepsLeft(w)' < StepsLeft(w)
  BY StepsDecrease
<1> QED
  BY <1>1, InvAlways, BatchInvAlways, PTL DEF Spec, BatchesEnd

=============================================================================
