--------------------------- MODULE VideoTxProofs ---------------------------
(***************************************************************************)
(* Proofs about VideoTx: no view is lost, and the handlers, the pool and   *)
(* the database together implement ViewCounter.  The last part shows that  *)
(* requests never wait in a circle, through connections and row locks, and *)
(* that each has a bounded number of steps.                                *)
(***************************************************************************)
EXTENDS VideoTx, FiniteSetTheorems, TLAPS

\* What the transaction of a request is, by where its client and its server are.
Stage(r) ==
    /\ tx[r] \in {"updated", "commit"} =>
        /\ target[r] \in Videos
        /\ lockedBy[target[r]] = r
        /\ counted[r] = views[target[r]] + 1
    /\ tx[r] = "committed" => target[r] \in Videos /\ counted[r] > 0
    /\ tx[r] = "empty" => target[r] \notin Videos
    /\ at[r] \in {"idle", "arrived"} => tx[r] = "none"
    /\ at[r] = "increment" => tx[r] \in {"update", "updated", "empty", "aborted"}
    /\ at[r] = "read" => tx[r] \in {"updated", "aborted"}
    /\ at[r] = "commit" => tx[r] \in {"commit", "committed", "aborted"}
    /\ at[r] = "norows" => target[r] \notin Videos
    /\ at[r] \in {"norows", "rollback"} => tx[r] \in {"empty", "aborted"}
    /\ at[r] = "invalidate" => tx[r] = "committed"
    /\ at[r] \in {"commit", "invalidate"} /\ tx[r] \in {"commit", "committed"} => shown[r] = counted[r]
    /\ at[r] # "select"
    /\ status[r] = 200 => tx[r] = "committed" /\ shown[r] = counted[r]
    /\ status[r] \in Refusals => tx[r] = "none" \/ target[r] \notin Videos

GetStage(g) == at[g] \in {"idle", "arrived", "select", "done"}

Inv ==
    /\ TypeOK
    /\ \A r \in ViewRequests : Stage(r)
    /\ \A g \in GetRequests : GetStage(g)
    /\ NoLostViews

\* The transactions before any request arrived.
LEMMA InitInv == Init => Inv
<1> SUFFICES ASSUME Init PROVE Inv
  OBVIOUS
<1> USE VideoTxAssumption DEF Init
<1>1. TypeOK
  BY DEF TypeOK, Requests, Targets, AtStates, TxStates, Refusals
<1>2. ASSUME NEW r \in ViewRequests PROVE Stage(r)
  BY DEF Stage, Requests, Refusals
<1>3. ASSUME NEW g \in GetRequests PROVE GetStage(g)
  BY DEF GetStage, Requests
<1>4. NoLostViews
  <2>1. \A v \in Videos : CountedFor(v) = {}
    BY DEF CountedFor
  <2> QED
    BY <2>1 DEF NoLostViews
<1> QED
  BY <1>1, <1>2, <1>3, <1>4 DEF Inv

\* The numbers stay as they are while no transaction commits.
LEMMA KeepsNumbers ==
    ASSUME NoLostViews, views' = views, events' = events, target' = target,
           \A q \in ViewRequests :
               /\ tx'[q] = "committed" <=> tx[q] = "committed"
               /\ tx[q] = "committed" => counted'[q] = counted[q]
    PROVE  NoLostViews'
<1>1. ASSUME NEW v \in Videos
      PROVE  /\ CountedFor(v)' = CountedFor(v)
             /\ \A q \in CountedFor(v) : counted'[q] = counted[q]
  BY DEF CountedFor
<1>2. \A v \in Videos : {counted[r] : r \in CountedFor(v)}' = {counted[r] : r \in CountedFor(v)}
  BY <1>1
<1> QED
  BY <1>1, <1>2 DEF NoLostViews

\* A commit counts the next number.
LEMMA CommitCounts ==
    ASSUME Inv, NEW r \in ViewRequests, Commit(r)
    PROVE  NoLostViews'
<1>0. PICK v \in Videos : v = target[r]
  BY DEF Inv, Stage, Commit
<1>1. /\ v \in Videos /\ counted[r] = views[v] + 1
      /\ views[v] \in Nat
      /\ r \notin CountedFor(v)
  BY <1>0 DEF Inv, TypeOK, Stage, Commit, CountedFor
<1>2. /\ views' = [views EXCEPT ![v] = counted[r]]
      /\ counted' = counted /\ target' = target
      /\ events' = events \cup {r}
      /\ tx' = [tx EXCEPT ![r] = "committed"]
      /\ tx \in [ViewRequests -> TxStates]
      /\ views \in [Videos -> Nat]
  BY <1>0 DEF Commit, Become, Inv, TypeOK
<1>3. events' = {q \in ViewRequests : tx'[q] = "committed"}
  BY <1>2 DEF Inv, NoLostViews
<1>4. CountedFor(v)' = CountedFor(v) \cup {r}
  BY <1>0, <1>1, <1>2 DEF CountedFor
<1>5. \A w \in Videos \ {v} : CountedFor(w)' = CountedFor(w)
  BY <1>0, <1>2 DEF CountedFor
<1>6. {counted[q] : q \in CountedFor(v)} = 1 .. views[v]
  BY <1>1 DEF Inv, NoLostViews
<1>7. {counted[q] : q \in CountedFor(v)}' = 1 .. views'[v]
  <2>1. {counted[q] : q \in CountedFor(v)}' = {counted[q] : q \in CountedFor(v)} \cup {counted[r]}
    BY <1>2, <1>4
  <2>2. views'[v] = views[v] + 1
    BY <1>1, <1>2
  <2> QED
    BY <1>1, <1>6, <2>1, <2>2
<1>8. \A p, q \in CountedFor(v)' : p # q => counted'[p] # counted'[q]
  <2>1. \A q \in CountedFor(v) : counted[q] \in 1 .. views[v]
    BY <1>6
  <2>2. \A q \in CountedFor(v) : counted[q] # counted[r]
    BY <2>1, <1>1
  <2>3. \A p, q \in CountedFor(v) : p # q => counted[p] # counted[q]
    BY <1>1 DEF Inv, NoLostViews
  <2> QED
    BY <1>2, <1>4, <2>2, <2>3
<1>9. ASSUME NEW w \in Videos \ {v}
      PROVE  /\ {counted[q] : q \in CountedFor(w)}' = 1 .. views'[w]
             /\ \A p, q \in CountedFor(w)' : p # q => counted'[p] # counted'[q]
  <2>1. views'[w] = views[w]
    BY <1>2
  <2>2. {counted[q] : q \in CountedFor(w)}' = {counted[q] : q \in CountedFor(w)}
    BY <1>2, <1>5
  <2> QED
    BY <1>2, <1>5, <2>1, <2>2 DEF Inv, NoLostViews
<1>10. ASSUME NEW w \in Videos
       PROVE  /\ {counted[q] : q \in CountedFor(w)}' = 1 .. views'[w]
              /\ \A p, q \in CountedFor(w)' : p # q => counted'[p] # counted'[q]
  <2>1. CASE w = v
    BY <2>1, <1>7, <1>8
  <2>2. CASE w # v
    BY <2>2, <1>9
  <2> QED
    BY <2>1, <2>2
<1> QED
  BY <1>3, <1>10 DEF NoLostViews

\* A step of the client of r that leaves the server alone.
LEMMA ClientStep ==
    ASSUME Inv, NEW r \in ViewRequests,
           \/ LimitExceeded(r) \/ BindFails(r) \/ BeginFails(r) \/ Incremented(r) \/ NoRows(r)
           \/ StatementFails(r) \/ Committed(r) \/ Invalidate(r) \/ TimesOut(r)
    PROVE  Inv'
<1> USE VideoTxAssumption DEF server, Goto, Reply, Release
<1>1. r \in Requests /\ UNCHANGED <<views, events, lockedBy, tx, counted, target, shown, earlier>>
  BY DEF Requests, LimitExceeded, BindFails, BeginFails, Incremented, NoRows, StatementFails,
         Committed, Invalidate, TimesOut
<1>2. TypeOK'
  BY <1>1 DEF Inv, TypeOK, AtStates, Refusals, LimitExceeded, BindFails, BeginFails,
         Incremented, NoRows, StatementFails, Committed, Invalidate, TimesOut
<1>3. Stage(r)'
  BY <1>1 DEF Inv, TypeOK, Stage, Refusals, Targets, LimitExceeded, BindFails, BeginFails, Incremented,
         NoRows, StatementFails, Committed, Invalidate, TimesOut
<1>4. \A q \in Requests \ {r} : at'[q] = at[q] /\ status'[q] = status[q]
  BY DEF Inv, TypeOK, LimitExceeded, BindFails, BeginFails, Incremented, NoRows,
         StatementFails, Committed, Invalidate, TimesOut
<1>5. ASSUME NEW q \in ViewRequests \ {r} PROVE Stage(q)'
  BY <1>1, <1>4 DEF Inv, Stage, Requests
<1>6. ASSUME NEW g \in GetRequests PROVE GetStage(g)'
  BY <1>4 DEF Inv, GetStage, Requests
<1>7. NoLostViews'
  BY <1>1, KeepsNumbers DEF Inv
<1> QED
  BY <1>2, <1>3, <1>5, <1>6, <1>7 DEF Inv

\* A step of a GET, or the arrival of a request.
LEMMA OtherStep ==
    ASSUME Inv, NEW r \in Requests, Arrive(r) \/ (r \in GetRequests /\ GetStep(r))
    PROVE  Inv'
<1> USE VideoTxAssumption DEF server, Goto, Reply, Release, GetStep
<1>1. UNCHANGED <<views, events, lockedBy, tx, counted, target>>
  BY DEF Arrive, BindFails, Query, VideoSelected, NothingSelected, GetFails
<1>2. TypeOK'
  <2>1. CASE Arrive(r)
    BY <1>1, <2>1 DEF Inv, TypeOK, AtStates, Arrive
  <2>2. CASE r \in GetRequests /\ GetStep(r)
    BY <1>1, <2>2 DEF Inv, TypeOK, AtStates, Refusals, Acquire, Requests, BindFails, Query,
           VideoSelected, NothingSelected, GetFails
  <2> QED
    BY <2>1, <2>2
<1>3. \A q \in Requests \ {r} : at'[q] = at[q] /\ status'[q] = status[q] /\ shown'[q] = shown[q]
  BY DEF Inv, TypeOK, Arrive, BindFails, Query, VideoSelected, NothingSelected, GetFails
<1>4. ASSUME NEW q \in ViewRequests PROVE Stage(q)'
  <2>1. CASE q = r
    BY <2>1, <1>1 DEF Inv, TypeOK, Stage, Arrive
  <2>2. CASE q # r
    BY <2>2, <1>1, <1>3 DEF Inv, Stage, Requests
  <2> QED
    BY <2>1, <2>2
<1>5. ASSUME NEW g \in GetRequests PROVE GetStage(g)'
  <2>1. CASE g = r
    BY <2>1 DEF Inv, TypeOK, GetStage, Arrive, BindFails, Query, VideoSelected,
           NothingSelected, GetFails
  <2>2. CASE g # r
    BY <2>2, <1>3 DEF Inv, GetStage, Requests
  <2> QED
    BY <2>1, <2>2
<1>6. NoLostViews'
  BY <1>1, KeepsNumbers DEF Inv
<1> QED
  BY <1>2, <1>4, <1>5, <1>6 DEF Inv

\* A step that changes the transaction of r.
LEMMA TransactionStep ==
    ASSUME Inv, NEW r \in ViewRequests,
           BeginTx(r) \/ ReadIncremented(r) \/ Rollback(r) \/ ServerStep(r)
    PROVE  Inv'
<1> USE VideoTxAssumption DEF Goto, Become, Reply, Release, ServerStep
<1>1. /\ r \in Requests /\ r # None
      /\ target' = target
      /\ \A q \in ViewRequests \ {r} :
          /\ tx'[q] = tx[q] /\ counted'[q] = counted[q]
          /\ at'[q] = at[q] /\ status'[q] = status[q] /\ shown'[q] = shown[q]
  BY DEF Inv, TypeOK, Requests, BeginTx, ReadIncremented, Rollback, Update, UpdateEmpty, Commit,
         Abort
<1>2. CASE BeginTx(r)
  <2>1. TypeOK'
    BY <1>1, <1>2 DEF Inv, TypeOK, Stage, AtStates, TxStates, BeginTx, Acquire
  <2>2. Stage(r)'
    BY <1>1, <1>2 DEF Inv, TypeOK, Stage, Refusals, BeginTx
  <2>3. ASSUME NEW q \in ViewRequests \ {r} PROVE Stage(q)'
    BY <1>1, <1>2 DEF Inv, Stage, BeginTx
  <2>4. ASSUME NEW g \in GetRequests PROVE GetStage(g)'
    BY <1>2 DEF Inv, TypeOK, GetStage, Requests, BeginTx
  <2>5. NoLostViews'
    BY <1>1, <1>2, KeepsNumbers DEF Inv, TypeOK, Stage, BeginTx
  <2> QED
    BY <2>1, <2>2, <2>3, <2>4, <2>5 DEF Inv
<1>3. CASE ReadIncremented(r)
  <2>1. target[r] \in Videos /\ RowSeen(r) = counted[r] /\ counted[r] \in Nat
    BY <1>3 DEF Inv, TypeOK, Stage, ReadIncremented, RowSeen
  <2>2. TypeOK'
    BY <1>1, <1>3, <2>1 DEF Inv, TypeOK, AtStates, TxStates, ReadIncremented
  <2>3. Stage(r)'
    BY <1>1, <1>3, <2>1 DEF Inv, TypeOK, Stage, Refusals, ReadIncremented
  <2>4. ASSUME NEW q \in ViewRequests \ {r} PROVE Stage(q)'
    BY <1>1, <1>3 DEF Inv, Stage, ReadIncremented
  <2>5. ASSUME NEW g \in GetRequests PROVE GetStage(g)'
    BY <1>3 DEF Inv, TypeOK, GetStage, Requests, ReadIncremented
  <2>6. NoLostViews'
    BY <1>1, <1>3, KeepsNumbers DEF Inv, TypeOK, ReadIncremented
  <2> QED
    BY <2>2, <2>3, <2>4, <2>5, <2>6 DEF Inv
<1>4. CASE Rollback(r)
  <2>1. TypeOK'
    BY <1>1, <1>4 DEF Inv, TypeOK, Stage, AtStates, TxStates, Refusals, Rollback
  <2>2. Stage(r)'
    BY <1>1, <1>4 DEF Inv, TypeOK, Stage, Refusals, Rollback
  <2>3. ASSUME NEW q \in ViewRequests \ {r} PROVE Stage(q)'
    BY <1>1, <1>4 DEF Inv, Stage, Rollback
  <2>4. ASSUME NEW g \in GetRequests PROVE GetStage(g)'
    BY <1>4 DEF Inv, TypeOK, GetStage, Requests, Rollback
  <2>5. NoLostViews'
    BY <1>1, <1>4, KeepsNumbers DEF Inv, TypeOK, Stage, Rollback
  <2> QED
    BY <2>1, <2>2, <2>3, <2>4, <2>5 DEF Inv
<1>5. CASE Update(r) \/ UpdateEmpty(r)
  <2>1. TypeOK'
    BY <1>1, <1>5 DEF Inv, TypeOK, TxStates, Update, UpdateEmpty
  <2>2. Stage(r)'
    BY <1>1, <1>5 DEF Inv, TypeOK, Stage, Refusals, Update, UpdateEmpty
  <2>3. ASSUME NEW q \in ViewRequests \ {r} PROVE Stage(q)'
    <3>1. tx[q] \in {"updated", "commit"} => lockedBy'[target[q]] = q
      BY <1>1, <1>5 DEF Inv, TypeOK, Stage, Update, UpdateEmpty
    <3> QED
      BY <3>1, <1>1, <1>5 DEF Inv, Stage, Update, UpdateEmpty
  <2>4. ASSUME NEW g \in GetRequests PROVE GetStage(g)'
    BY <1>5 DEF Inv, TypeOK, GetStage, Requests, Update, UpdateEmpty
  <2>5. NoLostViews'
    BY <1>1, <1>5, KeepsNumbers DEF Inv, TypeOK, Update, UpdateEmpty
  <2> QED
    BY <2>1, <2>2, <2>3, <2>4, <2>5 DEF Inv
<1>6. CASE Commit(r)
  <2>1. TypeOK'
    BY <1>1, <1>6 DEF Inv, TypeOK, TxStates, Commit, Unlock
  <2>2. Stage(r)'
    BY <1>1, <1>6 DEF Inv, TypeOK, Stage, Refusals, Commit, Unlock
  <2>3. ASSUME NEW q \in ViewRequests \ {r} PROVE Stage(q)'
    <3>1. tx[q] \in {"updated", "commit"} =>
              target[q] # target[r] /\ lockedBy'[target[q]] = q /\ views'[target[q]] = views[target[q]]
      BY <1>1, <1>6 DEF Inv, TypeOK, Stage, Commit, Unlock
    <3> QED
      BY <3>1, <1>1, <1>6 DEF Inv, Stage, Commit
  <2>4. ASSUME NEW g \in GetRequests PROVE GetStage(g)'
    BY <1>6 DEF Inv, TypeOK, GetStage, Requests, Commit
  <2>5. NoLostViews'
    BY <1>6, CommitCounts
  <2> QED
    BY <2>1, <2>2, <2>3, <2>4, <2>5 DEF Inv
<1>7. CASE Abort(r)
  <2>1. TypeOK'
    BY <1>1, <1>7 DEF Inv, TypeOK, TxStates, Abort, Unlock
  <2>2. Stage(r)'
    BY <1>1, <1>7 DEF Inv, TypeOK, Stage, Refusals, Abort, Unlock
  <2>3. ASSUME NEW q \in ViewRequests \ {r} PROVE Stage(q)'
    <3>1. tx[q] \in {"updated", "commit"} => lockedBy'[target[q]] = q
      BY <1>1, <1>7 DEF Inv, TypeOK, Stage, Abort, Unlock
    <3> QED
      BY <3>1, <1>1, <1>7 DEF Inv, Stage, Abort
  <2>4. ASSUME NEW g \in GetRequests PROVE GetStage(g)'
    BY <1>7 DEF Inv, TypeOK, GetStage, Requests, Abort
  <2>5. NoLostViews'
    BY <1>1, <1>7, KeepsNumbers DEF Inv, TypeOK, Abort
  <2> QED
    BY <2>1, <2>2, <2>3, <2>4, <2>5 DEF Inv
<1> QED
  BY <1>2, <1>3, <1>4, <1>5, <1>6, <1>7

\* The invariant is inductive.
LEMMA NextInv == Inv /\ [Next]_vars => Inv'
<1> SUFFICES ASSUME Inv, [Next]_vars PROVE Inv'
  OBVIOUS
<1>1. CASE UNCHANGED vars
  BY <1>1 DEF Inv, vars, server, TypeOK, Stage, GetStage, NoLostViews, CountedFor
<1>2. ASSUME NEW r \in Requests, Arrive(r) PROVE Inv'
  <2>1. Arrive(r) \/ (r \in GetRequests /\ GetStep(r))
    BY <1>2
  <2> HIDE <1>2
  <2> QED
    BY <2>1, OtherStep
<1>3. ASSUME NEW r \in ViewRequests, ViewStep(r) \/ ServerStep(r) PROVE Inv'
  BY <1>3, ClientStep, TransactionStep DEF ViewStep
<1>4. ASSUME NEW r \in GetRequests, GetStep(r) PROVE Inv'
  BY <1>4, OtherStep DEF Requests
<1> QED
  BY <1>1, <1>2, <1>3, <1>4 DEF Next

THEOREM InvHolds == Spec => []Inv
<1> QED
  BY InitInv, NextInv, PTL DEF Spec

\* The type invariant.
THEOREM TypeCorrect == Spec => []TypeOK
<1>1. Inv => TypeOK
  BY DEF Inv
<1> QED
  BY <1>1, InvHolds, PTL

\* The views of a video are the committed increments, each counted once, for any
\* number of requests, videos and connections.
THEOREM NoViewLost == Spec => []NoLostViews
<1>1. Inv => NoLostViews
  BY DEF Inv
<1> QED
  BY <1>1, InvHolds, PTL

\* A request that was refused counts no view, whatever of it still runs.
THEOREM RefusalsSound == Spec => []RefusalsHaveNoEffect
<1>1. Inv => RefusalsHaveNoEffect
  BY DEF Inv, Stage, RefusalsHaveNoEffect
<1> QED
  BY <1>1, InvHolds, PTL

-----------------------------------------------------------------------------
(* The order of the answers and the connections                            *)

Holding == {"increment", "read", "commit", "norows", "rollback", "select"}

\* An answer is never ahead of the views; who arrived after an answer counts beyond it.
Ordered ==
    /\ \A q \in Requests : status[q] = 200 =>
        target[q] \in Videos /\ shown[q] <= views[target[q]]
    /\ \A r \in Requests, q \in Requests : q \in earlier[r] => at[q] = "done"
    /\ \A r \in ViewRequests, q \in Requests :
        q \in earlier[r] /\ status[q] = 200 /\ target[q] = target[r]
            /\ tx[r] \in {"updated", "commit", "committed"} => shown[q] < counted[r]
    /\ AnswersInOrder
    /\ \A r \in Requests : r \in held => at[r] \in Holding

LEMMA InitOrdered == Init => Ordered
<1> QED
  BY DEF Init, Ordered, AnswersInOrder, Requests

\* The views of a video never shrink.
LEMMA ViewsGrow == Inv /\ [Next]_vars => \A v \in Videos : views'[v] >= views[v]
<1> SUFFICES ASSUME Inv, [Next]_vars, NEW v \in Videos PROVE views'[v] >= views[v]
  OBVIOUS
<1>1. CASE \E r \in ViewRequests : Commit(r)
  BY <1>1 DEF Inv, TypeOK, Stage, Commit
<1>2. CASE UNCHANGED views
  BY <1>2 DEF Inv, TypeOK
<1>3. UNCHANGED views \/ \E r \in ViewRequests : Commit(r)
  BY DEF Next, vars, server, Arrive, ViewStep, ServerStep, GetStep, LimitExceeded, BindFails,
         BeginTx, BeginFails, Incremented, NoRows, StatementFails, ReadIncremented, Committed,
         Invalidate, Rollback, TimesOut, Update, UpdateEmpty, Abort, Query, VideoSelected,
         NothingSelected, GetFails
<1> QED
  BY <1>1, <1>2, <1>3

\* A step of r leaves the other requests and their answers alone.
LEMMA Elsewhere ==
    ASSUME Inv, NEW r \in Requests,
           \/ Arrive(r)
           \/ r \in ViewRequests /\ (ViewStep(r) \/ ServerStep(r))
           \/ r \in GetRequests /\ GetStep(r)
    PROVE  /\ target' = target
           /\ \A q \in Requests \ {r} :
                /\ at'[q] = at[q] /\ status'[q] = status[q] /\ shown'[q] = shown[q]
                /\ earlier'[q] = earlier[q] /\ (q \in held' => q \in held)
           /\ \A q \in ViewRequests \ {r} : tx'[q] = tx[q] /\ counted'[q] = counted[q]
<1> USE DEF Inv, TypeOK, server, Goto, Become, Reply, Release, Acquire
<1>1. CASE Arrive(r)
  BY <1>1 DEF Arrive
<1>2. CASE r \in ViewRequests /\ ViewStep(r)
  BY <1>2 DEF ViewStep, LimitExceeded, BindFails, BeginTx, BeginFails, Incremented, NoRows,
         StatementFails, ReadIncremented, Committed, Invalidate, Rollback, TimesOut
<1>3. CASE r \in ViewRequests /\ ServerStep(r)
  BY <1>3 DEF ServerStep, Update, UpdateEmpty, Commit, Abort
<1>4. CASE r \in GetRequests /\ GetStep(r)
  BY <1>4 DEF GetStep, BindFails, Query, VideoSelected, NothingSelected, GetFails
<1> QED
  BY <1>1, <1>2, <1>3, <1>4

\* What a step of r does to r itself.
LEMMA OwnStep ==
    ASSUME Inv, Ordered, NEW r \in Requests,
           \/ Arrive(r)
           \/ r \in ViewRequests /\ (ViewStep(r) \/ ServerStep(r))
           \/ r \in GetRequests /\ GetStep(r)
    PROVE  /\ at[r] = "done" =>
                at'[r] = "done" /\ status'[r] = status[r] /\ shown'[r] = shown[r]
           /\ status'[r] = 200 /\ at[r] # "done" =>
                /\ target[r] \in Videos
                /\ \/ r \in GetRequests /\ shown'[r] = views[target[r]]
                   \/ /\ r \in ViewRequests /\ tx[r] = "committed"
                      /\ shown'[r] = counted[r] /\ counted' = counted /\ views' = views
           /\ earlier'[r] = earlier[r] \/
                (at[r] = "idle" /\ earlier'[r] = {q \in Requests : at[q] = "done"}
                 /\ tx' = tx /\ status' = status)
           /\ r \in ViewRequests /\ tx'[r] \in {"updated", "commit", "committed"} =>
                \/ tx[r] \in {"updated", "commit", "committed"} /\ counted'[r] = counted[r]
                \/ target[r] \in Videos /\ counted'[r] = views[target[r]] + 1
           /\ r \in held' => at'[r] \in Holding
<1> USE DEF Inv, TypeOK, server, Goto, Become, Reply, Release, Acquire, Holding, Ordered
<1>1. CASE Arrive(r)
  BY <1>1 DEF Arrive
<1>2. CASE r \in ViewRequests /\ ViewStep(r)
  <2>1. CASE Invalidate(r)
    BY <1>2, <2>1 DEF Stage, Invalidate
  <2>2. CASE ~ Invalidate(r)
    BY <1>2, <2>2 DEF ViewStep, LimitExceeded, BindFails, BeginTx, BeginFails, Incremented,
           NoRows, StatementFails, ReadIncremented, Committed, Rollback, TimesOut
  <2> QED
    BY <2>1, <2>2
<1>3. CASE r \in ViewRequests /\ ServerStep(r)
  BY <1>3 DEF ServerStep, Update, UpdateEmpty, Commit, Abort
<1>4. CASE r \in GetRequests /\ GetStep(r)
  BY <1>4, VideoTxAssumption DEF GetStep, BindFails, Query, VideoSelected, NothingSelected, GetFails
<1> QED
  BY <1>1, <1>2, <1>3, <1>4

LEMMA OrderedStep ==
    ASSUME Inv, Inv', Ordered, [Next]_vars, NEW r \in Requests,
           \/ Arrive(r)
           \/ r \in ViewRequests /\ (ViewStep(r) \/ ServerStep(r))
           \/ r \in GetRequests /\ GetStep(r)
    PROVE  Ordered'
<1>1. \A v \in Videos : views[v] \in Nat /\ views'[v] \in Nat /\ views'[v] >= views[v]
  BY ViewsGrow DEF Inv, TypeOK
<1>2. /\ target' = target
      /\ \A q \in Requests : at[q] = "done" =>
            at'[q] = "done" /\ status'[q] = status[q] /\ shown'[q] = shown[q]
  BY OwnStep, Elsewhere
<1>3. /\ \A q \in Requests : /\ status[q] = 200 => at[q] = "done"
                              /\ shown[q] \in Nat /\ shown'[q] \in Nat
      /\ \A q \in ViewRequests : counted[q] \in Nat /\ counted'[q] \in Nat
  BY DEF Inv, TypeOK
<1>4. ASSUME NEW q \in Requests, status'[q] = 200
      PROVE  target'[q] \in Videos /\ shown'[q] <= views'[target'[q]]
  <2>1. CASE status[q] = 200
    BY <2>1, <1>1, <1>2, <1>3 DEF Ordered
  <2>2. CASE status[q] # 200
    <3>1. q = r /\ at[r] # "done"
      BY <2>2, <1>2, <1>4, Elsewhere
    <3>2. target[r] \in Videos
      BY <1>4, <3>1, OwnStep
    <3>3. CASE r \in GetRequests /\ shown'[r] = views[target[r]]
      BY <1>1, <1>2, <3>1, <3>2, <3>3
    <3>4. CASE r \in ViewRequests /\ tx[r] = "committed" /\ shown'[r] = counted[r]
      <4>1. counted[r] \in 1 .. views[target[r]]
        BY <3>2, <3>4 DEF Inv, NoLostViews, CountedFor
      <4> QED
        BY <1>1, <1>2, <3>1, <3>2, <3>4, <4>1
    <3> QED
      BY <1>4, <3>1, <3>3, <3>4, OwnStep
  <2> QED
    BY <2>1, <2>2
<1>5. ASSUME NEW p \in Requests, NEW q \in Requests, q \in earlier'[p]
      PROVE  /\ at[q] = "done"
             /\ \/ q \in earlier[p]
                \/ p = r /\ at[r] = "idle" /\ tx' = tx /\ status' = status
  BY <1>5, OwnStep, Elsewhere DEF Ordered
<1>6. ASSUME NEW p \in ViewRequests, NEW q \in Requests, q \in earlier'[p],
             status'[q] = 200, target'[q] = target'[p],
             tx'[p] \in {"updated", "commit", "committed"}
      PROVE  shown'[q] < counted'[p]
  <2> p \in Requests
    BY DEF Requests
  <2>1. /\ at[q] = "done" /\ status[q] = 200 /\ shown'[q] = shown[q] /\ target[q] = target[p]
        /\ target[q] \in Videos /\ shown[q] <= views[target[q]]
    BY <1>2, <1>5, <1>6 DEF Ordered
  <2>2. q \in earlier[p]
    BY <1>5, <1>6 DEF Inv, Stage
  <2>3. CASE tx[p] \in {"updated", "commit", "committed"} /\ counted'[p] = counted[p]
    BY <2>1, <2>2, <2>3 DEF Ordered
  <2>4. CASE target[p] \in Videos /\ counted'[p] = views[target[p]] + 1
    BY <1>1, <1>3, <2>1, <2>4
  <2> QED
    BY <1>6, <2>3, <2>4, OwnStep, Elsewhere
<1>7. AnswersInOrder'
  <2> SUFFICES ASSUME NEW p \in Requests, NEW q \in earlier'[p], status'[p] = 200,
                      status'[q] = 200, target'[p] = target'[q]
               PROVE  IF p \in ViewRequests THEN shown'[p] > shown'[q] ELSE shown'[p] >= shown'[q]
    BY DEF AnswersInOrder
  <2> q \in Requests
    BY DEF Inv, TypeOK
  <2>1. /\ at[q] = "done" /\ status[q] = 200 /\ shown'[q] = shown[q] /\ target[q] = target[p]
        /\ target[q] \in Videos /\ shown[q] <= views[target[q]]
    BY <1>2, <1>5 DEF Ordered
  <2>2. CASE p \in ViewRequests
    <3>1. tx'[p] = "committed" /\ shown'[p] = counted'[p]
      BY <2>2 DEF Inv, Stage
    <3> QED
      BY <1>3, <1>6, <2>2, <3>1
  <2>3. CASE p \notin ViewRequests
    <3>1. CASE status[p] = 200
      <4>1. shown'[p] = shown[p] /\ q \in earlier[p]
        BY <1>2, <1>3, <1>5, <3>1
      <4> QED
        BY <2>1, <2>3, <3>1, <4>1 DEF Ordered, AnswersInOrder
    <3>2. CASE status[p] # 200
      <4>1. p = r /\ at[r] # "done"
        BY <3>2, <1>2, Elsewhere
      <4>2. shown'[p] = views[target[p]]
        BY <2>3, <4>1, OwnStep
      <4> QED
        BY <1>1, <1>3, <2>1, <2>3, <4>2
    <3> QED
      BY <3>1, <3>2
  <2> QED
    BY <2>2, <2>3
<1>8. \A q \in Requests : q \in held' => at'[q] \in Holding
  BY OwnStep, Elsewhere DEF Ordered
<1>9. \A p \in Requests, q \in Requests : q \in earlier'[p] => at'[q] = "done"
  BY <1>2, <1>5
<1> QED
  BY <1>4, <1>6, <1>7, <1>8, <1>9 DEF Ordered

THEOREM OrderedHolds == Spec => []Ordered
<1>1. Ordered /\ Inv /\ Inv' /\ [Next]_vars => Ordered'
  <2> SUFFICES ASSUME Ordered, Inv, Inv', [Next]_vars PROVE Ordered'
    OBVIOUS
  <2>1. CASE UNCHANGED vars
    BY <2>1 DEF Ordered, AnswersInOrder, vars, server
  <2>2. CASE Next
    <3>1. PICK r \in Requests :
            \/ Arrive(r)
            \/ r \in ViewRequests /\ (ViewStep(r) \/ ServerStep(r))
            \/ r \in GetRequests /\ GetStep(r)
      BY <2>2 DEF Next, Requests
    <3> QED
      BY <3>1, OrderedStep
  <2> QED
    BY <2>1, <2>2
<1> QED
  BY <1>1, InitOrdered, InvHolds, PTL DEF Spec

\* A request never answers fewer views than one answered before it arrived, and more
\* if it counts one itself.
THEOREM AnswersOrdered == Spec => []AnswersInOrder
<1>1. Ordered => AnswersInOrder
  BY DEF Ordered
<1> QED
  BY <1>1, OrderedHolds, PTL

\* Every path out of a handler gives its connection back.
THEOREM ConnectionsSound == Spec => []ConnectionsReturned
<1>1. Ordered => ConnectionsReturned
  BY DEF Ordered, ConnectionsReturned, Holding
<1> QED
  BY <1>1, OrderedHolds, PTL

-----------------------------------------------------------------------------
(* VideoTx implements ViewCounter                                          *)

\* What the mapped variables are after a step of r.
LEMMA SameOutcome ==
    ASSUME Inv, NEW r \in Requests, NEW s \in AtStates \ {"idle", "done"},
           at' = [at EXCEPT ![r] = s], status' = status, at[r] \notin {"idle", "done"}
    PROVE  outcome' = outcome
<1> QED
  BY DEF Inv, TypeOK, outcome

LEMMA Answered ==
    ASSUME Inv, NEW r \in Requests, NEW code \in {200, 500} \cup Refusals,
           Reply(r, code), at[r] \notin {"idle", "done"}
    PROVE  /\ outcome[r] = "open"
           /\ outcome' = [outcome EXCEPT ![r] =
                IF code = 200 THEN "ok" ELSE IF code = 500 THEN "failed" ELSE "refused"]
           /\ code # 200 /\ UNCHANGED shown => answers' = answers
           /\ code = 200 /\ (\A q \in Requests \ {r} : shown'[q] = shown[q]) =>
                answers' = [answers EXCEPT ![r] = shown'[r]]
<1>1. status[r] = 0 /\ status' = [status EXCEPT ![r] = code] /\ at' = [at EXCEPT ![r] = "done"]
  BY DEF Inv, TypeOK, Reply, Goto
<1>2. /\ outcome[r] = "open"
      /\ outcome' = [outcome EXCEPT ![r] =
            IF code = 200 THEN "ok" ELSE IF code = 500 THEN "failed" ELSE "refused"]
  <2>1. outcome[r] = "open"
    BY <1>1 DEF outcome
  <2>2. outcome'[r] = IF code = 200 THEN "ok" ELSE IF code = 500 THEN "failed" ELSE "refused"
    BY <1>1 DEF Inv, TypeOK, outcome, Refusals
  <2>3. \A q \in Requests \ {r} : status'[q] = status[q] /\ at'[q] = at[q]
    BY <1>1 DEF Inv, TypeOK
  <2>4. \A q \in Requests \ {r} : outcome'[q] = outcome[q]
    BY <2>3 DEF outcome
  <2>5. outcome' = [q \in Requests |-> outcome'[q]] /\ outcome = [q \in Requests |-> outcome[q]]
    BY DEF outcome
  <2> QED
    BY <2>1, <2>2, <2>4, <2>5
<1>3. code # 200 /\ UNCHANGED shown => answers' = answers
  BY <1>1 DEF Inv, TypeOK, answers
<1>4. ASSUME code = 200, \A q \in Requests \ {r} : shown'[q] = shown[q]
      PROVE  answers' = [answers EXCEPT ![r] = shown'[r]]
  <2>1. /\ answers'[r] = shown'[r]
        /\ \A q \in Requests \ {r} : status'[q] = status[q]
    BY <1>1, <1>4 DEF Inv, TypeOK, answers
  <2>2. \A q \in Requests \ {r} : answers'[q] = answers[q]
    BY <2>1, <1>4 DEF answers
  <2>3. answers' = [q \in Requests |-> answers'[q]] /\ answers = [q \in Requests |-> answers[q]]
    BY DEF answers
  <2> QED
    BY <2>1, <2>2, <2>3
<1> QED
  BY <1>2, <1>3, <1>4

LEMMA ArriveRefines == ASSUME Inv, NEW r \in Requests, Arrive(r) PROVE Counter!Next
<1>1. /\ outcome[r] = "new" /\ outcome' = [outcome EXCEPT ![r] = "open"]
      /\ answers' = answers /\ counts' = counts
      /\ UNCHANGED <<views, target>>
  BY DEF Inv, TypeOK, Arrive, Goto, outcome, answers, counts, server
<1> QED
  BY <1>1 DEF Counter!Next, Counter!Arrive, Counter!Requests, Requests

\* A refusal or a failure is one of ViewCounter too.
LEMMA RefusalRefines ==
    ASSUME Inv, NEW r \in Requests, NEW code \in {500} \cup Refusals, Reply(r, code),
           at[r] \notin {"idle", "done"}, UNCHANGED <<views, counts, target, shown>>,
           code \in Refusals /\ r \in ViewRequests => tx[r] # "committed"
    PROVE  Counter!Next
<1>1. /\ outcome[r] = "open" /\ answers' = answers
      /\ outcome' = [outcome EXCEPT ![r] = IF code = 500 THEN "failed" ELSE "refused"]
  BY Answered DEF Refusals
<1>2. CASE code = 500
  BY <1>1, <1>2 DEF Counter!Next, Counter!Fail, Counter!Requests, Requests
<1>3. CASE code # 500
  <2>1. r \in ViewRequests => counts[r] = 0
    BY <1>3 DEF counts
  <2> QED
    BY <1>1, <1>3, <2>1 DEF Counter!Next, Counter!Refuse, Counter!Requests, Requests
<1> QED
  BY <1>2, <1>3

LEMMA CommitRefines == ASSUME Inv, NEW r \in ViewRequests, Commit(r) PROVE Counter!Next
<1>1. /\ target[r] \in Videos /\ counted[r] = views[target[r]] + 1
      /\ tx[r] = "commit" /\ tx' = [tx EXCEPT ![r] = "committed"]
      /\ views' = [views EXCEPT ![target[r]] = counted[r]]
      /\ UNCHANGED <<counted, target, at, status, shown>>
  BY DEF Inv, Stage, Commit, Become
<1>2. /\ outcome' = outcome /\ answers' = answers
      /\ counts[r] = 0 /\ counts' = [counts EXCEPT ![r] = views[target[r]] + 1]
  <2>1. outcome' = outcome /\ answers' = answers
    BY <1>1 DEF outcome, answers
  <2>2. counts[r] = 0 /\ counts'[r] = views[target[r]] + 1
    BY <1>1 DEF Inv, TypeOK, counts
  <2>3. \A q \in ViewRequests \ {r} : counts'[q] = counts[q]
    BY <1>1 DEF Inv, TypeOK, counts
  <2>4. counts' = [q \in ViewRequests |-> counts'[q]] /\ counts = [q \in ViewRequests |-> counts[q]]
    BY DEF counts
  <2> QED
    BY <2>1, <2>2, <2>3, <2>4
<1>3. outcome[r] \in {"open", "failed"}
  BY <1>1 DEF Inv, TypeOK, Stage, outcome, Requests, Refusals
<1>4. Counter!Count(r)
  BY <1>1, <1>2, <1>3 DEF Inv, TypeOK, Counter!Count
<1> QED
  BY <1>4 DEF Counter!Next

LEMMA InvalidateRefines == ASSUME Inv, NEW r \in ViewRequests, Invalidate(r) PROVE Counter!Next
<1>1. PICK code \in {200, 500} : Reply(r, code)
  BY DEF Invalidate
<1>2. /\ r \in Requests /\ at[r] = "invalidate" /\ counts' = counts
      /\ UNCHANGED <<views, target, shown>>
      /\ tx[r] = "committed" /\ shown[r] = counted[r] /\ counted[r] > 0
  BY DEF Inv, Stage, Invalidate, Requests, server, counts
<1>3. CASE code = 500
  <2>1. /\ code \in {500} \cup Refusals /\ code \notin Refusals
        /\ at[r] \notin {"idle", "done"} /\ UNCHANGED <<views, counts, target, shown>>
    BY <1>2, <1>3 DEF Refusals
  <2> QED
    BY <1>1, <1>2, <2>1, RefusalRefines
<1>4. CASE code = 200
  <2>1. /\ outcome[r] = "open" /\ outcome' = [outcome EXCEPT ![r] = "ok"]
        /\ answers' = [answers EXCEPT ![r] = counts[r]] /\ counts[r] > 0
    BY <1>1, <1>2, <1>4, Answered DEF counts
  <2> QED
    BY <1>2, <2>1 DEF Counter!Next, Counter!AnswerView
<1> QED
  BY <1>3, <1>4

LEMMA SelectRefines == ASSUME Inv, NEW r \in GetRequests, VideoSelected(r) PROVE Counter!Next
<1>1. /\ r \in Requests /\ at[r] = "select" /\ Reply(r, 200) /\ target[r] \in Videos
      /\ shown' = [shown EXCEPT ![r] = views[target[r]]] /\ counts' = counts
      /\ UNCHANGED <<views, target>>
  BY DEF VideoSelected, Requests, server, counts
<1>2. /\ outcome[r] = "open" /\ outcome' = [outcome EXCEPT ![r] = "ok"]
      /\ answers' = [answers EXCEPT ![r] = views[target[r]]]
  BY <1>1, Answered DEF Inv, TypeOK
<1> QED
  BY <1>1, <1>2 DEF Counter!Next, Counter!AnswerGet

\* The steps that ViewCounter does not see.
LEMMA HiddenStep ==
    ASSUME Inv, NEW r \in Requests,
           \/ r \in ViewRequests /\ ( \/ BeginTx(r) \/ Incremented(r) \/ NoRows(r)
                                     \/ StatementFails(r) \/ ReadIncremented(r) \/ Committed(r)
                                     \/ Update(r) \/ UpdateEmpty(r) \/ Abort(r) )
           \/ r \in GetRequests /\ Query(r)
    PROVE  UNCHANGED Counter!vars
<1> USE DEF server, Goto, Become
<1>1. UNCHANGED <<views, target, status>>
  BY DEF BeginTx, Incremented, NoRows, StatementFails, ReadIncremented, Committed, Update,
         UpdateEmpty, Abort, Query
<1>2. outcome' = outcome
  <2>1. CASE UNCHANGED at
    BY <1>1, <2>1 DEF outcome
  <2>2. CASE ~ UNCHANGED at
    BY <1>1, <2>2, SameOutcome DEF AtStates, BeginTx, Incremented, NoRows, StatementFails,
           ReadIncremented, Committed, Update, UpdateEmpty, Abort, Query
  <2> QED
    BY <2>1, <2>2
<1>3. counts' = counts
  BY DEF Inv, TypeOK, Stage, counts, BeginTx, Incremented, NoRows, StatementFails,
         ReadIncremented, Committed, Update, UpdateEmpty, Abort, Query
<1>4. answers' = answers
  <2>1. CASE UNCHANGED shown
    BY <1>1, <2>1 DEF answers
  <2>2. CASE r \in ViewRequests /\ ReadIncremented(r)
    <3>1. status[r] # 200 /\ shown' = [shown EXCEPT ![r] = RowSeen(r)]
      BY <2>2 DEF Inv, TypeOK, Requests, ReadIncremented
    <3> QED
      BY <1>1, <3>1 DEF Inv, TypeOK, answers
  <2> QED
    BY <2>1, <2>2 DEF BeginTx, Incremented, NoRows, StatementFails, Committed, Update,
           UpdateEmpty, Abort, Query
<1> QED
  BY <1>1, <1>2, <1>3, <1>4 DEF Counter!vars

LEMMA NextRefines == Inv /\ [Next]_vars => [Counter!Next]_(Counter!vars)
<1> SUFFICES ASSUME Inv, [Next]_vars PROVE Counter!Next \/ UNCHANGED Counter!vars
  OBVIOUS
<1>1. CASE UNCHANGED vars
  BY <1>1 DEF vars, server, Counter!vars, outcome, answers, counts
<1>2. ASSUME NEW r \in Requests, Arrive(r) PROVE Counter!Next
  BY <1>2, ArriveRefines
<1>3. ASSUME NEW r \in ViewRequests, ViewStep(r) \/ ServerStep(r)
      PROVE  Counter!Next \/ UNCHANGED Counter!vars
  <2> r \in Requests
    BY DEF Requests
  <2>1. CASE LimitExceeded(r) \/ BindFails(r) \/ BeginFails(r) \/ Rollback(r) \/ TimesOut(r)
    <3>1. PICK code \in {500} \cup Refusals : Reply(r, code)
                /\ (code \in Refusals => at[r] \in {"arrived", "norows"})
      BY <2>1 DEF LimitExceeded, BindFails, BeginFails, Rollback, TimesOut, Refusals
    <3>2. at[r] \notin {"idle", "done"} /\ UNCHANGED <<views, target, shown>>
      BY <2>1 DEF LimitExceeded, BindFails, BeginFails, Rollback, TimesOut, server
    <3>3. counts' = counts
      BY <2>1 DEF Inv, TypeOK, Stage, counts, server, Become, LimitExceeded, BindFails,
             BeginFails, Rollback, TimesOut
    <3>4. code \in Refusals => tx[r] # "committed"
      BY <3>1 DEF Inv, Stage
    <3> QED
      BY <3>1, <3>2, <3>3, <3>4, RefusalRefines
  <2>2. CASE Commit(r)
    BY <2>2, CommitRefines
  <2>3. CASE Invalidate(r)
    BY <2>3, InvalidateRefines
  <2> QED
    BY <1>3, <2>1, <2>2, <2>3, HiddenStep DEF ViewStep, ServerStep
<1>4. ASSUME NEW r \in GetRequests, GetStep(r)
      PROVE  Counter!Next \/ UNCHANGED Counter!vars
  <2> r \in Requests /\ r \notin ViewRequests
    BY VideoTxAssumption DEF Requests
  <2>1. CASE BindFails(r) \/ NothingSelected(r) \/ GetFails(r)
    <3>1. PICK code \in {500} \cup Refusals : Reply(r, code)
      BY <2>1 DEF BindFails, NothingSelected, GetFails, Refusals
    <3>2. /\ at[r] \notin {"idle", "done"} /\ UNCHANGED <<views, target, shown>>
          /\ counts' = counts
      BY <2>1 DEF BindFails, NothingSelected, GetFails, server, counts
    <3> QED
      BY <3>1, <3>2, RefusalRefines
  <2>2. CASE VideoSelected(r)
    BY <2>2, SelectRefines
  <2> QED
    BY <1>4, <2>1, <2>2, HiddenStep DEF GetStep
<1> QED
  BY <1>1, <1>2, <1>3, <1>4 DEF Next

LEMMA InitRefines == Init => Counter!Init
<1> QED
  BY DEF Init, Counter!Init, Counter!Requests, Requests, outcome, answers, counts

\* The handlers, the pool and the database count views as ViewCounter does, for any
\* number of requests, videos and connections.
THEOREM ViewsCounted == Spec => CountsViews
<1> QED
  BY InvHolds, InitRefines, NextRefines, PTL DEF Spec, CountsViews, Counter!Spec

-----------------------------------------------------------------------------
(* Nobody waits in a circle, and every request comes to an end             *)

\* The pool is never overdrawn, and its connections are with the requests that
\* are between their first statement and the end of their transaction or query.
PoolKept ==
    /\ IsFiniteSet(held) /\ Cardinality(held) <= PoolSize
    /\ \A r \in Requests : at[r] \in Holding <=> r \in held

\* Who can be waiting for whom: a request for a connection on those that hold one,
\* and a transaction that has its increment to run on the one that has its row.
WaitsFor(p, q) ==
    \/ p \in Requests /\ q \in held /\ at[p] = "arrived"
    \/ p \in ViewRequests /\ q \in ViewRequests /\ tx[p] = "update" /\ target[p] \in Videos
       /\ lockedBy[target[p]] = q

\* How much a request can still be waiting for: a connection and then a row, a row,
\* or nothing.
Wants(r) ==
    IF at[r] = "arrived" THEN 2
    ELSE IF r \in ViewRequests /\ tx[r] = "update" THEN 1 ELSE 0

\* The waiting ends: whoever is waited for wants less than who waits for it.  So no
\* requests ever wait in a circle, through the pool, the row locks or both, those
\* whose client has left included; and who has a row wants nothing more.
NobodyWaitsInACircle == \A p, q \in Requests : WaitsFor(p, q) => Wants(q) < Wants(p)

\* What a request has left of its handler and of its transaction at most.
ClientLeft == [s \in AtStates |->
    CASE s = "idle" -> 8
      [] s = "arrived" -> 7
      [] s = "increment" -> 3
      [] s \in {"read", "commit"} -> 2
      [] s = "done" -> 0
      [] OTHER -> 1]
ServerLeft == [s \in TxStates |->
    CASE s = "update" -> 3
      [] s = "updated" -> 2
      [] s \in {"empty", "commit"} -> 1
      [] OTHER -> 0]
Left(r) == ClientLeft[at[r]] + (IF r \in ViewRequests THEN ServerLeft[tx[r]] ELSE 0)

\* Every step is one of a request and takes it nearer to its end, and no other
\* further from it.  So a request takes eight steps at most, those of its transaction
\* included, whatever fails, and no behaviour goes on for ever.
RequestsGoOn ==
    [][\E r \in Requests : Left(r)' < Left(r)
                           /\ \A q \in Requests \ {r} : Left(q)' = Left(q)]_vars

LEMMA PoolInit == Init => PoolKept
<1> QED
  BY FS_EmptySet, VideoTxAssumption DEF Init, PoolKept, Holding

\* A step of r takes a connection, gives its own back or leaves the pool alone.
LEMMA PoolStep ==
    ASSUME Inv, PoolKept, NEW r \in Requests,
           \/ Arrive(r)
           \/ r \in ViewRequests /\ (ViewStep(r) \/ ServerStep(r))
           \/ r \in GetRequests /\ GetStep(r)
    PROVE  /\ \/ held' = held
              \/ held' = held \ {r}
              \/ held' = held \cup {r} /\ Cardinality(held) < PoolSize
           /\ at'[r] \in Holding <=> r \in held'
<1> USE DEF Inv, TypeOK, server, Goto, Become, Reply, Release, Acquire, Holding, PoolKept
<1>1. CASE Arrive(r)
  BY <1>1 DEF Arrive
<1>2. CASE r \in ViewRequests /\ ViewStep(r)
  BY <1>2 DEF ViewStep, LimitExceeded, BindFails, BeginTx, BeginFails, Incremented, NoRows,
         StatementFails, ReadIncremented, Committed, Invalidate, Rollback, TimesOut
<1>3. CASE r \in ViewRequests /\ ServerStep(r)
  BY <1>3 DEF ServerStep, Update, UpdateEmpty, Commit, Abort
<1>4. CASE r \in GetRequests /\ GetStep(r)
  BY <1>4 DEF GetStep, BindFails, Query, VideoSelected, NothingSelected, GetFails
<1> QED
  BY <1>1, <1>2, <1>3, <1>4

LEMMA PoolNext == Inv /\ PoolKept /\ [Next]_vars => PoolKept'
<1> SUFFICES ASSUME Inv, PoolKept, [Next]_vars PROVE PoolKept'
  OBVIOUS
<1>1. CASE UNCHANGED vars
  BY <1>1 DEF PoolKept, vars
<1>2. CASE Next
  <2>1. PICK r \in Requests :
            \/ Arrive(r)
            \/ r \in ViewRequests /\ (ViewStep(r) \/ ServerStep(r))
            \/ r \in GetRequests /\ GetStep(r)
    BY <1>2 DEF Next, Requests
  <2>2. /\ \/ held' = held
           \/ held' = held \ {r}
           \/ held' = held \cup {r} /\ Cardinality(held) < PoolSize
        /\ at'[r] \in Holding <=> r \in held'
    BY <2>1, PoolStep
  <2>3. \A q \in Requests \ {r} : at'[q] = at[q]
    BY <2>1, Elsewhere
  <2>4. \A q \in Requests : at'[q] \in Holding <=> q \in held'
    BY <2>2, <2>3 DEF PoolKept
  <2>5. IsFiniteSet(held) /\ Cardinality(held) \in Nat /\ Cardinality(held) <= PoolSize
    BY FS_CardinalityType DEF PoolKept
  <2>6. IsFiniteSet(held') /\ Cardinality(held') <= PoolSize
    <3>1. CASE held' = held
      BY <3>1, <2>5
    <3>2. CASE held' = held \ {r}
      <4>1. IsFiniteSet(held \ {r}) /\ Cardinality(held \ {r}) <= Cardinality(held)
            /\ Cardinality(held \ {r}) \in Nat
        BY <2>5, FS_Subset, FS_CardinalityType
      <4> QED
        BY <3>2, <4>1, <2>5, VideoTxAssumption
    <3>3. CASE held' = held \cup {r} /\ Cardinality(held) < PoolSize
      <4>1. /\ IsFiniteSet(held \cup {r})
            /\ Cardinality(held \cup {r}) = IF r \in held THEN Cardinality(held)
                                            ELSE Cardinality(held) + 1
        BY <2>5, FS_AddElement
      <4> QED
        BY <3>3, <4>1, <2>5, VideoTxAssumption
    <3> QED
      BY <2>2, <3>1, <3>2, <3>3
  <2> QED
    BY <2>4, <2>6 DEF PoolKept
<1> QED
  BY <1>1, <1>2

\* The pool is never overdrawn, for any number of connections.
THEOREM PoolNeverOverdrawn == Spec => []PoolKept
<1> QED
  BY PoolInit, PoolNext, InvHolds, PTL DEF Spec

\* However many connections and requests there are, no requests wait in a circle.
THEOREM NoDeadlock == Spec => []NobodyWaitsInACircle
<1>1. Inv /\ PoolKept => NobodyWaitsInACircle
  <2> SUFFICES ASSUME Inv, PoolKept, NEW p \in Requests, NEW q \in Requests, WaitsFor(p, q)
               PROVE  Wants(q) < Wants(p)
    BY DEF NobodyWaitsInACircle
  <2>1. CASE q \in held /\ at[p] = "arrived"
    BY <2>1 DEF PoolKept, Holding, Wants
  <2>2. CASE /\ p \in ViewRequests /\ q \in ViewRequests /\ tx[p] = "update"
             /\ target[p] \in Videos /\ lockedBy[target[p]] = q
    <3>1. tx[q] \in {"updated", "commit"}
      BY <2>2, VideoTxAssumption DEF Inv, TypeOK
    <3>2. at[q] # "arrived" /\ at[p] # "arrived"
      BY <2>2, <3>1 DEF Inv, Stage
    <3> QED
      BY <2>2, <3>1, <3>2 DEF Wants
  <2> QED
    BY <2>1, <2>2 DEF WaitsFor
<1> QED
  BY <1>1, InvHolds, PoolNeverOverdrawn, PTL

\* A step of r takes r nearer to its end.
LEMMA OwnStepDecreases ==
    ASSUME Inv, Inv', NEW r \in Requests,
           \/ Arrive(r)
           \/ r \in ViewRequests /\ (ViewStep(r) \/ ServerStep(r))
           \/ r \in GetRequests /\ GetStep(r)
    PROVE  Left(r)' < Left(r)
<1>1. at[r] \in AtStates /\ at'[r] \in AtStates
  BY DEF Inv, TypeOK
<1>2. r \in ViewRequests => tx[r] \in TxStates /\ tx'[r] \in TxStates
  BY DEF Inv, TypeOK
<1>3. \/ /\ r \in ViewRequests
         /\ \/ at[r] \in {"idle", "arrived"} /\ at'[r] \in {"arrived", "done"} /\ at'[r] # at[r]
               /\ tx'[r] = tx[r]
            \/ at[r] = "arrived" /\ at'[r] = "increment" /\ tx[r] = "none" /\ tx'[r] = "update"
            \/ at[r] = "increment" /\ at'[r] = "read" /\ tx'[r] = tx[r]
            \/ at[r] = "read" /\ at'[r] = "commit" /\ tx[r] = "updated" /\ tx'[r] = "commit"
            \/ at[r] \in {"increment", "read", "commit"}
               /\ at'[r] \in {"norows", "rollback", "invalidate", "done"} /\ tx'[r] = tx[r]
            \/ at[r] \in {"norows", "rollback", "invalidate"} /\ at'[r] = "done"
               /\ (tx'[r] = "aborted" \/ tx'[r] = tx[r])
            \/ at'[r] = at[r] /\ tx[r] = "update" /\ tx'[r] \in {"updated", "empty", "aborted"}
            \/ at'[r] = at[r] /\ tx[r] \in {"updated", "empty"} /\ tx'[r] = "aborted"
            \/ at'[r] = at[r] /\ tx[r] = "commit" /\ tx'[r] \in {"committed", "aborted"}
      \/ /\ r \in GetRequests
         /\ \/ at[r] = "idle" /\ at'[r] = "arrived"
            \/ at[r] = "arrived" /\ at'[r] \in {"select", "done"}
            \/ at[r] = "select" /\ at'[r] = "done"
  <2> USE DEF Inv, TypeOK, Stage, server, Goto, Become, Reply
  <2>1. CASE Arrive(r)
    BY <2>1 DEF Arrive, Requests
  <2>2. CASE r \in ViewRequests /\ ViewStep(r)
    BY <2>2 DEF ViewStep, LimitExceeded, BindFails, BeginTx, BeginFails, Incremented, NoRows,
           StatementFails, ReadIncremented, Committed, Invalidate, Rollback, TimesOut
  <2>3. CASE r \in ViewRequests /\ ServerStep(r)
    BY <2>3 DEF ServerStep, Update, UpdateEmpty, Commit, Abort
  <2>4. CASE r \in GetRequests /\ GetStep(r)
    BY <2>4 DEF GetStep, BindFails, Query, VideoSelected, NothingSelected, GetFails
  <2> QED
    BY <2>1, <2>2, <2>3, <2>4
<1>4. r \in GetRequests => r \notin ViewRequests
  BY VideoTxAssumption
<1> QED
  BY <1>1, <1>2, <1>3, <1>4 DEF Left, ClientLeft, ServerLeft, AtStates, TxStates

\* No behaviour goes on for ever, whatever fails and whoever leaves.
THEOREM RequestsComeToAnEnd == Spec => RequestsGoOn
<1>1. Inv /\ Inv' /\ [Next]_vars =>
          [\E r \in Requests : Left(r)' < Left(r)
                               /\ \A q \in Requests \ {r} : Left(q)' = Left(q)]_vars
  <2> SUFFICES ASSUME Inv, Inv', Next
               PROVE  \E r \in Requests : Left(r)' < Left(r)
                                          /\ \A q \in Requests \ {r} : Left(q)' = Left(q)
    OBVIOUS
  <2>1. PICK r \in Requests :
            \/ Arrive(r)
            \/ r \in ViewRequests /\ (ViewStep(r) \/ ServerStep(r))
            \/ r \in GetRequests /\ GetStep(r)
    BY DEF Next, Requests
  <2>2. Left(r)' < Left(r)
    BY <2>1, OwnStepDecreases
  <2>3. /\ \A q \in Requests \ {r} : at'[q] = at[q]
        /\ \A q \in ViewRequests \ {r} : tx'[q] = tx[q]
    BY <2>1, Elsewhere
  <2>4. \A q \in Requests \ {r} : Left(q)' = Left(q)
    BY <2>3 DEF Left, ClientLeft, ServerLeft
  <2> QED
    BY <2>2, <2>4
<1> QED
  BY <1>1, InvHolds, PTL DEF Spec, RequestsGoOn

=============================================================================
