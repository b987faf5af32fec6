------------------------- MODULE VideoLibraryProofs -------------------------
(***************************************************************************)
(* The safety properties of VideoLibrary, for any number of requests,      *)
(* attempts and processes.                                                 *)
(*                                                                         *)
(* Every step is one of the cache's or leaves the cache alone, so that Inv *)
(* of ListCacheProofs holds of the cache: a cached list shows what was     *)
(* committed when a Del that has run was called.  What is left is that     *)
(* whoever calls Del for a view, its request or an attempt at its event,   *)
(* does so after the commit (Requesting, Attempting), and that an event is *)
(* processed only because of such a Del (ProcessedByDel).                  *)
(*                                                                         *)
(* The last parts carry the promises of the cache and of the use cases     *)
(* over to the whole, where attempts call Del as well, and show that a     *)
(* view that was made up for stays shown.                                  *)
(***************************************************************************)
EXTENDS VideoLibrary, VideoServiceProofs

\* A view request calls Del once it has committed; only then it can be answered.
Requesting ==
    \A d \in Views :
        /\ req[d] \in {"idle", "tx"} => view[d] = 0
        /\ req[d] \in {"idle", "tx", "committed"} => pc[d] = "idle"
        /\ req[d] = "committed" => view[d] > 0
        /\ view[d] <= db
        /\ pc[d] # "idle" => view[d] > 0 /\ view[d] <= base[d]
        /\ req[d] = "ok" => pc[d] = "ok"

\* An attempt is at the event of a committed view and calls Del after its claim.
Attempting ==
    \A a \in Attempts :
        /\ target[a] = None => pc[a] = "idle"
        /\ target[a] # None => view[target[a]] > 0
        /\ pc[a] # "idle" => view[target[a]] <= base[a]

ProcessedByDel ==
    \A d \in processed : \E a \in Attempts : target[a] = d /\ pc[a] = "ok"

LibInv == LibTypeOK /\ Requesting /\ Attempting /\ ProcessedByDel

LEMMA LibInvInit == LibInit => LibInv
<1> SUFFICES ASSUME LibInit PROVE LibInv
  OBVIOUS
<1> USE ListCacheAssumption, LibraryAssumption DEF LibInit, SvcInit, Calls
<1>1. SvcTypeOK
  BY TypeInit DEF SvcTypeOK, ListStates, ViewStates
<1>2. LibTypeOK
  BY <1>1 DEF LibTypeOK
<1>3. Requesting /\ Attempting /\ ProcessedByDel
  BY DEF Init, Requesting, Attempting, ProcessedByDel
<1> QED
  BY <1>2, <1>3 DEF LibInv

\* Whatever the requests and the attempts do, the cache below them does what
\* ListCache allows.
LEMMA LibraryUsesCache == LibSpec => Spec
<1>1. LibInit => Init
  BY DEF LibInit, SvcInit
<1>2. [LibNext]_libVars => [Next]_vars
  <2> SUFFICES ASSUME LibNext PROVE [Next]_vars
    BY DEF libVars, svcVars
  <2> USE LibraryAssumption
  <2>1. ASSUME NEW l \in Loads, ListVideos(l) \/ ListStep(l) PROVE [Next]_vars
    BY <2>1 DEF ListVideos, ListStep, JoinList, LeadList, LoadList, ListDone, Next
  <2>2. ASSUME NEW d \in Views,
               IncrementViews(d) \/ TxFails(d) \/ InvalidateList(d) \/ IncrementDone(d)
        PROVE  [Next]_vars
    BY <2>2 DEF IncrementViews, TxFails, InvalidateList, IncrementDone, Next
  <2>3. ASSUME NEW d \in Views, CommitView(d) PROVE [Next]_vars
    BY <2>3 DEF CommitView, TxCommit, LateCommit, Effect, Next
  <2>4. ASSUME NEW a \in Attempts, Invalidate(a) PROVE [Next]_vars
    BY <2>4 DEF Invalidate, Next
  <2>5. ASSUME NEW a \in Attempts, MarkProcessed(a) \/ GiveUp(a) PROVE [Next]_vars
    BY <2>5 DEF MarkProcessed, GiveUp, svcVars
  <2>6. ASSUME NEW a \in Attempts, NEW d \in Views, Claim(a, d) PROVE [Next]_vars
    BY <2>6 DEF Claim, svcVars
  <2> QED
    BY <2>1, <2>2, <2>3, <2>4, <2>5, <2>6, CacheSteps DEF LibNext, RequestStep
<1> QED
  BY <1>1, <1>2, PTL DEF LibSpec, Spec

LEMMA InvInLibrary == LibSpec => []Inv
  BY LibraryUsesCache, InvAlways, PTL

-----------------------------------------------------------------------------
(* Every step keeps the invariant.                                         *)

\* A request that commits nothing and calls no Del.
LEMMA QuietKeeps ==
    ASSUME LibInv, UNCHANGED <<db, base, view, outbox>>, SvcTypeOK',
           \A d \in Dels : pc'[d] = pc[d],
           \A d \in Views :
               \/ req'[d] = req[d]
               \/ req[d] = "idle" /\ req'[d] = "tx"
               \/ req[d] \in {"tx", "committed"} /\ req'[d] = "err"
               \/ req[d] = "invalidate" /\ pc[d] \in {"ok", "err"} /\ req'[d] = pc[d]
    PROVE  LibInv'
<1> USE LibraryAssumption DEF LibInv, outbox
<1>1. LibTypeOK'
  BY DEF LibTypeOK
<1>2. Requesting'
  BY DEF Requesting
<1>3. Attempting' /\ ProcessedByDel'
  BY DEF Attempting, ProcessedByDel
<1> QED
  BY <1>1, <1>2, <1>3

\* A Del is called for a committed view.
LEMMA DelKeeps ==
    ASSUME LibInv, Inv, UNCHANGED <<db, view, outbox>>, SvcTypeOK',
           NEW e \in Dels, Del(e),
           \A d \in Views :
               \/ d # e /\ req'[d] = req[d]
               \/ d = e /\ req[d] = "committed" /\ req'[d] = "invalidate",
           e \in Attempts => target[e] # None
    PROVE  LibInv'
<1> USE LibraryAssumption DEF LibInv, outbox
<1>1. LibTypeOK'
  BY DEF LibTypeOK
<1>2. /\ pc[e] = "idle" /\ pc'[e] = "sent" /\ base'[e] = db
      /\ \A d \in Dels : d # e => pc'[d] = pc[d] /\ base'[d] = base[d]
  BY DEF Del, Goto, Inv, TypeOK, Calls
<1>3. Requesting'
  BY <1>2 DEF Requesting
<1>4. Attempting'
  <2> SUFFICES ASSUME NEW a \in Attempts
               PROVE  /\ target[a] = None => pc'[a] = "idle"
                      /\ target[a] # None => view[target[a]] > 0
                      /\ pc'[a] # "idle" => view[target[a]] <= base'[a]
    BY DEF Attempting
  <2>1. target[a] # None => view[target[a]] <= db
    BY DEF LibTypeOK, Requesting
  <2> QED
    BY <1>2, <2>1 DEF Attempting
<1>5. ProcessedByDel'
  BY <1>2 DEF ProcessedByDel
<1> QED
  BY <1>1, <1>3, <1>4, <1>5

LEMMA LibInvNext == LibInv /\ Inv /\ Inv' /\ [LibNext]_libVars => LibInv'
<1> SUFFICES ASSUME LibInv, Inv, Inv', [LibNext]_libVars PROVE LibInv'
  OBVIOUS
<1>0. TypeOK /\ TypeOK' /\ SvcTypeOK
  BY DEF Inv, LibInv, LibTypeOK
<1> USE ListCacheAssumption, LibraryAssumption DEF Calls
<1>1. ASSUME NEW l \in Loads, ListVideos(l) \/ JoinList(l) \/ LeadList(l), UNCHANGED outbox
      PROVE  LibInv'
  <2>1. SvcTypeOK'
    BY <1>0, <1>1 DEF ListVideos, JoinList, LeadList, Become, SvcTypeOK, ListStates, ViewStates
  <2>2. UNCHANGED <<db, base, view, pc>> /\ \A d \in Views : req'[d] = req[d]
    BY <1>0, <1>1 DEF ListVideos, JoinList, LeadList, Become, SvcTypeOK, vars
  <2> QED
    BY <1>1, <2>1, <2>2, QuietKeeps
<1>2. ASSUME NEW l \in Loads, LoadList(l), UNCHANGED outbox PROVE LibInv'
  <2>1. SvcTypeOK'
    BY <1>0, <1>2 DEF LoadList, svc, SvcTypeOK
  <2>2. UNCHANGED <<db, base, view, req>> /\ \A d \in Dels : pc'[d] = pc[d]
    BY <1>0, <1>2 DEF LoadList, GetOrLoadVideos, Goto, svc, TypeOK
  <2> QED
    BY <1>2, <2>1, <2>2, QuietKeeps
<1>3. ASSUME NEW l \in Loads, ListDone(l), UNCHANGED outbox PROVE LibInv'
  <2>1. SvcTypeOK'
    BY <1>0, <1>3 DEF ListDone, SvcTypeOK, TypeOK, ListStates, ViewStates
  <2>2. UNCHANGED <<db, base, view, pc>> /\ \A d \in Views : req'[d] = req[d]
    BY <1>0, <1>3 DEF ListDone, SvcTypeOK, vars
  <2> QED
    BY <1>3, <2>1, <2>2, QuietKeeps
<1>4. ASSUME NEW e \in Views, IncrementViews(e) \/ TxFails(e) \/ IncrementDone(e),
             UNCHANGED outbox
      PROVE  LibInv'
  <2>1. SvcTypeOK'
    BY <1>0, <1>4 DEF IncrementViews, TxFails, IncrementDone, Become, SvcTypeOK,
                      ListStates, ViewStates
  <2>2. UNCHANGED <<db, base, view, pc>>
    BY <1>4 DEF IncrementViews, TxFails, IncrementDone, vars
  <2>3. \A d \in Views :
            \/ req'[d] = req[d]
            \/ req[d] = "idle" /\ req'[d] = "tx"
            \/ req[d] \in {"tx", "committed"} /\ req'[d] = "err"
            \/ req[d] = "invalidate" /\ pc[d] \in {"ok", "err"} /\ req'[d] = pc[d]
    BY <1>0, <1>4 DEF IncrementViews, TxFails, IncrementDone, Become, SvcTypeOK
  <2> QED
    BY <1>4, <2>1, <2>2, <2>3, QuietKeeps
<1>5. ASSUME NEW e \in Views, InvalidateList(e), UNCHANGED outbox PROVE LibInv'
  <2>1. SvcTypeOK'
    BY <1>0, <1>5 DEF InvalidateList, Become, SvcTypeOK, ListStates, ViewStates
  <2>2. UNCHANGED <<db, view>> /\ Del(e) /\ e \in Dels /\ e \notin Attempts
    BY <1>5 DEF InvalidateList, Del
  <2>3. \A d \in Views :
            \/ d # e /\ req'[d] = req[d]
            \/ d = e /\ req[d] = "committed" /\ req'[d] = "invalidate"
    BY <1>0, <1>5 DEF InvalidateList, Become, SvcTypeOK
  <2> QED
    BY <1>5, <2>1, <2>2, <2>3, DelKeeps
<1>6. ASSUME NEW a \in Attempts, Invalidate(a) PROVE LibInv'
  <2>1. SvcTypeOK'
    BY <1>0, <1>6 DEF Invalidate, svc, SvcTypeOK
  <2>2. UNCHANGED <<db, view, req>> /\ Del(a) /\ a \in Dels /\ target[a] # None
    BY <1>6 DEF Invalidate, Del, svc
  <2>3. \A d \in Views : d # a /\ req'[d] = req[d]
    BY <2>2
  <2> QED
    BY <1>6, <2>1, <2>2, <2>3, DelKeeps DEF Invalidate
<1>7. ASSUME NEW e \in Views, CommitView(e) PROVE LibInv'
  <2>1. /\ view[e] = 0 /\ pc[e] = "idle" /\ db' = db + 1
        /\ req[e] \in {"tx", "err"} /\ req'[e] \in {"committed", "err"}
        /\ \A d \in Views : d # e => req'[d] = req[d]
        /\ view' = [view EXCEPT ![e] = db + 1]
        /\ UNCHANGED <<pc, base, listGroup, joined, reply, viewed>>
    <3>1. view[e] = 0 /\ pc[e] = "idle" /\ req[e] \in {"tx", "err"}
      BY <1>7 DEF CommitView, TxCommit, LateCommit, LibInv, Requesting
    <3>2. req'[e] \in {"committed", "err"} /\ \A d \in Views : d # e => req'[d] = req[d]
      BY <1>0, <1>7 DEF CommitView, TxCommit, LateCommit, Become, SvcTypeOK
    <3> QED
      BY <1>7, <3>1, <3>2 DEF CommitView, TxCommit, LateCommit, Effect, Commit
  <2>2. SvcTypeOK'
    <3>1. db \in Nat /\ view' \in [Dels -> Nat]
      BY <1>0, <2>1 DEF SvcTypeOK, TypeOK
    <3>2. /\ req' \in [Calls -> ListStates \cup ViewStates]
          /\ \A l \in Loads : req'[l] = req[l]
          /\ \A d \in Dels : req'[d] \in ViewStates
      BY <1>0, <1>7 DEF CommitView, TxCommit, LateCommit, Become, SvcTypeOK, ViewStates
    <3> QED
      BY <1>0, <2>1, <3>1, <3>2 DEF SvcTypeOK
  <2>3. view'[e] = db + 1 /\ \A d \in Views : d # e => view'[d] = view[d]
    BY <1>0, <2>1 DEF SvcTypeOK
  <2>4. db \in Nat
    BY <1>0 DEF TypeOK
  <2>5. LibTypeOK'
    BY <1>7, <2>2, <2>3, <2>4 DEF CommitView, LibInv, LibTypeOK
  <2>6. Requesting'
    BY <1>0, <2>1, <2>3, <2>4 DEF LibInv, Requesting, SvcTypeOK
  <2>7. Attempting'
    <3>1. \A a \in Attempts : target[a] # e
      BY <2>1 DEF LibInv, Attempting
    <3>2. \A a \in Attempts : target[a] # None => view'[target[a]] = view[target[a]]
      BY <2>3, <3>1 DEF LibInv, LibTypeOK
    <3> QED
      BY <1>7, <2>1, <3>2 DEF CommitView, LibInv, Attempting
  <2>8. ProcessedByDel'
    BY <1>7, <2>1 DEF CommitView, LibInv, ProcessedByDel
  <2> QED
    BY <2>5, <2>6, <2>7, <2>8 DEF LibInv
<1>8. ASSUME NEW a \in Attempts, NEW e \in Views, Claim(a, e) PROVE LibInv'
  <2>1. LibTypeOK'
    BY <1>0, <1>8 DEF Claim, svcVars, svc, vars, redis, LibInv, LibTypeOK, SvcTypeOK
  <2>2. Requesting'
    BY <1>8 DEF Claim, svcVars, svc, vars, LibInv, Requesting
  <2>3. Attempting'
    BY <1>8 DEF Claim, svcVars, svc, vars, LibInv, LibTypeOK, Attempting
  <2>4. ProcessedByDel'
    BY <1>8 DEF Claim, svcVars, svc, vars, LibInv, LibTypeOK, ProcessedByDel, Attempting
  <2> QED
    BY <2>1, <2>2, <2>3, <2>4 DEF LibInv
<1>9. ASSUME NEW a \in Attempts, MarkProcessed(a) \/ GiveUp(a) PROVE LibInv'
  <2>1. target[a] \in inserted
    BY <1>9 DEF MarkProcessed, GiveUp, LibInv, LibTypeOK, Attempting
  <2>2. LibTypeOK'
    BY <1>0, <1>9, <2>1 DEF MarkProcessed, GiveUp, svcVars, svc, vars, redis, LibInv,
                            LibTypeOK, SvcTypeOK
  <2>3. Requesting' /\ Attempting'
    BY <1>9 DEF MarkProcessed, GiveUp, svcVars, svc, vars, LibInv, Requesting, Attempting
  <2>4. ProcessedByDel'
    BY <1>9 DEF MarkProcessed, GiveUp, svcVars, svc, vars, LibInv, ProcessedByDel
  <2> QED
    BY <2>2, <2>3, <2>4 DEF LibInv
<1>10. ASSUME CacheStep, UNCHANGED <<svc, outbox>> PROVE LibInv'
  <2>1. /\ UNCHANGED <<db, base>>
        /\ \A d \in Dels : pc[d] \in {"idle", "ok", "err"} => pc'[d] = pc[d]
        /\ \A d \in Dels : pc[d] # "idle" => pc'[d] # "idle"
    BY <1>0, <1>10, CacheStepKeeps
  <2>2. LibTypeOK'
    BY <1>0, <1>10 DEF svc, outbox, LibInv, LibTypeOK, SvcTypeOK
  <2>3. Requesting'
    BY <1>10, <2>1 DEF svc, LibInv, Requesting
  <2>4. Attempting' /\ ProcessedByDel'
    BY <1>10, <2>1 DEF svc, outbox, LibInv, Attempting, ProcessedByDel
  <2> QED
    BY <2>2, <2>3, <2>4 DEF LibInv
<1>11. CASE UNCHANGED libVars
  <2>1. LibTypeOK'
    BY <1>0, <1>11 DEF libVars, svcVars, svc, vars, outbox, LibInv, LibTypeOK, SvcTypeOK
  <2> QED
    BY <1>11, <2>1 DEF libVars, svcVars, svc, vars, outbox, LibInv, Requesting, Attempting,
                       ProcessedByDel
<1> QED
  BY <1>1, <1>2, <1>3, <1>4, <1>5, <1>6, <1>7, <1>8, <1>9, <1>10, <1>11
     DEF LibNext, RequestStep, ListStep

LEMMA LibInvAlways == LibSpec => []LibInv
<1>1. LibSpec => []Inv
  BY InvInLibrary
<1> QED
  BY <1>1, LibInvInit, LibInvNext, PTL DEF LibSpec

-----------------------------------------------------------------------------
\* Every variable keeps its type, and exactly the committed views have an event.
THEOREM LibTypeCorrect == LibSpec => []LibTypeOK
<1>1. LibInv => LibTypeOK
  BY DEF LibInv
<1> QED
  BY <1>1, LibInvAlways, PTL

\* A list that lacks a committed view is cached only while the view's event is not
\* processed and its request not answered.
THEOREM HiddenViewsPending == LibSpec => []HiddenViewsArePending
<1>1. LibInv /\ Inv => HiddenViewsArePending
  <2> SUFFICES ASSUME LibInv, Inv, NEW d \in Views, cached \in Nat, cached < view[d]
               PROVE  d \in inserted \ processed /\ req[d] # "ok"
    BY DEF HiddenViewsArePending
  <2>0. view[d] \in Nat /\ d \in Dels
    BY LibraryAssumption DEF LibInv, LibTypeOK, SvcTypeOK
  <2>1. d \in inserted
    BY <2>0 DEF LibInv, LibTypeOK
  <2>2. ASSUME NEW c \in Dels, pc[c] = "ok" PROVE base[c] < view[d]
    <3>1. cached >= base[c] /\ base[c] \in Nat
      BY <2>2 DEF Inv, ReturnedRan, CachedShowsInvalidations, TypeOK
    <3> QED
      BY <2>0, <3>1
  <2>3. req[d] # "ok"
    BY <2>0, <2>2 DEF LibInv, Requesting, Inv, TypeOK
  <2>4. d \notin processed
    <3> SUFFICES ASSUME d \in processed PROVE FALSE
      OBVIOUS
    <3>1. PICK a \in Attempts : target[a] = d /\ pc[a] = "ok"
      BY DEF LibInv, ProcessedByDel
    <3>2. a \in Dels /\ view[d] <= base[a] /\ base[a] \in Nat
      BY <3>1, LibraryAssumption DEF LibInv, Attempting, Inv, TypeOK
    <3> QED
      BY <2>0, <2>2, <3>1, <3>2
  <2> QED
    BY <2>1, <2>3, <2>4
<1> QED
  BY <1>1, LibInvAlways, InvInLibrary, PTL

\* Once a Del for a view has run, of its request or of an attempt, no list without the
\* view is in the shared cache: whoever calls Del for a view does so after its commit,
\* and a Del that has run keeps older lists out.
THEOREM InvalidatedShown == LibSpec => []InvalidatedViewsShown
<1>1. LibInv /\ Inv => InvalidatedViewsShown
  <2> SUFFICES ASSUME LibInv, Inv, NEW d \in Views, NEW c \in MadeFor(d), Invalidated(c),
                      cached \in Nat
               PROVE  cached >= view[d]
    BY DEF InvalidatedViewsShown
  <2>1. c \in Dels /\ (c = d \/ (c \in Attempts /\ target[c] = d))
    BY LibraryAssumption DEF MadeFor
  <2>2. pc[c] # "idle"
    BY <2>1 DEF Inv, Quiet, Invalidated
  <2>3. view[d] <= base[c]
    BY <2>1, <2>2 DEF LibInv, Requesting, Attempting
  <2>4. cached >= base[c]
    BY <2>1 DEF Inv, CachedShowsInvalidations
  <2>5. view[d] \in Nat /\ base[c] \in Nat
    BY <2>1, LibraryAssumption DEF LibInv, LibTypeOK, SvcTypeOK, Inv, TypeOK
  <2> QED
    BY <2>3, <2>4, <2>5
<1> QED
  BY <1>1, LibInvAlways, InvInLibrary, PTL

-----------------------------------------------------------------------------
(* What the use cases promise still holds with the outbox calling Del too. *)

\* An attempt is nobody's request.
AttemptsIdle == \A a \in Attempts : req[a] = "idle"

LibLists == AttemptsIdle /\ Lists

LEMMA LibListsInit == LibInit => LibLists
  BY ListsInit, LibraryAssumption DEF LibInit, SvcInit, LibLists, AttemptsIdle, Calls

LEMMA LibAnswers == LibInv /\ AttemptsIdle => Answering
  BY LibraryAssumption DEF LibInv, Requesting, AttemptsIdle, Answering

LEMMA LibListsNext == LibInv /\ Inv /\ LibLists /\ [LibNext]_libVars => LibLists'
<1> SUFFICES ASSUME LibInv, Inv, LibLists, [LibNext]_libVars PROVE LibLists'
  OBVIOUS
<1>0. SvcTypeOK /\ TypeOK /\ Lists /\ AttemptsIdle /\ Answering
  BY LibAnswers DEF LibInv, LibTypeOK, SvcTypeOK, LibLists
<1> USE ListCacheAssumption, LibraryAssumption DEF Calls
<1>1. ASSUME NEW l \in Loads, ListVideos(l) \/ ListStep(l) PROVE LibLists'
  BY <1>0, <1>1, ListStepKeeps DEF LibLists, AttemptsIdle
<1> DEFINE Others ==
        /\ UNCHANGED <<listGroup, joined, reply, viewed, before>>
        /\ \A l \in Loads : /\ req'[l] = req[l]
                            /\ pc[l] \in {"idle", "ok", "err"} => pc'[l] = pc[l]
                            /\ pc[l] # "idle" => pc'[l] # "idle"
        /\ \A d \in Dels : req[d] = "ok" => req'[d] = "ok" /\ view'[d] = view[d]
        /\ \A a \in Attempts : req'[a] = req[a]
<1>2. ASSUME NEW e \in Views, IncrementViews(e) \/ TxFails(e) \/ IncrementDone(e) PROVE Others
  BY <1>0, <1>2 DEF IncrementViews, TxFails, IncrementDone, Become, SvcTypeOK, vars
<1>3. ASSUME NEW e \in Views, InvalidateList(e) PROVE Others
  BY <1>0, <1>3 DEF InvalidateList, Del, Goto, Become, SvcTypeOK, TypeOK
<1>4. ASSUME NEW e \in Views, CommitView(e) PROVE Others
  BY <1>0, <1>4 DEF CommitView, TxCommit, LateCommit, Effect, Commit, Become, SvcTypeOK
<1>5. ASSUME NEW a \in Attempts, Invalidate(a) PROVE Others
  BY <1>0, <1>5 DEF Invalidate, Del, Goto, svc, TypeOK
<1>6. ASSUME CacheStep, UNCHANGED svc PROVE Others
  BY <1>0, <1>6, CacheStepKeeps DEF svc
<1>7. ASSUME UNCHANGED svcVars PROVE Others
  BY <1>7 DEF svcVars, svc, vars
<1>8. ASSUME Others PROVE LibLists'
  BY <1>0, <1>8, OthersKeepLists DEF LibLists, AttemptsIdle
<1> QED
  BY <1>1, <1>2, <1>3, <1>4, <1>5, <1>6, <1>7, <1>8
     DEF LibNext, RequestStep, Claim, MarkProcessed, GiveUp, libVars

LEMMA LibListsAlways == LibSpec => []LibLists
<1>1. LibSpec => []Inv /\ []LibInv
  BY InvInLibrary, LibInvAlways, PTL
<1> QED
  BY <1>1, LibListsInit, LibListsNext, PTL DEF LibSpec

\* Requests and outbox together get from the cache what CachePromise promises.
THEOREM LibraryKeepsPromise == LibSpec => KeepsPromise
  BY LibraryUsesCache, CacheKeepsPromise, PTL

\* With attempts at events calling Del at any time, too, an answer shows every
\* increment that was answered, in its process, before the request that leads the
\* flight it was served by was made.
THEOREM LibFlightsFreshEnough == LibSpec => []FlightsShowAnsweredViews
<1>1. LibLists => FlightsShowAnsweredViews
  BY DEF LibLists, Lists
<1> QED
  BY <1>1, LibListsAlways, PTL

\* With the outbox, too, a process runs at most one GetOrLoadVideos at a time.
THEOREM LibOneLoadAtATime == LibSpec => []LoadsOneAtATime
<1>1. LibInv /\ LibLists => LoadsOneAtATime
  BY LeadingLoads DEF LibInv, LibTypeOK, LibLists, Lists
<1> QED
  BY <1>1, LibInvAlways, LibListsAlways, PTL

\* With the outbox, too, nobody waits in a flight of ListVideos whose leader was
\* answered, forgotten or waits in turn: the flights that Del forgets are the
\* cache's own, whoever calls it.
THEOREM LibNoListWaitsInVain == LibSpec => []ListWaitersHaveFlights
<1>1. LibInv /\ LibLists /\ WaitersHaveFlights => ListWaitersHaveFlights
  BY LoadsNeverWait
     DEF LibInv, LibTypeOK, LibLists, Lists, SvcTypeOK, Waiting, ListWaitersHaveFlights
<1> QED
  BY <1>1, LibInvAlways, LibListsAlways, LibraryUsesCache, NobodyWaitsInVain, PTL

-----------------------------------------------------------------------------
(* A view that was made up for stays shown.                                *)

\* The view's event is processed, or its request answered.
MadeUpFor(d) == d \in processed \/ req[d] = "ok"

LEMMA MadeUpForGood ==
    ASSUME NEW d \in Views
    PROVE  LibInv /\ MadeUpFor(d) /\ [LibNext]_libVars => MadeUpFor(d)'
<1> SUFFICES ASSUME LibInv, MadeUpFor(d), [LibNext]_libVars PROVE MadeUpFor(d)'
  OBVIOUS
<1>0. SvcTypeOK /\ d \in Dels /\ d \notin Loads
  BY ListCacheAssumption, LibraryAssumption DEF LibInv, LibTypeOK
<1>1. CASE d \in processed
  BY <1>1 DEF LibNext, libVars, outbox, CommitView, Claim, Invalidate, MarkProcessed, GiveUp,
         MadeUpFor
<1>2. CASE req[d] = "ok"
  <2>1. ASSUME NEW l \in Loads, ListVideos(l) \/ ListStep(l) PROVE req'[d] = "ok"
    BY <1>0, <1>2, <2>1
       DEF SvcTypeOK, ListVideos, ListStep, JoinList, LeadList, LoadList, ListDone, Become, svc,
           Calls
  <2>2. ASSUME NEW e \in Views,
               IncrementViews(e) \/ TxFails(e) \/ InvalidateList(e) \/ IncrementDone(e)
        PROVE  req'[d] = "ok"
    <3>1. req[e] \in {"idle", "tx", "committed", "invalidate"}
      BY <2>2 DEF IncrementViews, TxFails, InvalidateList, IncrementDone
    <3>2. \E s : req' = [req EXCEPT ![e] = s]
      BY <2>2 DEF IncrementViews, TxFails, InvalidateList, IncrementDone, Become
    <3> QED
      BY <1>0, <1>2, <3>1, <3>2 DEF SvcTypeOK, Calls
  <2>3. ASSUME NEW e \in Views, CommitView(e) PROVE req'[d] = "ok"
    <3>1. \/ req[e] = "tx" /\ req' = [req EXCEPT ![e] = "committed"]
          \/ req' = req
      BY <2>3 DEF CommitView, TxCommit, LateCommit, Become
    <3>2. e \in Dels
      BY LibraryAssumption
    <3> QED
      BY <1>0, <1>2, <3>1, <3>2 DEF SvcTypeOK, Calls
  <2>4. ASSUME UNCHANGED svc PROVE req'[d] = "ok"
    BY <1>2, <2>4 DEF svc
  <2>5. \/ \E l \in Loads : ListVideos(l) \/ ListStep(l)
        \/ \E e \in Views : \/ IncrementViews(e) \/ TxFails(e) \/ InvalidateList(e)
                           \/ IncrementDone(e) \/ CommitView(e)
        \/ UNCHANGED svc
    BY DEF LibNext, RequestStep, Claim, Invalidate, MarkProcessed, GiveUp, libVars, svcVars
  <2>6. req'[d] = "ok"
    BY <2>1, <2>2, <2>3, <2>4, <2>5
  <2> QED
    BY <2>6 DEF MadeUpFor
<1> QED
  BY <1>1, <1>2 DEF MadeUpFor

\* Once a view's event is processed or its request answered, no list without the view
\* is ever in the shared cache again, whatever loads, scripts and resends of commands
\* were or will be under way: nothing has to be made up for twice.
THEOREM ShownForGood ==
    ASSUME NEW d \in Views
    PROVE  LibSpec => [](MadeUpFor(d) => [](cached \in Nat => cached >= view[d]))
<1>1. LibInv /\ HiddenViewsArePending /\ MadeUpFor(d) => (cached \in Nat => cached >= view[d])
  <2> SUFFICES ASSUME LibInv, HiddenViewsArePending, MadeUpFor(d), cached \in Nat
               PROVE  cached >= view[d]
    OBVIOUS
  <2>1. view[d] \in Nat
    BY LibraryAssumption DEF LibInv, LibTypeOK, SvcTypeOK
  <2> QED
    BY <2>1 DEF HiddenViewsArePending, MadeUpFor
<1>2. LibSpec => []LibInv /\ []HiddenViewsArePending /\ [][LibNext]_libVars
  BY LibInvAlways, HiddenViewsPending, PTL DEF LibSpec
<1> QED
  BY <1>1, <1>2, MadeUpForGood, PTL

\* No view request's answer is hidden from the list by an attempt that runs late.
THEOREM LibAnsweredViewsInCache == LibSpec => []AnsweredViewsNotHidden
<1>1. LibInv /\ LibLists /\ Inv => AnsweredViewsNotHidden
  BY LibAnswers, AnsweringShows DEF LibLists, LibInv, LibTypeOK
<1> QED
  BY <1>1, LibInvAlways, LibListsAlways, InvInLibrary, PTL

=============================================================================
