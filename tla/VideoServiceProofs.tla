------------------------- MODULE VideoServiceProofs -------------------------
(***************************************************************************)
(* The safety properties of VideoService, for any number of requests and   *)
(* processes.                                                              *)
(*                                                                         *)
(* A step of the service is a step of ListCache, so the invariant Inv of   *)
(* ListCacheProofs holds of the cache in it.  What is left to add is how   *)
(* the requests drive the cache: a load runs only for the request that     *)
(* leads the registered flight (Leading), who joined a flight waits for    *)
(* its leader (Waiting), Del is called after the commit (Viewing), and     *)
(* what was answered before a flight's leader made its request had         *)
(* returned from Del before the flight's load began (ViewedAnswered).      *)
(*                                                                         *)
(* Of view requests the list requests need no more than that one which is  *)
(* answered has returned from a Del it called after its commit             *)
(* (Answering): Lists is kept whoever else calls Del.                      *)
(***************************************************************************)
EXTENDS VideoService, ListCacheProofs

\* The registered flight is led by a request of the process, and a request has a
\* load under way only while it leads.
Leading ==
    /\ \A p \in Instances : listGroup[p] # None =>
        req[listGroup[p]] = "lead" /\ InstanceOf[listGroup[p]] = p
    /\ \A l \in Loads :
        /\ req[l] \in {"idle", "list", "wait"} => pc[l] = "idle"
        /\ req[l] \in {"ok", "err"} => pc[l] \in {"idle", "ok", "err"}
        /\ req[l] = "lead" => listGroup[InstanceOf[l]] = l
        /\ req[l] \in {"idle", "list", "lead"} => joined[l] = l
        /\ req[l] # "idle" => req[joined[l]] # "idle"

\* Who joined a flight waits for the request of its process that leads it.
Waiting ==
    \A m \in Loads : req[m] = "wait" =>
        req[joined[m]] = "lead" /\ InstanceOf[joined[m]] = InstanceOf[m]

\* A view request calls Del once it has committed.
Viewing ==
    \A d \in Dels :
        /\ req[d] \in {"idle", "tx"} => view[d] = 0
        /\ req[d] \in {"idle", "tx", "committed"} => pc[d] = "idle"
        /\ req[d] = "committed" => view[d] > 0
        /\ view[d] <= db
        /\ pc[d] # "idle" => view[d] > 0 /\ view[d] <= base[d]
        /\ req[d] = "ok" => pc[d] = "ok"

Answering == \A d \in Dels : req[d] = "ok" => pc[d] = "ok" /\ view[d] <= base[d]

\* What was answered before a request had returned from Del before its load.
ViewedAnswered ==
    \A l \in Loads : \A d \in viewed[l] :
        /\ req[d] = "ok"
        /\ InstanceOf[d] = InstanceOf[l]
        /\ pc[l] # "idle" => d \in before[l]

Lists == Leading /\ Waiting /\ ViewedAnswered /\ FlightsShowAnsweredViews

SvcInv == SvcTypeOK /\ Viewing /\ Lists

LEMMA ListsInit == SvcInit => Lists
  BY ListCacheAssumption
     DEF SvcInit, Init, Calls, Lists, Leading, Waiting, ViewedAnswered, FlightsShowAnsweredViews

LEMMA SvcInvInit == SvcInit => SvcInv
<1> SUFFICES ASSUME SvcInit PROVE SvcInv
  OBVIOUS
<1>1. SvcTypeOK
  BY TypeInit, ListCacheAssumption DEF SvcInit, Calls, SvcTypeOK, ListStates, ViewStates
<1>2. Viewing
  BY DEF SvcInit, Init, Calls, Viewing
<1> QED
  BY <1>1, <1>2, ListsInit DEF SvcInv

-----------------------------------------------------------------------------
(* What the steps of list requests, and those of everybody else, do to the *)
(* list requests.                                                          *)

LEMMA ListStepKeeps ==
    ASSUME SvcTypeOK, Inv, Answering, Lists, NEW l \in Loads, ListVideos(l) \/ ListStep(l)
    PROVE  /\ SvcTypeOK' /\ Lists'
           /\ UNCHANGED <<db, base, view>>
           /\ \A d \in Dels : pc'[d] = pc[d] /\ req'[d] = req[d]
<1> DEFINE Kept == /\ SvcTypeOK' /\ Lists'
                   /\ UNCHANGED <<db, base, view>>
                   /\ \A d \in Dels : pc'[d] = pc[d] /\ req'[d] = req[d]
<1> USE ListCacheAssumption
    DEF TypeOK, SvcTypeOK, Calls, ListStates, ViewStates, LoadStates, DelStates, Become, svc,
        vars, redis, Lists
<1>1. CASE ListVideos(l)
  <2>1. Leading' /\ Waiting'
    BY <1>1 DEF ListVideos, Leading, Waiting
  <2>2. ViewedAnswered'
    BY <1>1 DEF ListVideos, ViewedAnswered, Leading
  <2>3. FlightsShowAnsweredViews'
    BY <1>1 DEF ListVideos, FlightsShowAnsweredViews, Leading
  <2>4. SvcTypeOK'
    BY <1>1 DEF ListVideos
  <2> QED
    BY <1>1, <2>1, <2>2, <2>3, <2>4 DEF ListVideos
<1>2. CASE JoinList(l)
  <2>1. InstanceOf[l] \in Instances /\ listGroup[InstanceOf[l]] \in Loads
    BY <1>2 DEF JoinList
  <2>2. /\ req[listGroup[InstanceOf[l]]] = "lead"
        /\ InstanceOf[listGroup[InstanceOf[l]]] = InstanceOf[l]
    BY <1>2, <2>1 DEF JoinList, Leading
  <2>3. Leading'
    BY <1>2, <2>1, <2>2 DEF JoinList, Leading
  <2>4. Waiting'
    BY <1>2, <2>1, <2>2 DEF JoinList, Waiting
  <2>5. ViewedAnswered' /\ FlightsShowAnsweredViews'
    BY <1>2 DEF JoinList, ViewedAnswered, FlightsShowAnsweredViews
  <2>6. SvcTypeOK'
    BY <1>2 DEF JoinList
  <2> QED
    BY <1>2, <2>3, <2>4, <2>5, <2>6 DEF JoinList
<1>3. CASE LeadList(l)
  <2>1. Leading' /\ Waiting'
    BY <1>3 DEF LeadList, Leading, Waiting
  <2>2. ViewedAnswered' /\ FlightsShowAnsweredViews'
    BY <1>3 DEF LeadList, ViewedAnswered, FlightsShowAnsweredViews
  <2>3. SvcTypeOK'
    BY <1>3 DEF LeadList
  <2> QED
    BY <1>3, <2>1, <2>2, <2>3 DEF LeadList
<1>4. CASE LoadList(l)
  <2>1. Leading' /\ Waiting'
    BY <1>4 DEF LoadList, GetOrLoadVideos, Goto, Leading, Waiting
  <2>2. ViewedAnswered' /\ FlightsShowAnsweredViews'
    BY <1>4 DEF LoadList, GetOrLoadVideos, Goto, ViewedAnswered, FlightsShowAnsweredViews,
                Answering
  <2>3. SvcTypeOK'
    BY <1>4 DEF LoadList, GetOrLoadVideos, Goto, Inv
  <2> QED
    BY <1>4, <2>1, <2>2, <2>3 DEF LoadList, GetOrLoadVideos, Goto
<1>5. CASE ListDone(l)
  <2>1. /\ joined' = joined /\ pc[l] \in {"ok", "err"} /\ req[l] = "lead"
        /\ \A c \in Calls : req'[c] = IF c \in Loads /\ req[c] \in {"lead", "wait"} /\ joined[c] = l
                                      THEN pc[l] ELSE req[c]
    BY <1>5 DEF ListDone
  <2>2. Leading'
    BY <1>5 DEF ListDone, Leading
  <2>3. Waiting'
    <3> SUFFICES ASSUME NEW m \in Loads, req'[m] = "wait"
                 PROVE  req'[joined[m]] = "lead" /\ InstanceOf[joined[m]] = InstanceOf[m]
      BY <2>1 DEF Waiting
    <3>1. req[m] = "wait" /\ joined[m] # l
      BY <2>1
    <3>2. joined[m] \in Loads /\ req[joined[m]] = "lead" /\ InstanceOf[joined[m]] = InstanceOf[m]
      BY <3>1 DEF Waiting
    <3>3. joined[joined[m]] = joined[m]
      BY <3>2 DEF Leading
    <3> QED
      BY <2>1, <3>1, <3>2, <3>3
  <2>4. ViewedAnswered'
    BY <1>5 DEF ListDone, ViewedAnswered
  <2>5. FlightsShowAnsweredViews'
    <3> SUFFICES ASSUME NEW m \in Loads, req'[m] = "ok", NEW d \in viewed[joined[m]]
                 PROVE  reply'[m] >= view[d]
      BY <1>5 DEF ListDone, FlightsShowAnsweredViews
    <3>1. CASE req[m] = "ok"
      BY <1>5, <3>1 DEF ListDone, FlightsShowAnsweredViews
    <3>2. CASE req[m] # "ok"
      <4>1. joined[m] = l /\ pc[l] = "ok" /\ reply'[m] = list[l]
        BY <1>5, <3>2 DEF ListDone
      <4>2. req[d] = "ok" /\ d \in before[l]
        BY <4>1 DEF ViewedAnswered
      <4>3. view[d] <= base[d] /\ base[d] <= list[l]
        BY <4>1, <4>2 DEF Answering, Inv, ReadsShowInvalidations
      <4> QED
        BY <4>1, <4>2, <4>3
    <3> QED
      BY <3>1, <3>2
  <2>6. SvcTypeOK'
    BY <1>5 DEF ListDone
  <2> QED
    BY <1>5, <2>2, <2>3, <2>4, <2>5, <2>6 DEF ListDone
<1> QED
  BY <1>1, <1>2, <1>3, <1>4, <1>5 DEF ListStep

LEMMA OthersKeepLists ==
    ASSUME SvcTypeOK, Lists, UNCHANGED <<listGroup, joined, reply, viewed, before>>,
           \A l \in Loads : /\ req'[l] = req[l]
                            /\ pc[l] \in {"idle", "ok", "err"} => pc'[l] = pc[l]
                            /\ pc[l] # "idle" => pc'[l] # "idle",
           \A d \in Dels : req[d] = "ok" => req'[d] = "ok" /\ view'[d] = view[d]
    PROVE  Lists'
<1> USE DEF SvcTypeOK, Lists
<1>1. Leading' /\ Waiting'
  BY DEF Leading, Waiting
<1>2. ViewedAnswered'
  BY DEF ViewedAnswered
<1>3. FlightsShowAnsweredViews'
  <2> SUFFICES ASSUME NEW l \in Loads, req[l] = "ok", NEW d \in viewed[joined[l]]
               PROVE  reply[l] >= view'[d]
    BY DEF FlightsShowAnsweredViews
  <2>1. d \in Dels /\ req[d] = "ok"
    BY DEF ViewedAnswered
  <2> QED
    BY <2>1 DEF FlightsShowAnsweredViews
<1> QED
  BY <1>1, <1>2, <1>3

LEMMA CacheSteps == CacheStep => Next
  BY DEF CacheStep, Next

\* Whatever the requests do, the cache below them does what ListCache allows.
LEMMA ServiceUsesCache == SvcSpec => Spec
<1>1. SvcInit => Init
  BY DEF SvcInit
<1>2. [SvcNext]_svcVars => [Next]_vars
  <2> SUFFICES ASSUME SvcNext PROVE [Next]_vars
    BY DEF svcVars
  <2>1. ASSUME NEW l \in Loads, ListVideos(l) \/ ListStep(l) PROVE [Next]_vars
    BY <2>1 DEF ListVideos, ListStep, JoinList, LeadList, LoadList, ListDone, Next
  <2>2. ASSUME NEW d \in Dels, IncrementViews(d) \/ ViewStep(d) \/ LateCommit(d)
        PROVE  [Next]_vars
    BY <2>2 DEF IncrementViews, ViewStep, TxCommit, TxFails, LateCommit, Effect,
                InvalidateList, IncrementDone, Next
  <2> QED
    BY <2>1, <2>2, CacheSteps DEF SvcNext
<1> QED
  BY <1>1, <1>2, PTL DEF SvcSpec, Spec

\* A step of the cache moves only calls that are under way, keeps them from being
\* idle again and leaves the database and the histories alone.
LEMMA CacheStepKeeps ==
    ASSUME TypeOK, CacheStep
    PROVE  /\ UNCHANGED <<db, base, before>>
           /\ \A c \in Calls : pc[c] \in {"idle", "ok", "err"} => pc'[c] = pc[c]
           /\ \A c \in Calls : pc[c] # "idle" => pc'[c] # "idle"
<1> USE DEF TypeOK, Calls, Goto, redis
<1> DEFINE Keeps == /\ UNCHANGED <<db, base, before>>
                    /\ \A c \in Calls : pc[c] \in {"idle", "ok", "err"} => pc'[c] = pc[c]
                    /\ \A c \in Calls : pc[c] # "idle" => pc'[c] # "idle"
<1>1. ASSUME NEW l \in Loads, Loaded(l) \/ LoadFails(l) PROVE Keeps
  BY <1>1 DEF Loaded, LoadFails, Deliver, Joined
<1>2. ASSUME NEW l \in Loads, LoadStep(l), ~ Loaded(l), ~ LoadFails(l) PROVE Keeps
  BY <1>2 DEF LoadStep, Hit, HitCorrupt, Repair, Repaired, Miss, Join, Lead, ReadVersion,
              LoadVideos
<1>3. ASSUME NEW d \in Dels, DelStep(d) PROVE Keeps
  BY <1>3 DEF DelStep, DelReturns, DelFails
<1>4. ASSUME NEW c \in Calls, Resend(c) \/ \E k \in Copies : RunIncr(c, k) \/ RunDel(c, k)
      PROVE  Keeps
  BY <1>4 DEF Resend, RunIncr, RunDel
<1>5. ASSUME NEW l \in Loads, NEW k \in Copies, RunScript(l, k) PROVE Keeps
  BY <1>5 DEF RunScript
<1>6. CASE Expire \/ WriteGarbage
  BY <1>6 DEF Expire, WriteGarbage
<1> QED
  BY <1>1, <1>2, <1>3, <1>4, <1>5, <1>6 DEF CacheStep

LEMMA InvInService == SvcSpec => []Inv
  BY ServiceUsesCache, InvAlways, PTL

LEMMA ViewingAnswers == SvcInv => Answering
  BY DEF SvcInv, Viewing, Answering

LEMMA SvcInvNext == SvcInv /\ Inv /\ Inv' /\ [SvcNext]_svcVars => SvcInv'
<1> SUFFICES ASSUME SvcInv, Inv, Inv', [SvcNext]_svcVars PROVE SvcInv'
  OBVIOUS
<1>0. SvcTypeOK /\ Lists /\ Answering /\ TypeOK /\ TypeOK'
  BY ViewingAnswers DEF SvcInv, Inv
<1>1. ASSUME NEW l \in Loads, ListVideos(l) \/ ListStep(l) PROVE SvcInv'
  BY <1>0, <1>1, ListStepKeeps DEF SvcInv, Viewing
<1> USE ListCacheAssumption DEF Calls
<1> DEFINE Others ==
        /\ UNCHANGED <<listGroup, joined, reply, viewed, before>>
        /\ \A l \in Loads : req'[l] = req[l] /\ pc'[l] = pc[l]
        /\ \A d \in Dels : req[d] = "ok" => req'[d] = "ok" /\ view'[d] = view[d]
<1>2. ASSUME NEW e \in Dels, IncrementViews(e) PROVE SvcInv'
  <2>1. SvcTypeOK' /\ Others
    BY <1>0, <1>2 DEF IncrementViews, Become, SvcTypeOK, ViewStates, vars
  <2>2. Viewing'
    BY <1>0, <1>2 DEF IncrementViews, Become, SvcTypeOK, vars, SvcInv, Viewing
  <2> QED
    BY <1>0, <2>1, <2>2, OthersKeepLists DEF SvcInv
<1>3. ASSUME NEW e \in Dels, TxCommit(e) \/ LateCommit(e) PROVE SvcInv'
  <2>1. /\ db' = db + 1 /\ view[e] = 0 /\ pc'[e] = pc[e] /\ pc[e] = "idle"
        /\ view' = [view EXCEPT ![e] = db + 1]
        /\ UNCHANGED <<pc, base>>
        /\ req[e] \in {"tx", "err"} /\ req'[e] \in {"committed", "err"}
        /\ \A d \in Dels : d # e => req'[d] = req[d]
    BY <1>0, <1>3 DEF TxCommit, LateCommit, Effect, Commit, Become, SvcTypeOK, SvcInv, Viewing
  <2>2. SvcTypeOK'
    <3>1. view' \in [Dels -> Nat]
      BY <1>0, <2>1 DEF SvcTypeOK, TypeOK
    <3>2. /\ req' \in [Calls -> ListStates \cup ViewStates]
          /\ \A l \in Loads : req'[l] = req[l]
          /\ \A d \in Dels : req'[d] \in ViewStates
      BY <1>0, <1>3 DEF TxCommit, LateCommit, Become, SvcTypeOK, ViewStates
    <3> QED
      BY <1>0, <1>3, <3>1, <3>2 DEF TxCommit, LateCommit, Effect, SvcTypeOK
  <2>3. Others
    BY <1>0, <1>3, <2>1 DEF TxCommit, LateCommit, Effect, Commit, Become, SvcTypeOK
  <2>4. Viewing'
    BY <1>0, <2>1 DEF SvcTypeOK, TypeOK, SvcInv, Viewing
  <2> QED
    BY <1>0, <2>2, <2>3, <2>4, OthersKeepLists DEF SvcInv
<1>4. ASSUME NEW e \in Dels, TxFails(e) PROVE SvcInv'
  <2>1. SvcTypeOK' /\ Others
    BY <1>0, <1>4 DEF TxFails, Become, SvcTypeOK, ViewStates, vars
  <2>2. Viewing'
    BY <1>0, <1>4 DEF TxFails, Become, SvcTypeOK, vars, SvcInv, Viewing
  <2> QED
    BY <1>0, <2>1, <2>2, OthersKeepLists DEF SvcInv
<1>5. ASSUME NEW e \in Dels, InvalidateList(e) PROVE SvcInv'
  <2>1. SvcTypeOK' /\ Others
    BY <1>0, <1>5 DEF InvalidateList, Del, Goto, Become, SvcTypeOK, TypeOK, ViewStates
  <2>2. Viewing'
    BY <1>0, <1>5 DEF InvalidateList, Del, Goto, Become, SvcTypeOK, TypeOK, SvcInv, Viewing
  <2> QED
    BY <1>0, <2>1, <2>2, OthersKeepLists DEF SvcInv
<1>6. ASSUME NEW e \in Dels, IncrementDone(e) PROVE SvcInv'
  <2>1. SvcTypeOK' /\ Others
    BY <1>0, <1>6 DEF IncrementDone, Become, SvcTypeOK, ViewStates, vars
  <2>2. Viewing'
    BY <1>0, <1>6 DEF IncrementDone, Become, SvcTypeOK, vars, SvcInv, Viewing
  <2> QED
    BY <1>0, <2>1, <2>2, OthersKeepLists DEF SvcInv
<1>7. ASSUME CacheStep, UNCHANGED svc PROVE SvcInv'
  <2>1. SvcTypeOK'
    BY <1>0, <1>7 DEF svc, SvcTypeOK
  <2>2. Viewing'
    BY <1>0, <1>7, CacheStepKeeps DEF svc, SvcInv, Viewing
  <2>3. Lists'
    BY <1>0, <1>7, CacheStepKeeps, OthersKeepLists DEF svc
  <2> QED
    BY <2>1, <2>2, <2>3 DEF SvcInv
<1>8. CASE UNCHANGED svcVars
  <2>1. SvcTypeOK' /\ Others
    BY <1>0, <1>8 DEF svcVars, svc, vars, SvcTypeOK
  <2>2. Viewing'
    BY <1>8 DEF svcVars, svc, vars, SvcInv, Viewing
  <2> QED
    BY <1>0, <2>1, <2>2, OthersKeepLists DEF SvcInv
<1> QED
  BY <1>1, <1>2, <1>3, <1>4, <1>5, <1>6, <1>7, <1>8 DEF SvcNext, ViewStep

LEMMA SvcInvAlways == SvcSpec => []SvcInv
<1>1. SvcSpec => []Inv
  BY InvInService
<1> QED
  BY <1>1, SvcInvInit, SvcInvNext, PTL DEF SvcSpec

\* What a request's own Del has invalidated is not in the cache without its view.
LEMMA AnsweringShows == SvcTypeOK /\ Answering /\ Inv => AnsweredViewsNotHidden
<1> SUFFICES ASSUME SvcTypeOK, Answering, Inv, cached \in Nat, NEW d \in Dels, req[d] = "ok"
             PROVE  cached >= view[d]
  BY DEF AnsweredViewsNotHidden
<1>1. Invalidated(d) /\ view[d] <= base[d]
  BY DEF Answering, Inv, ReturnedRan
<1>2. cached >= base[d]
  BY <1>1 DEF Inv, CachedShowsInvalidations
<1> QED
  BY <1>1, <1>2 DEF SvcTypeOK, TypeOK

LEMMA LeadingLoads == SvcTypeOK /\ Leading => LoadsOneAtATime
  BY DEF SvcTypeOK, TypeOK, Leading, LoadsOneAtATime, Calls, LoadStates, DelStates, ListStates,
         ViewStates

\* The state of the use cases has its type: a request is where its kind of request can
\* be, and a flight of ListVideos is registered under a list request.
THEOREM SvcTypeCorrect == SvcSpec => []SvcTypeOK
<1>1. SvcInv => SvcTypeOK
  BY DEF SvcInv
<1> QED
  BY <1>1, SvcInvAlways, PTL

\* Once a view request of any process is answered, no list without its increment
\* is in the shared cache.
THEOREM AnsweredViewsInCache == SvcSpec => []AnsweredViewsNotHidden
<1>1. SvcInv /\ Inv => AnsweredViewsNotHidden
  BY ViewingAnswers, AnsweringShows DEF SvcInv
<1> QED
  BY <1>1, SvcInvAlways, InvInService, PTL

\* An answer shows every increment that was answered, in its process, before the
\* request that leads the flight it was served by was made.
THEOREM FlightsFreshEnough == SvcSpec => []FlightsShowAnsweredViews
<1>1. SvcInv => FlightsShowAnsweredViews
  BY DEF SvcInv, Lists
<1> QED
  BY <1>1, SvcInvAlways, PTL

\* A process runs at most one GetOrLoadVideos at a time.
THEOREM OneLoadAtATime == SvcSpec => []LoadsOneAtATime
<1>1. SvcInv => LoadsOneAtATime
  BY LeadingLoads DEF SvcInv, Lists
<1> QED
  BY <1>1, SvcInvAlways, PTL

-----------------------------------------------------------------------------
(* What holds of the cache holds of it under the use cases.                *)

\* The use cases get from the cache what CachePromise promises, and nothing they do
\* breaks it.
THEOREM ServiceKeepsPromise == SvcSpec => KeepsPromise
  BY ServiceUsesCache, CacheKeepsPromise, PTL

-----------------------------------------------------------------------------
(* A request that joined a flight of ListVideos is not left behind.        *)

\* Who joined a flight waits for a request of its process that leads and has not been
\* answered, and whose load is called, under way or done but never waits for the
\* load of another: no chain of waiting is longer than one.
ListWaitersHaveFlights ==
    \A m \in Loads : req[m] = "wait" =>
        /\ req[joined[m]] = "lead" /\ InstanceOf[joined[m]] = InstanceOf[m]
        /\ pc[joined[m]] # "wait"

\* Who joined a flight of ListVideos is answered in the step in which its leader is,
\* with the leader's outcome and list, and keeps waiting for it until then.
ListWaitersEndWithFlight == [][
    \A m \in Loads : req[m] = "wait" =>
        \/ req'[joined[m]] = "lead" /\ req'[m] = "wait" /\ joined'[m] = joined[m]
        \/ /\ req'[joined[m]] \in {"ok", "err"} /\ req'[m] = req'[joined[m]]
           /\ req'[m] = "ok" => reply'[m] = reply'[joined[m]]]_svcVars

\* The cache's own group never has a call to join, so a load never waits.
LEMMA LoadsNeverWait ==
    ASSUME SvcTypeOK, Leading, WaitersHaveFlights, NEW m \in Loads
    PROVE  pc[m] # "wait"
<1> SUFFICES ASSUME pc[m] = "wait" PROVE FALSE
  OBVIOUS
<1>1. PICK l \in Loads : waitsFor[m] = l /\ Loading(l) /\ InstanceOf[l] = InstanceOf[m]
  BY DEF WaitersHaveFlights
<1>2. req[m] = "lead" /\ req[l] = "lead"
  BY <1>1 DEF SvcTypeOK, ListStates, Leading, Loading
<1>3. l = m
  BY <1>1, <1>2 DEF Leading
<1> QED
  BY <1>1, <1>3 DEF Loading

\* Nobody waits in a flight of ListVideos whose leader was answered, forgotten or
\* waits in turn.
THEOREM NoListWaitsInVain == SvcSpec => []ListWaitersHaveFlights
<1>1. SvcInv /\ WaitersHaveFlights => ListWaitersHaveFlights
  BY LoadsNeverWait DEF SvcInv, Lists, SvcTypeOK, Waiting, ListWaitersHaveFlights
<1> QED
  BY <1>1, SvcInvAlways, ServiceUsesCache, NobodyWaitsInVain, PTL

\* The end of a flight of ListVideos answers everyone who joined it.
THEOREM ListFlightsServeWaiters == SvcSpec => ListWaitersEndWithFlight
<1> DEFINE Serves ==
        \A m \in Loads : req[m] = "wait" =>
            \/ req'[joined[m]] = "lead" /\ req'[m] = "wait" /\ joined'[m] = joined[m]
            \/ /\ req'[joined[m]] \in {"ok", "err"} /\ req'[m] = req'[joined[m]]
               /\ req'[m] = "ok" => reply'[m] = reply'[joined[m]]
<1>1. SvcInv /\ [SvcNext]_svcVars => Serves
  <2> SUFFICES ASSUME SvcInv, [SvcNext]_svcVars, NEW m \in Loads, req[m] = "wait"
               PROVE  \/ /\ req'[joined[m]] = "lead" /\ req'[m] = "wait"
                         /\ joined'[m] = joined[m]
                      \/ /\ req'[joined[m]] \in {"ok", "err"} /\ req'[m] = req'[joined[m]]
                         /\ req'[m] = "ok" => reply'[m] = reply'[joined[m]]
    OBVIOUS
  <2> DEFINE l == joined[m]
  <2>0. /\ SvcTypeOK /\ l \in Loads /\ req[l] = "lead" /\ joined[l] = l
        /\ \A x \in Loads : req[x] = "lead" => joined[x] = x
    BY DEF SvcInv, Lists, SvcTypeOK, Leading, Waiting
  <2> HIDE DEF l
  <2> DEFINE Waits == req'[l] = "lead" /\ req'[m] = "wait" /\ joined'[m] = l
             Ends  == /\ req'[l] \in {"ok", "err"} /\ req'[m] = req'[l]
                      /\ req'[m] = "ok" => reply'[m] = reply'[l]
  <2> USE ListCacheAssumption, <2>0 DEF SvcTypeOK, Calls, Become
  <2>1. ASSUME NEW x \in Loads, ListVideos(x) \/ JoinList(x) \/ LeadList(x) PROVE Waits
    BY <2>1 DEF ListVideos, JoinList, LeadList, l
  <2>2. ASSUME UNCHANGED svc PROVE Waits
    BY <2>2 DEF svc, l
  <2>3. ASSUME NEW x \in Loads, ListDone(x) PROVE Waits \/ Ends
    BY <2>3 DEF ListDone, l
  <2>4. ASSUME NEW d \in Dels, IncrementViews(d) \/ ViewStep(d) \/ LateCommit(d) PROVE Waits
    BY <2>4 DEF IncrementViews, ViewStep, TxCommit, TxFails, LateCommit, Effect,
                InvalidateList, IncrementDone, l
  <2>5. Waits \/ Ends
    BY <2>1, <2>2, <2>3, <2>4 DEF SvcNext, ListStep, LoadList, svcVars
  <2> QED
    BY <2>5 DEF l
<1> QED
  BY <1>1, SvcInvAlways, PTL DEF SvcSpec, ListWaitersEndWithFlight

\* What a request has before it at most, its calls of the cache apart.
RequestLeft == [s \in ListStates \cup ViewStates |->
    CASE s = "idle" -> 4
      [] s \in {"list", "tx"} -> 3
      [] s = "committed" -> 2
      [] s \in {"ok", "err"} -> 0
      [] OTHER -> 1]

\* No request of the use cases goes back or starts over, not even one whose increment
\* takes effect after it has been answered with an error: what a step does to the
\* requests takes them nearer to their answers.
RequestsGoForward == [][
    \/ req' = req
    \/ /\ \E c \in Calls : RequestLeft[req'[c]] < RequestLeft[req[c]]
       /\ \A c \in Calls : RequestLeft[req'[c]] <= RequestLeft[req[c]]]_svcVars

LEMMA RequestOrder ==
    /\ \A s \in ListStates \cup ViewStates : RequestLeft[s] \in 0 .. 4
    /\ RequestLeft["idle"] = 4 /\ RequestLeft["list"] = 3 /\ RequestLeft["tx"] = 3
    /\ RequestLeft["committed"] = 2 /\ RequestLeft["invalidate"] = 1
    /\ RequestLeft["lead"] = 1 /\ RequestLeft["wait"] = 1
    /\ RequestLeft["ok"] = 0 /\ RequestLeft["err"] = 0
BY DEF RequestLeft, ListStates, ViewStates

\* A request ends after a bounded number of steps of its own and of its calls of the
\* cache (CallsComeToAnEnd), of which none is made twice.
THEOREM RequestsComeToAnEnd == SvcSpec => RequestsGoForward /\ CallsGoForward
<1> DEFINE Forward == /\ \E c \in Calls : RequestLeft[req'[c]] < RequestLeft[req[c]]
                      /\ \A c \in Calls : RequestLeft[req'[c]] <= RequestLeft[req[c]]
<1>1. ASSUME SvcTypeOK, [SvcNext]_svcVars PROVE req' = req \/ Forward
  <2>0. \A c \in Calls : req[c] \in ListStates \cup ViewStates
    BY <1>1 DEF SvcTypeOK
  <2>1. ASSUME NEW c \in Calls, NEW state \in ListStates \cup ViewStates,
               req' = [req EXCEPT ![c] = state], RequestLeft[state] < RequestLeft[req[c]]
        PROVE  Forward
    <3>1. \A e \in Calls : req'[e] = IF e = c THEN state ELSE req[e]
      BY <1>1, <2>1 DEF SvcTypeOK
    <3> QED
      BY <2>0, <2>1, <3>1, RequestOrder
  <2> DEFINE Moves(c) == \E state \in ListStates \cup ViewStates :
                 req' = [req EXCEPT ![c] = state] /\ RequestLeft[state] < RequestLeft[req[c]]
  <2>2. ASSUME NEW l \in Loads, ListDone(l) PROVE req' = req \/ Forward
    <3>1. pc[l] \in {"ok", "err"} /\ req[l] = "lead"
      BY <2>2 DEF ListDone
    <3>2. \A c \in Calls : \/ req'[c] = req[c]
                           \/ req[c] \in {"lead", "wait"} /\ req'[c] = pc[l]
      BY <2>2 DEF ListDone
    <3>3. req = [c \in Calls |-> req[c]] /\ req' = [c \in Calls |-> req'[c]]
      BY <1>1, <2>2 DEF SvcTypeOK, ListDone
    <3>4. CASE \A c \in Calls : req'[c] = req[c]
      BY <3>3, <3>4
    <3>5. CASE \E c \in Calls : req'[c] # req[c]
      BY <2>0, <3>1, <3>2, <3>5, RequestOrder
    <3> QED
      BY <3>4, <3>5
  <2>3. ASSUME NEW l \in Loads, ListVideos(l) \/ JoinList(l) \/ LeadList(l) PROVE Moves(l)
    BY <2>3, RequestOrder DEF ListVideos, JoinList, LeadList, Become, ListStates
  <2>4. ASSUME NEW d \in Dels, IncrementViews(d) \/ ViewStep(d) PROVE Moves(d)
    BY <2>4, RequestOrder
       DEF IncrementViews, ViewStep, TxCommit, TxFails, InvalidateList, IncrementDone, Become,
           ViewStates
  <2>5. ASSUME NEW d \in Dels, LateCommit(d) PROVE req' = req
    BY <2>5 DEF LateCommit
  <2>6. ASSUME NEW l \in Loads, LoadList(l) PROVE req' = req
    BY <2>6 DEF LoadList, svc
  <2>7. CASE UNCHANGED svc
    BY <2>7 DEF svc
  <2>8. \A c \in Calls : Moves(c) => Forward
    BY <2>1
  <2>9. Loads \subseteq Calls /\ Dels \subseteq Calls
    BY DEF Calls
  <2> HIDE DEF Forward, Moves
  <2>10. CASE \E l \in Loads : ListVideos(l) \/ ListStep(l)
    BY <2>2, <2>3, <2>6, <2>8, <2>9, <2>10 DEF ListStep
  <2>11. CASE \E d \in Dels : IncrementViews(d) \/ ViewStep(d) \/ LateCommit(d)
    BY <2>4, <2>5, <2>8, <2>9, <2>11
  <2>12. CASE UNCHANGED svcVars
    BY <2>7, <2>12 DEF svcVars
  <2> QED
    BY <1>1, <2>7, <2>10, <2>11, <2>12 DEF SvcNext
<1>2. SvcTypeOK /\ [SvcNext]_svcVars => [req' = req \/ Forward]_svcVars
  BY <1>1
<1>3. SvcSpec => RequestsGoForward
  BY <1>2, SvcTypeCorrect, PTL DEF SvcSpec, RequestsGoForward
<1>4. SvcSpec => CallsGoForward
  BY ServiceUsesCache, CallsComeToAnEnd, PTL
<1> QED
  BY <1>3, <1>4, PTL

=============================================================================
