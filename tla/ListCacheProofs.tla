-------------------------- MODULE ListCacheProofs --------------------------
(***************************************************************************)
(* The safety properties of ListCache, for any number of calls, processes, *)
(* transmissions and commits.                                              *)
(*                                                                         *)
(* Neither property is inductive.  That a cached list shows every          *)
(* invalidation that has run rests on what the script compares: a list     *)
(* still to be stored whose version is current shows every invalidation    *)
(* whose INCR has run (ScriptsFresh).  That a returned list shows the      *)
(* invalidations that preceded the call rests on what joining means: the   *)
(* list of a flight that can still be joined shows every Del called in its *)
(* process (FlightsFresh), and hence every Del a joined call started after *)
(* (JoinedFresh).                                                          *)
(*                                                                         *)
(* The last parts show that ListCache implements CachePromise, and that no *)
(* call waits in vain or goes round in circles.                            *)
(***************************************************************************)
EXTENDS ListCache, TLAPS

\* The INCR of an invalidation has run.
Bumped(d) == Has(d, "del") \/ Has(d, "deleted")

\* A call of Del sends nothing before it starts, a load sends no script before
\* it has the list, and a load that still waits for GET or a flight sent nothing.
Quiet ==
    /\ \A d \in Dels, state \in {"incr", "del", "deleted"} :
        pc[d] = "idle" => ~ Has(d, state)
    /\ \A l \in Loads :
        pc[l] \in {"idle", "get", "corrupt", "repair", "do", "wait", "version", "load"} =>
            ~ Has(l, "set")

\* No invalidation was called at a later database state than the present one,
\* and one that returned has run.
BasesPast == \A d \in Dels : base[d] <= db
ReturnedRan == \A d \in Dels : pc[d] = "ok" => Invalidated(d)

VersionsPast == \A l \in Loads : seen[l] <= version

ScriptsFresh ==
    \A l \in Loads : (pc[l] = "set" \/ Has(l, "set")) /\ seen[l] = version =>
        \A d \in Dels : Bumped(d) => list[l] >= base[d]

\* What a call started after was called and has not been called again.
BeforeReturned ==
    \A l \in Loads : \A d \in before[l] :
        pc[d] = "ok" /\ InstanceOf[d] = InstanceOf[l] /\ (pc[l] = "set" => list[l] >= base[d])

FlightsFresh ==
    \A p \in Instances, l \in Loads : group[p] = l /\ pc[l] = "set" =>
        \A d \in Dels : InstanceOf[d] = p /\ pc[d] # "idle" => list[l] >= base[d]

JoinedFresh ==
    \A m, l \in Loads : pc[m] = "wait" /\ waitsFor[m] = l /\ pc[l] = "set" =>
        \A d \in before[m] : list[l] >= base[d]

Inv ==
    /\ TypeOK
    /\ Quiet
    /\ BasesPast
    /\ ReturnedRan
    /\ VersionsPast
    /\ ScriptsFresh
    /\ BeforeReturned
    /\ FlightsFresh
    /\ JoinedFresh
    /\ CachedShowsInvalidations
    /\ ReadsShowInvalidations

-----------------------------------------------------------------------------
(* What sending and running a transmission do to the wire.                 *)

LEMMA SendChanges ==
    ASSUME wire \in [Calls -> [Copies -> WireStates]],
           NEW c \in Calls, NEW s \in WireStates, Send(c, s)
    PROVE  /\ wire' \in [Calls -> [Copies -> WireStates]]
           /\ \A e \in Calls, x \in WireStates :
                /\ Has(e, x)' => Has(e, x) \/ (e = c /\ x = s)
                /\ Has(e, x) /\ x # "none" => Has(e, x)'
<1>1. PICK k \in Copies : /\ wire[c][k] = "none"
                          /\ wire' = [wire EXCEPT ![c] = [wire[c] EXCEPT ![k] = s]]
  BY DEF Send
<1>2. [wire[c] EXCEPT ![k] = s] \in [Copies -> WireStates]
  OBVIOUS
<1>3. wire' \in [Calls -> [Copies -> WireStates]]
  BY <1>1, <1>2
<1>4. \A e \in Calls, j \in Copies :
        wire'[e][j] = IF e = c /\ j = k THEN s ELSE wire[e][j]
  BY <1>1, <1>2
<1>5. ASSUME NEW e \in Calls, NEW x \in WireStates, Has(e, x), x # "none"
      PROVE  Has(e, x)'
  <2>1. PICK j \in Copies : wire[e][j] = x
    BY <1>5 DEF Has
  <2>2. wire'[e][j] = x
    BY <1>1, <1>4, <1>5, <2>1
  <2> QED
    BY <2>2 DEF Has
<1>6. ASSUME NEW e \in Calls, NEW x \in WireStates, Has(e, x)'
      PROVE  Has(e, x) \/ (e = c /\ x = s)
  BY <1>4, <1>6 DEF Has
<1> QED
  BY <1>3, <1>5, <1>6

LEMMA RunChanges ==
    ASSUME wire \in [Calls -> [Copies -> WireStates]],
           NEW c \in Calls, NEW k \in Copies, NEW from, NEW to \in WireStates,
           Run(c, k, from, to)
    PROVE  /\ Has(c, from)
           /\ wire' \in [Calls -> [Copies -> WireStates]]
           /\ \A e \in Calls, x \in WireStates :
                /\ Has(e, x)' => Has(e, x) \/ (e = c /\ x = to)
                /\ Has(e, x) /\ x # from => Has(e, x)'
<1>1. wire' = [wire EXCEPT ![c] = [wire[c] EXCEPT ![k] = to]] /\ wire[c][k] = from
  BY DEF Run
<1>2. [wire[c] EXCEPT ![k] = to] \in [Copies -> WireStates]
  OBVIOUS
<1>3. wire' \in [Calls -> [Copies -> WireStates]]
  BY <1>1, <1>2
<1>4. \A e \in Calls, j \in Copies :
        wire'[e][j] = IF e = c /\ j = k THEN to ELSE wire[e][j]
  BY <1>1, <1>2
<1> QED
  BY <1>1, <1>3, <1>4 DEF Has

-----------------------------------------------------------------------------
(* Type correctness.                                                       *)

LEMMA TypeInit == Init => TypeOK
  BY ListCacheAssumption DEF Init, TypeOK, Calls, LoadStates, DelStates, WireStates

LEMMA TypeNext == TypeOK /\ [Next]_vars => TypeOK'
<1> SUFFICES ASSUME TypeOK, [Next]_vars PROVE TypeOK'
  OBVIOUS
<1> USE ListCacheAssumption DEF TypeOK, Calls, LoadStates, DelStates, Goto, Forget
<1>1. ASSUME NEW l \in Loads, GetOrLoadVideos(l) PROVE TypeOK'
  BY <1>1 DEF GetOrLoadVideos, redis
<1>2. ASSUME NEW l \in Loads, Hit(l) PROVE TypeOK'
  BY <1>2 DEF Hit, redis
<1>3. ASSUME NEW l \in Loads, HitCorrupt(l) PROVE TypeOK'
  BY <1>3 DEF HitCorrupt, redis
<1>4. ASSUME NEW l \in Loads, Repair(l) PROVE TypeOK'
  BY <1>4, SendChanges DEF Repair, redis, WireStates
<1>5. ASSUME NEW l \in Loads, Repaired(l) PROVE TypeOK'
  BY <1>5 DEF Repaired, redis
<1>6. ASSUME NEW l \in Loads, Miss(l) PROVE TypeOK'
  BY <1>6 DEF Miss, redis
<1>7. ASSUME NEW l \in Loads, Join(l) PROVE TypeOK'
  BY <1>7 DEF Join, redis
<1>8. ASSUME NEW l \in Loads, Lead(l) PROVE TypeOK'
  BY <1>8 DEF Lead, redis
<1>9. ASSUME NEW l \in Loads, ReadVersion(l) PROVE TypeOK'
  BY <1>9 DEF ReadVersion, redis
<1>10. ASSUME NEW l \in Loads, LoadVideos(l) PROVE TypeOK'
  BY <1>10, SendChanges DEF LoadVideos, redis, WireStates
<1>11. ASSUME NEW l \in Loads, Loaded(l) PROVE TypeOK'
  BY <1>11 DEF Loaded, Deliver, Joined, redis
<1>12. ASSUME NEW l \in Loads, LoadFails(l) PROVE TypeOK'
  BY <1>12 DEF LoadFails, Deliver, Joined, redis
<1>13. ASSUME NEW d \in Dels, Del(d) PROVE TypeOK'
  <2>1. wire' \in [Calls -> [Copies -> WireStates]]
    BY <1>13, SendChanges DEF Del, WireStates
  <2> QED
    BY <1>13, <2>1 DEF Del, redis
<1>14. ASSUME NEW d \in Dels, DelReturns(d) PROVE TypeOK'
  BY <1>14 DEF DelReturns, redis
<1>15. ASSUME NEW d \in Dels, DelFails(d) PROVE TypeOK'
  BY <1>15 DEF DelFails, redis
<1>16. ASSUME NEW c \in Calls, Resend(c) PROVE TypeOK'
  <2>1. PICK s \in WireStates : Send(c, s)
    BY <1>16 DEF Resend, WireStates
  <2> QED
    BY <1>16, <2>1, SendChanges DEF Resend, redis
<1>17. ASSUME NEW c \in Calls, NEW k \in Copies, RunIncr(c, k) PROVE TypeOK'
  BY <1>17, RunChanges DEF RunIncr, WireStates
<1>18. ASSUME NEW c \in Calls, NEW k \in Copies, RunDel(c, k) PROVE TypeOK'
  BY <1>18, RunChanges DEF RunDel, WireStates
<1>19. ASSUME NEW l \in Loads, NEW k \in Copies, RunScript(l, k) PROVE TypeOK'
  BY <1>19, RunChanges DEF RunScript, WireStates
<1>20. ASSUME Expire \/ WriteGarbage \/ Commit PROVE TypeOK'
  BY <1>20 DEF Expire, WriteGarbage, Commit, redis
<1>21. ASSUME UNCHANGED vars PROVE TypeOK'
  BY <1>21 DEF vars, redis
<1> QED
  BY <1>1, <1>2, <1>3, <1>4, <1>5, <1>6, <1>7, <1>8, <1>9, <1>10, <1>11, <1>12, <1>13,
     <1>14, <1>15, <1>16, <1>17, <1>18, <1>19, <1>20, <1>21
     DEF Next, LoadStep, DelStep

\* Every variable keeps its type.
THEOREM TypeCorrect == Spec => []TypeOK
  BY TypeInit, TypeNext, PTL DEF Spec

-----------------------------------------------------------------------------
(* The inductive invariant.                                                *)

LEMMA InvInit == Init => Inv
<1> SUFFICES ASSUME Init PROVE Inv
  OBVIOUS
<1>1. TypeOK
  BY TypeInit
<1>2. Quiet /\ BasesPast /\ ReturnedRan /\ VersionsPast
  BY ListCacheAssumption DEF Init, Calls, Quiet, BasesPast, ReturnedRan, VersionsPast, Has
<1>3. ScriptsFresh /\ BeforeReturned /\ FlightsFresh /\ JoinedFresh
  BY ListCacheAssumption
     DEF Init, Calls, ScriptsFresh, BeforeReturned, FlightsFresh, JoinedFresh, Has
<1>4. CachedShowsInvalidations /\ ReadsShowInvalidations
  BY ListCacheAssumption
     DEF Init, Calls, CachedShowsInvalidations, ReadsShowInvalidations
<1> QED
  BY <1>1, <1>2, <1>3, <1>4 DEF Inv

LEMMA InvNext == Inv /\ [Next]_vars => Inv'
<1> SUFFICES ASSUME Inv, [Next]_vars PROVE Inv'
  OBVIOUS
<1>0. TypeOK'
  BY TypeNext DEF Inv
<1> USE ListCacheAssumption, <1>0
    DEF Inv, TypeOK, Calls, WireStates, LoadStates, DelStates, Goto, Forget, redis
<1>1. ASSUME NEW l \in Loads, GetOrLoadVideos(l) PROVE Inv'
  <2>1. BeforeReturned'
    BY <1>1 DEF GetOrLoadVideos, BeforeReturned
  <2>2. JoinedFresh'
    BY <1>1 DEF GetOrLoadVideos, JoinedFresh
  <2>3. ReadsShowInvalidations'
    BY <1>1 DEF GetOrLoadVideos, ReadsShowInvalidations
  <2>4. (Quiet /\ BasesPast /\ ReturnedRan /\ VersionsPast /\ ScriptsFresh /\
        FlightsFresh /\ CachedShowsInvalidations)'
    BY <1>1 DEF GetOrLoadVideos, Quiet, BasesPast, ReturnedRan, Invalidated,
         VersionsPast, ScriptsFresh, Bumped, FlightsFresh,
         CachedShowsInvalidations, Has
  <2> QED
    BY <2>1, <2>2, <2>3, <2>4
<1>2. ASSUME NEW l \in Loads, Hit(l) PROVE Inv'
  <2>1. ScriptsFresh'
    BY <1>2 DEF Hit, ScriptsFresh, Bumped, Quiet, Has
  <2>2. ReadsShowInvalidations'
    BY <1>2 DEF Hit, ReadsShowInvalidations, CachedShowsInvalidations,
         Invalidated, BeforeReturned, ReturnedRan
  <2>3. (Quiet /\ BasesPast /\ ReturnedRan /\ VersionsPast /\ BeforeReturned /\
        FlightsFresh /\ JoinedFresh /\ CachedShowsInvalidations)'
    BY <1>2 DEF Hit, Quiet, BasesPast, ReturnedRan, Invalidated, VersionsPast,
         BeforeReturned, FlightsFresh, JoinedFresh, CachedShowsInvalidations,
         Has
  <2> QED
    BY <2>1, <2>2, <2>3
<1>3. ASSUME NEW l \in Loads, HitCorrupt(l) PROVE Inv'
  BY <1>3 DEF HitCorrupt, Quiet, BasesPast, ReturnedRan, Invalidated,
       VersionsPast, ScriptsFresh, Bumped, BeforeReturned, FlightsFresh,
       JoinedFresh, CachedShowsInvalidations, ReadsShowInvalidations, Has
<1>4. ASSUME NEW l \in Loads, Repair(l) PROVE Inv'
  <2>1. Quiet'
    BY <1>4, SendChanges DEF Repair, Quiet
  <2>2. ScriptsFresh'
    BY <1>4, SendChanges DEF Repair, ScriptsFresh, Bumped, Quiet
  <2>3. CachedShowsInvalidations'
    BY <1>4, SendChanges DEF Repair, CachedShowsInvalidations, Invalidated
  <2>4. (BasesPast /\ ReturnedRan /\ VersionsPast /\ BeforeReturned /\
        FlightsFresh /\ JoinedFresh /\ ReadsShowInvalidations)'
    BY <1>4, SendChanges DEF Repair, BasesPast, ReturnedRan, Invalidated,
         VersionsPast, BeforeReturned, FlightsFresh, JoinedFresh,
         ReadsShowInvalidations
  <2> QED
    BY <2>1, <2>2, <2>3, <2>4
<1>5. ASSUME NEW l \in Loads, Repaired(l) PROVE Inv'
  BY <1>5 DEF Repaired, Quiet, BasesPast, ReturnedRan, Invalidated,
       VersionsPast, ScriptsFresh, Bumped, BeforeReturned, FlightsFresh,
       JoinedFresh, CachedShowsInvalidations, ReadsShowInvalidations, Has
<1>6. ASSUME NEW l \in Loads, Miss(l) PROVE Inv'
  BY <1>6 DEF Miss, Quiet, BasesPast, ReturnedRan, Invalidated, VersionsPast,
       ScriptsFresh, Bumped, BeforeReturned, FlightsFresh, JoinedFresh,
       CachedShowsInvalidations, ReadsShowInvalidations, Has
<1>7. ASSUME NEW l \in Loads, Join(l) PROVE Inv'
  <2>1. JoinedFresh'
    BY <1>7 DEF Join, JoinedFresh, FlightsFresh, BeforeReturned
  <2>2. (Quiet /\ BasesPast /\ ReturnedRan /\ VersionsPast /\ ScriptsFresh /\
        BeforeReturned /\ FlightsFresh /\ CachedShowsInvalidations /\
        ReadsShowInvalidations)'
    BY <1>7 DEF Join, Quiet, BasesPast, ReturnedRan, Invalidated, VersionsPast,
         ScriptsFresh, Bumped, BeforeReturned, FlightsFresh,
         CachedShowsInvalidations, ReadsShowInvalidations, Has
  <2> QED
    BY <2>1, <2>2
<1>8. ASSUME NEW l \in Loads, Lead(l) PROVE Inv'
  <2>1. FlightsFresh'
    BY <1>8 DEF Lead, FlightsFresh
  <2>2. (Quiet /\ BasesPast /\ ReturnedRan /\ VersionsPast /\ ScriptsFresh /\
        BeforeReturned /\ JoinedFresh /\ CachedShowsInvalidations /\
        ReadsShowInvalidations)'
    BY <1>8 DEF Lead, Quiet, BasesPast, ReturnedRan, Invalidated, VersionsPast,
         ScriptsFresh, Bumped, BeforeReturned, JoinedFresh,
         CachedShowsInvalidations, ReadsShowInvalidations, Has
  <2> QED
    BY <2>1, <2>2
<1>9. ASSUME NEW l \in Loads, ReadVersion(l) PROVE Inv'
  <2>1. VersionsPast'
    BY <1>9 DEF ReadVersion, VersionsPast
  <2>2. ScriptsFresh'
    BY <1>9 DEF ReadVersion, ScriptsFresh, Bumped, Quiet, Has
  <2>3. (Quiet /\ BasesPast /\ ReturnedRan /\ BeforeReturned /\ FlightsFresh /\
        JoinedFresh /\ CachedShowsInvalidations /\ ReadsShowInvalidations)'
    BY <1>9 DEF ReadVersion, Quiet, BasesPast, ReturnedRan, Invalidated,
         BeforeReturned, FlightsFresh, JoinedFresh, CachedShowsInvalidations,
         ReadsShowInvalidations, Has
  <2> QED
    BY <2>1, <2>2, <2>3
<1>10. ASSUME NEW l \in Loads, LoadVideos(l) PROVE Inv'
  <2>1. ScriptsFresh'
    BY <1>10, SendChanges DEF LoadVideos, ScriptsFresh, Bumped, BasesPast
  <2>2. BeforeReturned'
    BY <1>10, SendChanges DEF LoadVideos, BeforeReturned, BasesPast
  <2>3. FlightsFresh'
    BY <1>10, SendChanges DEF LoadVideos, FlightsFresh, BasesPast
  <2>4. JoinedFresh'
    BY <1>10, SendChanges DEF LoadVideos, JoinedFresh, BasesPast, BeforeReturned
  <2>5. CachedShowsInvalidations'
    BY <1>10, SendChanges DEF LoadVideos, CachedShowsInvalidations, Invalidated
  <2>6. (Quiet /\ BasesPast /\ ReturnedRan /\ VersionsPast /\
        ReadsShowInvalidations)'
    BY <1>10, SendChanges DEF LoadVideos, Quiet, BasesPast, ReturnedRan,
         Invalidated, VersionsPast, ReadsShowInvalidations
  <2> QED
    BY <2>1, <2>2, <2>3, <2>4, <2>5, <2>6
<1>11. ASSUME NEW l \in Loads, Loaded(l) PROVE Inv'
  <2>1. ScriptsFresh'
    BY <1>11 DEF Loaded, Deliver, Joined, ScriptsFresh, Bumped, Quiet, Has
  <2>2. BeforeReturned'
    BY <1>11 DEF Loaded, Deliver, Joined, BeforeReturned
  <2>3. FlightsFresh'
    BY <1>11 DEF Loaded, Deliver, Joined, FlightsFresh
  <2>4. JoinedFresh'
    BY <1>11 DEF Loaded, Deliver, Joined, JoinedFresh
  <2>5. ReadsShowInvalidations'
    BY <1>11 DEF Loaded, Deliver, Joined, ReadsShowInvalidations,
         BeforeReturned, JoinedFresh
  <2>6. (Quiet /\ BasesPast /\ ReturnedRan /\ VersionsPast /\
        CachedShowsInvalidations)'
    BY <1>11 DEF Loaded, Deliver, Joined, Quiet, BasesPast, ReturnedRan,
         Invalidated, VersionsPast, CachedShowsInvalidations, Has
  <2> QED
    BY <2>1, <2>2, <2>3, <2>4, <2>5, <2>6
<1>12. ASSUME NEW l \in Loads, LoadFails(l) PROVE Inv'
  <2>1. ScriptsFresh'
    BY <1>12 DEF LoadFails, Deliver, Joined, ScriptsFresh, Bumped, Quiet, Has
  <2>2. BeforeReturned'
    BY <1>12 DEF LoadFails, Deliver, Joined, BeforeReturned
  <2>3. FlightsFresh'
    BY <1>12 DEF LoadFails, Deliver, Joined, FlightsFresh
  <2>4. JoinedFresh'
    BY <1>12 DEF LoadFails, Deliver, Joined, JoinedFresh
  <2>5. (Quiet /\ BasesPast /\ ReturnedRan /\ VersionsPast /\
        CachedShowsInvalidations /\ ReadsShowInvalidations)'
    BY <1>12 DEF LoadFails, Deliver, Joined, Quiet, BasesPast, ReturnedRan,
         Invalidated, VersionsPast, CachedShowsInvalidations,
         ReadsShowInvalidations, Has
  <2> QED
    BY <2>1, <2>2, <2>3, <2>4, <2>5
<1>13. ASSUME NEW e \in Dels, Del(e) PROVE Inv'
  <2>1. Quiet'
    BY <1>13, SendChanges DEF Del, Quiet
  <2>2. ScriptsFresh'
    BY <1>13, SendChanges DEF Del, ScriptsFresh, Bumped, Quiet
  <2>3. BeforeReturned'
    BY <1>13, SendChanges DEF Del, BeforeReturned
  <2>4. FlightsFresh'
    BY <1>13, SendChanges DEF Del, FlightsFresh
  <2>5. JoinedFresh'
    BY <1>13, SendChanges DEF Del, JoinedFresh, BeforeReturned
  <2>6. CachedShowsInvalidations'
    BY <1>13, SendChanges DEF Del, CachedShowsInvalidations, Invalidated, Quiet
  <2>7. ReadsShowInvalidations'
    BY <1>13, SendChanges DEF Del, ReadsShowInvalidations, BeforeReturned
  <2>8. (BasesPast /\ ReturnedRan /\ VersionsPast)'
    BY <1>13, SendChanges DEF Del, BasesPast, ReturnedRan, Invalidated,
         VersionsPast
  <2> QED
    BY <2>1, <2>2, <2>3, <2>4, <2>5, <2>6, <2>7, <2>8
<1>14. ASSUME NEW e \in Dels, DelReturns(e) PROVE Inv'
  <2>1. ReturnedRan'
    BY <1>14 DEF DelReturns, ReturnedRan, Invalidated, Has
  <2>2. (Quiet /\ BasesPast /\ VersionsPast /\ ScriptsFresh /\ BeforeReturned /\
        FlightsFresh /\ JoinedFresh /\ CachedShowsInvalidations /\
        ReadsShowInvalidations)'
    BY <1>14 DEF DelReturns, Quiet, BasesPast, VersionsPast, ScriptsFresh,
         Bumped, BeforeReturned, FlightsFresh, JoinedFresh,
         CachedShowsInvalidations, Invalidated, ReadsShowInvalidations, Has
  <2> QED
    BY <2>1, <2>2
<1>15. ASSUME NEW e \in Dels, DelFails(e) PROVE Inv'
  BY <1>15 DEF DelFails, Quiet, BasesPast, ReturnedRan, Invalidated,
       VersionsPast, ScriptsFresh, Bumped, BeforeReturned, FlightsFresh,
       JoinedFresh, CachedShowsInvalidations, ReadsShowInvalidations, Has
<1>16. ASSUME NEW c \in Calls, Resend(c) PROVE Inv'
  <2>1. Quiet'
    BY <1>16, SendChanges DEF Resend, Quiet
  <2>2. ScriptsFresh'
    BY <1>16, SendChanges DEF Resend, ScriptsFresh, Bumped, Quiet
  <2>3. CachedShowsInvalidations'
    BY <1>16, SendChanges DEF Resend, CachedShowsInvalidations, Invalidated
  <2>4. (BasesPast /\ ReturnedRan /\ VersionsPast /\ BeforeReturned /\
        FlightsFresh /\ JoinedFresh /\ ReadsShowInvalidations)'
    BY <1>16, SendChanges DEF Resend, BasesPast, ReturnedRan, Invalidated,
         VersionsPast, BeforeReturned, FlightsFresh, JoinedFresh,
         ReadsShowInvalidations
  <2> QED
    BY <2>1, <2>2, <2>3, <2>4
<1>17. ASSUME NEW c \in Calls, NEW j \in Copies, RunIncr(c, j) PROVE Inv'
  <2>1. Quiet'
    BY <1>17, RunChanges DEF RunIncr, Quiet
  <2>2. ScriptsFresh'
    BY <1>17, RunChanges DEF RunIncr, ScriptsFresh, Bumped, VersionsPast
  <2>3. CachedShowsInvalidations'
    BY <1>17, RunChanges DEF RunIncr, CachedShowsInvalidations, Invalidated
  <2>4. (BasesPast /\ ReturnedRan /\ VersionsPast /\ BeforeReturned /\
        FlightsFresh /\ JoinedFresh /\ ReadsShowInvalidations)'
    BY <1>17, RunChanges DEF RunIncr, BasesPast, ReturnedRan, Invalidated,
         VersionsPast, BeforeReturned, FlightsFresh, JoinedFresh,
         ReadsShowInvalidations
  <2> QED
    BY <2>1, <2>2, <2>3, <2>4
<1>18. ASSUME NEW c \in Calls, NEW j \in Copies, RunDel(c, j) PROVE Inv'
  <2>1. Quiet'
    BY <1>18, RunChanges DEF RunDel, Quiet
  <2>2. ScriptsFresh'
    BY <1>18, RunChanges DEF RunDel, ScriptsFresh, Bumped
  <2>3. CachedShowsInvalidations'
    BY <1>18, RunChanges DEF RunDel, CachedShowsInvalidations, Invalidated
  <2>4. (BasesPast /\ ReturnedRan /\ VersionsPast /\ BeforeReturned /\
        FlightsFresh /\ JoinedFresh /\ ReadsShowInvalidations)'
    BY <1>18, RunChanges DEF RunDel, BasesPast, ReturnedRan, Invalidated,
         VersionsPast, BeforeReturned, FlightsFresh, JoinedFresh,
         ReadsShowInvalidations
  <2> QED
    BY <2>1, <2>2, <2>3, <2>4
<1>19. ASSUME NEW l \in Loads, NEW j \in Copies, RunScript(l, j) PROVE Inv'
  <2>1. Quiet'
    BY <1>19, RunChanges DEF RunScript, Quiet
  <2>2. ScriptsFresh'
    BY <1>19, RunChanges DEF RunScript, ScriptsFresh, Bumped
  <2>3. CachedShowsInvalidations'
    BY <1>19, RunChanges DEF RunScript, CachedShowsInvalidations, Invalidated,
         ScriptsFresh, Bumped
  <2>4. (BasesPast /\ ReturnedRan /\ VersionsPast /\ BeforeReturned /\
        FlightsFresh /\ JoinedFresh /\ ReadsShowInvalidations)'
    BY <1>19, RunChanges DEF RunScript, BasesPast, ReturnedRan, Invalidated,
         VersionsPast, BeforeReturned, FlightsFresh, JoinedFresh,
         ReadsShowInvalidations
  <2> QED
    BY <2>1, <2>2, <2>3, <2>4
<1>20. ASSUME Expire PROVE Inv'
  BY <1>20 DEF Expire, Quiet, BasesPast, ReturnedRan, Invalidated, VersionsPast,
       ScriptsFresh, Bumped, BeforeReturned, FlightsFresh, JoinedFresh,
       CachedShowsInvalidations, ReadsShowInvalidations, Has
<1>21. ASSUME WriteGarbage PROVE Inv'
  BY <1>21 DEF WriteGarbage, Quiet, BasesPast, ReturnedRan, Invalidated,
       VersionsPast, ScriptsFresh, Bumped, BeforeReturned, FlightsFresh,
       JoinedFresh, CachedShowsInvalidations, ReadsShowInvalidations, Has
<1>22. ASSUME Commit PROVE Inv'
  BY <1>22 DEF Commit, Quiet, BasesPast, ReturnedRan, Invalidated, VersionsPast,
       ScriptsFresh, Bumped, BeforeReturned, FlightsFresh, JoinedFresh,
       CachedShowsInvalidations, ReadsShowInvalidations, Has
<1>23. ASSUME UNCHANGED vars PROVE Inv'
  BY <1>23 DEF vars, Quiet, BasesPast, ReturnedRan, Invalidated, VersionsPast,
       ScriptsFresh, Bumped, BeforeReturned, FlightsFresh, JoinedFresh,
       CachedShowsInvalidations, ReadsShowInvalidations, Has
<1> QED
  BY <1>1, <1>2, <1>3, <1>4, <1>5, <1>6, <1>7, <1>8, <1>9, <1>10, <1>11, <1>12,
       <1>13, <1>14, <1>15, <1>16, <1>17, <1>18, <1>19, <1>20, <1>21, <1>22,
       <1>23 DEF Next, LoadStep, DelStep

LEMMA InvAlways == Spec => []Inv
  BY InvInit, InvNext, PTL DEF Spec

\* Whatever process stored it and however late its script ran, a cached list
\* shows every increment that was committed when an invalidation that has run
\* was called: the comparison of versions in the script keeps older ones out.
THEOREM CacheFresh == Spec => []CachedShowsInvalidations
<1>1. Inv => CachedShowsInvalidations
  BY DEF Inv
<1> QED
  BY <1>1, InvAlways, PTL

\* A list that GetOrLoadVideos returns shows every increment committed when a Del
\* that had returned in the same process was called, also when it comes from a
\* flight the call joined.
THEOREM ReadsFresh == Spec => []ReadsShowInvalidations
<1>1. Inv => ReadsShowInvalidations
  BY DEF Inv
<1> QED
  BY <1>1, InvAlways, PTL

-----------------------------------------------------------------------------
(* ListCache keeps the promise of CachePromise.                            *)

\* No list anywhere shows an increment that is not committed.
NothingEarly ==
    /\ cached \in Nat => cached <= db
    /\ \A l \in Loads : list[l] <= db

LEMMA NothingEarlyInit == Init => NothingEarly
  BY ListCacheAssumption DEF Init, NothingEarly

LEMMA NothingEarlyNext == TypeOK /\ NothingEarly /\ [Next]_vars => NothingEarly'
<1> SUFFICES ASSUME TypeOK, NothingEarly, [Next]_vars PROVE NothingEarly'
  OBVIOUS
<1> USE ListCacheAssumption DEF TypeOK, NothingEarly, redis
<1>1. ASSUME NEW l \in Loads, GetOrLoadVideos(l) \/ LoadStep(l) PROVE NothingEarly'
  BY <1>1 DEF GetOrLoadVideos, LoadStep, Hit, HitCorrupt, Repair, Repaired, Miss, Join, Lead,
              ReadVersion, LoadVideos, Loaded, LoadFails, Deliver, Joined
<1>2. ASSUME NEW d \in Dels, Del(d) \/ DelStep(d) PROVE NothingEarly'
  BY <1>2 DEF Del, DelStep, DelReturns, DelFails
<1>3. ASSUME NEW c \in Calls, Resend(c) \/ \E k \in Copies : RunIncr(c, k) \/ RunDel(c, k)
      PROVE  NothingEarly'
  BY <1>3 DEF Resend, RunIncr, RunDel
<1>4. ASSUME NEW l \in Loads, NEW k \in Copies, RunScript(l, k) PROVE NothingEarly'
  BY <1>4 DEF RunScript
<1>5. ASSUME Expire \/ WriteGarbage \/ Commit PROVE NothingEarly'
  BY <1>5 DEF Expire, WriteGarbage, Commit
<1>6. ASSUME UNCHANGED vars PROVE NothingEarly'
  BY <1>6 DEF vars
<1> QED
  BY <1>1, <1>2, <1>3, <1>4, <1>5, <1>6 DEF Next

LEMMA PromiseInit == Init => Promise!Init
  BY ListCacheAssumption
     DEF Init, Promise!Init, Promise!Calls, Calls, status, answer

LEMMA PromiseNext ==
    Inv /\ NothingEarly /\ [Next]_vars => [Promise!Next]_(Promise!vars)
<1> SUFFICES ASSUME Inv, NothingEarly, [Next]_vars
             PROVE  Promise!Next \/ UNCHANGED Promise!vars
  BY DEF Promise!vars
<1> USE ListCacheAssumption
    DEF Inv, TypeOK, LoadStates, DelStates, Calls, Promise!Calls, status, answer, Goto, redis
<1>1. ASSUME NEW l \in Loads, GetOrLoadVideos(l) PROVE Promise!StartRead(l)
  BY <1>1 DEF GetOrLoadVideos, Promise!StartRead
<1>2. ASSUME NEW l \in Loads, Hit(l) PROVE Promise!Answer({l}, cached) /\ cached \in 0 .. db
  BY <1>2 DEF Hit, Promise!Answer, NothingEarly, BeforeReturned, ReturnedRan,
              CachedShowsInvalidations
<1>3. ASSUME NEW l \in Loads, Loaded(l)
      PROVE  Promise!Answer({l} \cup Joined(l), list[l]) /\ list[l] \in 0 .. db
  BY <1>3 DEF Loaded, Deliver, Joined, Promise!Answer, NothingEarly, BeforeReturned, JoinedFresh
<1>4. ASSUME NEW l \in Loads, LoadFails(l) PROVE Promise!Fail({l} \cup Joined(l))
  BY <1>4 DEF LoadFails, Deliver, Joined, Promise!Fail
<1>5. ASSUME NEW l \in Loads, LoadStep(l), ~ Hit(l), ~ Loaded(l), ~ LoadFails(l)
      PROVE  UNCHANGED Promise!vars
  BY <1>5 DEF LoadStep, HitCorrupt, Repair, Repaired, Miss, Join, Lead, ReadVersion,
              LoadVideos, Promise!vars
<1>6. ASSUME NEW d \in Dels, Del(d) PROVE Promise!StartDel(d)
  BY <1>6 DEF Del, Promise!StartDel
<1>7. ASSUME NEW d \in Dels, DelReturns(d) PROVE Promise!EndDel(d, "ok")
  BY <1>7 DEF DelReturns, Promise!EndDel
<1>8. ASSUME NEW d \in Dels, DelFails(d) PROVE Promise!EndDel(d, "err")
  BY <1>8 DEF DelFails, Promise!EndDel
<1>9. ASSUME Commit PROVE Promise!Commit
  BY <1>9 DEF Commit, Promise!Commit
<1>10. ASSUME NEW c \in Calls, Resend(c) PROVE UNCHANGED Promise!vars
  BY <1>10 DEF Resend, Promise!vars
<1>11. ASSUME NEW c \in Calls, NEW k \in Copies, RunIncr(c, k) \/ RunDel(c, k)
       PROVE  UNCHANGED Promise!vars
  BY <1>11 DEF RunIncr, RunDel, Promise!vars
<1>12. ASSUME NEW l \in Loads, NEW k \in Copies, RunScript(l, k)
       PROVE  UNCHANGED Promise!vars
  BY <1>12 DEF RunScript, Promise!vars
<1>13. ASSUME Expire \/ WriteGarbage \/ UNCHANGED vars PROVE UNCHANGED Promise!vars
  BY <1>13 DEF Expire, WriteGarbage, vars, Promise!vars
<1> HIDE DEF Inv, TypeOK, LoadStates, DelStates, Calls, Promise!Calls, status, answer, Goto, redis
<1>14. ASSUME NEW l \in Loads, GetOrLoadVideos(l) \/ LoadStep(l)
       PROVE  Promise!Next \/ UNCHANGED Promise!vars
  BY <1>1, <1>2, <1>3, <1>4, <1>5, <1>14 DEF Promise!Next, Joined
<1>15. ASSUME NEW d \in Dels, Del(d) \/ DelStep(d) PROVE Promise!Next
  BY <1>6, <1>7, <1>8, <1>15 DEF Promise!Next, DelStep
<1> QED
  BY <1>9, <1>10, <1>11, <1>12, <1>13, <1>14, <1>15 DEF Next, Promise!Next

\* Redis, the versions and the flights implement the promise: every behaviour of
\* the cache is one that CachePromise allows.
THEOREM CacheKeepsPromise == Spec => KeepsPromise
<1>1. Inv => TypeOK
  BY DEF Inv
<1> QED
  BY <1>1, InvAlways, NothingEarlyInit, NothingEarlyNext, PromiseInit, PromiseNext, PTL
     DEF Spec, KeepsPromise, Promise!Spec

-----------------------------------------------------------------------------
(* A call that joined a flight is not left behind.                         *)

\* A call that is loading, in the group or outside it.
Loading(l) == pc[l] \in {"version", "load", "set"}

\* A registered flight is one of its process that has not ended.
FlightsLoading ==
    \A p \in Instances, l \in Loads : group[p] = l => Loading(l) /\ InstanceOf[l] = p

\* Who joined a flight waits for a call of its process that is loading: also when
\* Del or a repair has dropped the flight from the group meanwhile, and never for a
\* call that waits itself.
WaitersHaveFlights ==
    \A m \in Loads : pc[m] = "wait" =>
        \E l \in Loads : waitsFor[m] = l /\ Loading(l) /\ InstanceOf[l] = InstanceOf[m]

\* Who joined a flight returns in the step in which the flight's leader does, with
\* its outcome and its list, and until then keeps waiting for it.
WaitersEndWithFlight == [][
    \A m, l \in Loads : pc[m] = "wait" /\ waitsFor[m] = l =>
        \/ Loading(l)' /\ pc'[m] = "wait" /\ waitsFor'[m] = l
        \/ /\ pc'[l] \in {"ok", "err"} /\ pc'[m] = pc'[l]
           /\ pc'[l] = "ok" => list'[m] = list'[l]]_vars

FlightInv == TypeOK /\ FlightsLoading /\ WaitersHaveFlights

LEMMA FlightInvInit == Init => FlightInv
<1> SUFFICES ASSUME Init PROVE FlightInv
  OBVIOUS
<1>1. TypeOK
  BY TypeInit
<1>2. FlightsLoading /\ WaitersHaveFlights
  BY ListCacheAssumption DEF Init, Calls, FlightsLoading, WaitersHaveFlights
<1> QED
  BY <1>1, <1>2 DEF FlightInv

\* What a flight's end is to the others: only the leader and who joined it move, and
\* the flight is registered no more.
LEMMA DeliverEnds ==
    ASSUME FlightInv, NEW l \in Loads, NEW outcome \in {"ok", "err"}, Deliver(l, outcome),
           pc[l] # "wait"
    PROVE  /\ \A m \in Loads :
                \/ m = l
                \/ m \in Joined(l) /\ pc'[m] = outcome /\ list'[m] = list[l]
                \/ m # l /\ m \notin Joined(l) /\ pc'[m] = pc[m] /\ list'[m] = list[m]
           /\ pc'[l] = outcome /\ list'[l] = list[l]
           /\ \A p \in Instances : group'[p] # l /\ (group'[p] = None \/ group'[p] = group[p])
BY ListCacheAssumption DEF Deliver, Joined, FlightInv, TypeOK, Calls

LEMMA FlightInvNext == FlightInv /\ [Next]_vars => FlightInv'
<1> SUFFICES ASSUME FlightInv, [Next]_vars PROVE FlightInv'
  OBVIOUS
<1>0. TypeOK'
  BY TypeNext DEF FlightInv
<1> DEFINE Kept == FlightsLoading' /\ WaitersHaveFlights'
<1>1. ASSUME NEW l \in Loads, Loaded(l) \/ LoadFails(l) PROVE Kept
  <2>1. /\ pc[l] # "wait" /\ waitsFor' = waitsFor
        /\ \E outcome \in {"ok", "err"} : Deliver(l, outcome)
    BY <1>1 DEF Loaded, LoadFails
  <2>2. PICK outcome \in {"ok", "err"} : Deliver(l, outcome)
    BY <2>1
  <2>3. FlightsLoading'
    BY <2>1, <2>2, DeliverEnds, ListCacheAssumption
       DEF FlightInv, FlightsLoading, Loading, Joined
  <2>4. WaitersHaveFlights'
    BY <2>1, <2>2, DeliverEnds DEF FlightInv, WaitersHaveFlights, Loading, Joined
  <2> QED
    BY <2>3, <2>4
<1> USE ListCacheAssumption
    DEF FlightInv, TypeOK, FlightsLoading, WaitersHaveFlights, Loading, Calls, Goto, Forget,
        redis
<1>2. ASSUME NEW l \in Loads, Join(l) PROVE Kept
  <2>1. FlightsLoading'
    BY <1>2 DEF Join
  <2>2. /\ pc' = [pc EXCEPT ![l] = "wait"]
        /\ waitsFor' = [waitsFor EXCEPT ![l] = group[InstanceOf[l]]]
        /\ group[InstanceOf[l]] \in Loads /\ pc[l] = "do"
    BY <1>2 DEF Join
  <2>3. WaitersHaveFlights'
    BY <2>2
  <2> QED
    BY <2>1, <2>3
<1>3. ASSUME NEW l \in Loads, Lead(l) PROVE Kept
  <2>1. /\ pc' = [pc EXCEPT ![l] = "version"] /\ waitsFor' = waitsFor /\ pc[l] = "do"
        /\ group' = [group EXCEPT ![InstanceOf[l]] = l]
    BY <1>3 DEF Lead
  <2>2. FlightsLoading'
    BY <2>1
  <2>3. WaitersHaveFlights'
    BY <2>1
  <2> QED
    BY <2>2, <2>3
<1>4. ASSUME NEW c \in Calls, NEW state \in LoadStates \cup DelStates,
             pc' = [pc EXCEPT ![c] = state], pc[c] # "wait", state # "wait", waitsFor' = waitsFor,
             pc[c] \in {"version", "load"} => state \in {"version", "load", "set"},
             pc[c] # "set",
             \A p \in Instances : group'[p] = None \/ group'[p] = group[p]
      PROVE  Kept
  <2>0. \A e \in Calls : pc'[e] = IF e = c THEN state ELSE pc[e]
    BY <1>4
  <2>1. FlightsLoading'
    <3> SUFFICES ASSUME NEW p \in Instances, NEW l \in Loads, group'[p] = l
                 PROVE  pc'[l] \in {"version", "load", "set"} /\ InstanceOf[l] = p
      OBVIOUS
    <3>1. group[p] = l
      BY <1>4
    <3> QED
      BY <1>4, <2>0, <3>1
  <2>2. WaitersHaveFlights'
    BY <1>4
  <2> QED
    BY <2>1, <2>2
<1> DEFINE Moves(c) ==
        /\ \E state \in LoadStates \cup DelStates :
             /\ pc' = [pc EXCEPT ![c] = state] /\ state # "wait"
             /\ pc[c] \in {"version", "load"} => state \in {"version", "load", "set"}
        /\ pc[c] # "wait" /\ pc[c] # "set" /\ waitsFor' = waitsFor
        /\ \A p \in Instances : group'[p] = None \/ group'[p] = group[p]
<1>5. ASSUME NEW l \in Loads, GetOrLoadVideos(l) \/ LoadStep(l),
             ~ Join(l), ~ Lead(l), ~ Loaded(l), ~ LoadFails(l)
      PROVE  Moves(l)
  BY <1>5 DEF GetOrLoadVideos, LoadStep, Hit, HitCorrupt, Repair, Repaired, Miss, ReadVersion,
              LoadVideos, LoadStates
<1>6. ASSUME NEW d \in Dels, Del(d) \/ DelStep(d) PROVE Moves(d)
  BY <1>6 DEF Del, DelStep, DelReturns, DelFails, DelStates
<1>7. ASSUME NEW c \in Calls, Moves(c) PROVE Kept
  BY <1>4, <1>7
<1>8. ASSUME UNCHANGED <<pc, group, waitsFor>> PROVE Kept
  BY <1>8
<1> HIDE DEF FlightInv
<1>9. ASSUME \/ \E c \in Calls : Resend(c) \/ \E k \in Copies : RunIncr(c, k) \/ RunDel(c, k)
             \/ \E l \in Loads, k \in Copies : RunScript(l, k)
             \/ Expire \/ WriteGarbage \/ Commit \/ UNCHANGED vars
      PROVE  UNCHANGED <<pc, group, waitsFor>>
  BY <1>9 DEF Resend, RunIncr, RunDel, RunScript, Expire, WriteGarbage, Commit, vars
<1>10. Kept
  BY <1>1, <1>2, <1>3, <1>5, <1>6, <1>7, <1>8, <1>9 DEF Next, LoadStep, Calls
<1> QED
  BY <1>0, <1>10 DEF FlightInv

LEMMA FlightInvAlways == Spec => []FlightInv
  BY FlightInvInit, FlightInvNext, PTL DEF Spec

\* A call waits only for a load of its process that is under way, whatever was
\* forgotten, failed or invalidated since it joined.
THEOREM NobodyWaitsInVain == Spec => []WaitersHaveFlights
<1>1. FlightInv => WaitersHaveFlights
  BY DEF FlightInv
<1> QED
  BY <1>1, FlightInvAlways, PTL

\* The end of a flight is the end of every call that joined it, with one outcome.
THEOREM FlightsServeWaiters == Spec => WaitersEndWithFlight
<1> DEFINE Serves ==
        \A m, l \in Loads : pc[m] = "wait" /\ waitsFor[m] = l =>
            \/ Loading(l)' /\ pc'[m] = "wait" /\ waitsFor'[m] = l
            \/ /\ pc'[l] \in {"ok", "err"} /\ pc'[m] = pc'[l]
               /\ pc'[l] = "ok" => list'[m] = list'[l]
<1>1. FlightInv /\ [Next]_vars => Serves
  <2> SUFFICES ASSUME FlightInv, [Next]_vars,
                      NEW m \in Loads, NEW l \in Loads, pc[m] = "wait", waitsFor[m] = l
               PROVE  \/ Loading(l)' /\ pc'[m] = "wait" /\ waitsFor'[m] = l
                      \/ /\ pc'[l] \in {"ok", "err"} /\ pc'[m] = pc'[l]
                         /\ pc'[l] = "ok" => list'[m] = list'[l]
    OBVIOUS
  <2>0. Loading(l)
    BY DEF FlightInv, WaitersHaveFlights
  <2> DEFINE Waits == Loading(l)' /\ pc'[m] = "wait" /\ waitsFor'[m] = l
             Ends  == /\ pc'[l] \in {"ok", "err"} /\ pc'[m] = pc'[l]
                      /\ pc'[l] = "ok" => list'[m] = list'[l]
  <2>1. ASSUME NEW x \in Loads, Loaded(x) \/ LoadFails(x) PROVE Waits \/ Ends
    <3>1. /\ pc[x] # "wait" /\ waitsFor' = waitsFor
          /\ \E outcome \in {"ok", "err"} : Deliver(x, outcome)
      BY <2>1 DEF Loaded, LoadFails
    <3>2. PICK outcome \in {"ok", "err"} : Deliver(x, outcome)
      BY <3>1
    <3> QED
      BY <2>0, <3>1, <3>2, DeliverEnds DEF Joined, Loading
  <2> USE ListCacheAssumption DEF FlightInv, TypeOK, Loading, Calls, Goto, redis
  <2>2. ASSUME NEW x \in Loads, GetOrLoadVideos(x) \/ LoadStep(x), ~ Loaded(x), ~ LoadFails(x)
        PROVE  Waits
    BY <2>0, <2>2 DEF GetOrLoadVideos, LoadStep, Hit, HitCorrupt, Repair, Repaired, Miss, Join,
                      Lead, ReadVersion, LoadVideos
  <2>3. ASSUME NEW d \in Dels, Del(d) \/ DelStep(d) PROVE Waits
    BY <2>0, <2>3 DEF Del, DelStep, DelReturns, DelFails
  <2>4. ASSUME \/ \E c \in Calls : Resend(c) \/ \E k \in Copies : RunIncr(c, k) \/ RunDel(c, k)
               \/ \E x \in Loads, k \in Copies : RunScript(x, k)
               \/ Expire \/ WriteGarbage \/ Commit \/ UNCHANGED vars
        PROVE  Waits
    BY <2>0, <2>4 DEF Resend, RunIncr, RunDel, RunScript, Expire, WriteGarbage, Commit, vars
  <2> QED
    BY <2>1, <2>2, <2>3, <2>4 DEF Next
<1> QED
  BY <1>1, FlightInvAlways, PTL DEF Spec, WaitersEndWithFlight

\* What a call of the cache has before it at most.
CallLeft == [s \in LoadStates \cup DelStates |->
    CASE s = "idle" -> 8
      [] s = "get" -> 7
      [] s = "corrupt" -> 6
      [] s = "repair" -> 5
      [] s = "do" -> 4
      [] s = "version" -> 3
      [] s = "load" -> 2
      [] s \in {"ok", "err"} -> 0
      [] OTHER -> 1]

\* No call goes back, or round in circles: not one that finds a payload that does not
\* decode, for it does not read again what it repaired, and not one whose flight was
\* forgotten.  Every step of a call takes it, and whoever it answers, nearer to the
\* end, and Redis, its client library and the other calls take nobody further from it.
CallsGoForward == [][
    \/ pc' = pc
    \/ /\ \E c \in Calls : CallLeft[pc'[c]] < CallLeft[pc[c]]
       /\ \A c \in Calls : CallLeft[pc'[c]] <= CallLeft[pc[c]]]_vars

\* The states of a call in the order in which it passes through them.
LEMMA CallOrder ==
    /\ \A s \in LoadStates \cup DelStates : CallLeft[s] \in 0 .. 8
    /\ CallLeft["idle"] = 8 /\ CallLeft["get"] = 7 /\ CallLeft["corrupt"] = 6
    /\ CallLeft["repair"] = 5 /\ CallLeft["do"] = 4 /\ CallLeft["version"] = 3
    /\ CallLeft["load"] = 2 /\ CallLeft["set"] = 1 /\ CallLeft["wait"] = 1
    /\ CallLeft["sent"] = 1 /\ CallLeft["ok"] = 0 /\ CallLeft["err"] = 0
BY DEF CallLeft, LoadStates, DelStates

\* A call of the cache ends after a bounded number of steps of its own.
THEOREM CallsComeToAnEnd == Spec => CallsGoForward
<1> DEFINE Forward == /\ \E c \in Calls : CallLeft[pc'[c]] < CallLeft[pc[c]]
                      /\ \A c \in Calls : CallLeft[pc'[c]] <= CallLeft[pc[c]]
<1>1. ASSUME TypeOK, [Next]_vars PROVE pc' = pc \/ Forward
  <2>0. \A c \in Calls : pc[c] \in LoadStates \cup DelStates
    BY <1>1 DEF TypeOK
  <2>1. ASSUME NEW l \in Loads, NEW outcome \in {"ok", "err"}, Deliver(l, outcome),
               CallLeft[pc[l]] > 0
        PROVE  Forward
    <3>1. \A c \in Calls : pc'[c] = pc[c] \/ (pc'[c] = outcome /\ (c = l \/ pc[c] = "wait"))
      BY <2>1 DEF Deliver, Joined
    <3>2. l \in Calls /\ pc'[l] = outcome
      BY <2>1 DEF Deliver, Calls
    <3> QED
      BY <2>0, <2>1, <3>1, <3>2, CallOrder
  <2>2. ASSUME NEW c \in Calls, NEW state \in LoadStates \cup DelStates,
               pc' = [pc EXCEPT ![c] = state], CallLeft[state] < CallLeft[pc[c]]
        PROVE  Forward
    <3>1. \A e \in Calls : pc'[e] = IF e = c THEN state ELSE pc[e]
      BY <1>1, <2>2 DEF TypeOK
    <3> QED
      BY <2>0, <2>2, <3>1, CallOrder
  <2>3. ASSUME NEW l \in Loads, Loaded(l) \/ LoadFails(l) PROVE Forward
    <3>1. \E outcome \in {"ok", "err"} : Deliver(l, outcome)
      BY <2>3 DEF Loaded, LoadFails
    <3>2. CallLeft[pc[l]] > 0
      BY <2>3, CallOrder DEF Loaded, LoadFails
    <3> QED
      BY <2>1, <3>1, <3>2
  <2> DEFINE Moves(c) == \E state \in LoadStates \cup DelStates :
                 pc' = [pc EXCEPT ![c] = state] /\ CallLeft[state] < CallLeft[pc[c]]
  <2>4. ASSUME NEW l \in Loads, GetOrLoadVideos(l) \/ LoadStep(l), ~ Loaded(l), ~ LoadFails(l)
        PROVE  Moves(l)
    BY <2>4, CallOrder
       DEF GetOrLoadVideos, LoadStep, Hit, HitCorrupt, Repair, Repaired, Miss, Join, Lead,
           ReadVersion, LoadVideos, Goto, LoadStates
  <2>5. ASSUME NEW d \in Dels, Del(d) \/ DelStep(d) PROVE Moves(d)
    BY <2>5, CallOrder DEF Del, DelStep, DelReturns, DelFails, Goto, DelStates
  <2>6. ASSUME \/ \E c \in Calls : Resend(c) \/ \E k \in Copies : RunIncr(c, k) \/ RunDel(c, k)
               \/ \E l \in Loads, k \in Copies : RunScript(l, k)
               \/ Expire \/ WriteGarbage \/ Commit \/ UNCHANGED vars
        PROVE  pc' = pc
    BY <2>6 DEF Resend, RunIncr, RunDel, RunScript, Expire, WriteGarbage, Commit, vars
  <2>7. \A c \in Calls : Moves(c) => Forward
    BY <2>2
  <2>8. Loads \subseteq Calls /\ Dels \subseteq Calls
    BY DEF Calls
  <2> HIDE DEF Forward, Moves
  <2>9. CASE \E l \in Loads : GetOrLoadVideos(l) \/ LoadStep(l)
    BY <2>3, <2>4, <2>7, <2>8, <2>9
  <2>10. CASE \E d \in Dels : Del(d) \/ DelStep(d)
    BY <2>5, <2>7, <2>8, <2>10
  <2> QED
    BY <1>1, <2>6, <2>9, <2>10 DEF Next
<1>2. TypeOK /\ [Next]_vars => [pc' = pc \/ Forward]_vars
  BY <1>1
<1> QED
  BY <1>2, TypeCorrect, PTL DEF Spec, CallsGoForward

=============================================================================
