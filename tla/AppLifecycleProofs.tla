-------------------------- MODULE AppLifecycleProofs --------------------------
(***************************************************************************)
(* The safety properties of AppLifecycle, for any set of requests.         *)
(*                                                                         *)
(* That nothing is used after Close rests on what it means for the server  *)
(* to return without an error: the shutdown was begun by a signal and ran  *)
(* to its end, so every request that was begun has been answered.          *)
(*                                                                         *)
(* That a process which is to end does end needs fairness.  What it needs  *)
(* besides is the last part: somebody can go on until the process has      *)
(* exited, can do so until it does, and there is an end to going on.       *)
(***************************************************************************)
EXTENDS AppLifecycle, Naturals, TLAPS

Starting == {"migrate", "pool", "redis", "run"}
Closing == {"closeRedis", "closePool"}

\* Nothing runs before App.Run starts it, and Run waits for both goroutines.
MainFollows ==
    /\ main \in Starting => worker = "off" /\ http = "off"
    /\ main = "wait" => worker # "off" /\ http # "off"
    /\ main \in {"migrate", "pool", "redis"} => redis = "none"
    /\ main = "redis" => pool = "open"
    /\ main \in {"run", "wait", "closeRedis"} => pool = "open" /\ redis = "open"
    /\ main = "closePool" => redis = "closed"
    /\ main \in Closing \/ (main = "exited" /\ code = "success") =>
        worker = "done" /\ http = "done" /\ "http" \notin causes
    /\ main = "exited" /\ code = "success" => pool = "closed" /\ redis = "closed"
    /\ main # "exited" => code = "success"

\* The goroutines of serve exist while the server serves, and the shutdown that
\* ended it is due to a signal, if not to a failure.
ServerFollows ==
    /\ http \in {"off", "start", "listen"} =>
        accept = "off" /\ shutdown = "off" /\ causes \subseteq {"signal"} /\ Idle
    /\ http = "serve" => accept # "off" /\ shutdown # "off" /\ "http" \notin causes
    /\ http = "done" /\ "http" \notin causes =>
        causes \subseteq {"signal"} /\ accept = "done" /\ shutdown = "done"
    /\ http = "done" /\ accept = "off" => Idle /\ shutdown = "off"
    /\ http = "done" /\ accept # "off" => accept = "done" /\ shutdown = "done"
    /\ accept = "done" /\ shutdown = "watch" => "accept" \in causes
    /\ shutdown \in {"drain", "done"} => causes # {}
    /\ shutdown = "done" /\ causes \subseteq {"signal"} => Idle

Inv == TypeOK /\ MainFollows /\ ServerFollows

LEMMA InvInit == Init => Inv
  BY DEF Init, Inv, TypeOK, MainStates, MainFollows, ServerFollows, Starting, Closing, Idle

LEMMA InvImplies == Inv => UsersHaveConnections /\ SuccessMeansDrained
  BY DEF Inv, TypeOK, MainStates, MainFollows, ServerFollows, Starting, Closing,
         UsersHaveConnections, SuccessMeansDrained, Idle

LEMMA InvNext == Inv /\ [Next]_vars => Inv'
<1> SUFFICES ASSUME Inv, [Next]_vars PROVE Inv'
  OBVIOUS
<1> USE DEF Inv, TypeOK, MainStates, Starting, Closing, Idle, connections, goroutines,
            ExitFailed, AppCancelled, HTTPCancelled
<1>1. ASSUME RunMigrations PROVE Inv'
  <2>1. TypeOK'
    BY <1>1 DEF RunMigrations
  <2>2. MainFollows'
    BY <1>1 DEF RunMigrations, MainFollows
  <2>3. ServerFollows'
    BY <1>1 DEF RunMigrations, ServerFollows
  <2> QED
    BY <2>1, <2>2, <2>3
<1>2. ASSUME NewPool PROVE Inv'
  <2>1. TypeOK'
    BY <1>2 DEF NewPool
  <2>2. MainFollows'
    BY <1>2 DEF NewPool, MainFollows
  <2>3. ServerFollows'
    BY <1>2 DEF NewPool, ServerFollows
  <2> QED
    BY <2>1, <2>2, <2>3
<1>3. ASSUME NewRedis PROVE Inv'
  <2>1. TypeOK'
    BY <1>3 DEF NewRedis, MainFollows
  <2>2. MainFollows'
    BY <1>3 DEF NewRedis, MainFollows
  <2>3. ServerFollows'
    BY <1>3 DEF NewRedis, ServerFollows
  <2> QED
    BY <2>1, <2>2, <2>3
<1>4. ASSUME Run PROVE Inv'
  <2>1. TypeOK'
    BY <1>4 DEF Run
  <2>2. MainFollows'
    BY <1>4 DEF Run, MainFollows
  <2>3. ServerFollows'
    BY <1>4 DEF Run, ServerFollows, MainFollows
  <2> QED
    BY <2>1, <2>2, <2>3
<1>5. ASSUME RunReturns PROVE Inv'
  <2>1. TypeOK'
    BY <1>5 DEF RunReturns
  <2>2. MainFollows'
    BY <1>5 DEF RunReturns, MainFollows
  <2>3. ServerFollows'
    BY <1>5 DEF RunReturns, ServerFollows
  <2> QED
    BY <2>1, <2>2, <2>3
<1>6. ASSUME CloseRedis PROVE Inv'
  <2>1. TypeOK'
    BY <1>6 DEF CloseRedis
  <2>2. MainFollows'
    BY <1>6 DEF CloseRedis, MainFollows
  <2>3. ServerFollows'
    BY <1>6 DEF CloseRedis, ServerFollows
  <2> QED
    BY <2>1, <2>2, <2>3
<1>7. ASSUME ClosePool PROVE Inv'
  <2>1. TypeOK'
    BY <1>7 DEF ClosePool, MainFollows
  <2>2. MainFollows'
    BY <1>7 DEF ClosePool, MainFollows
  <2>3. ServerFollows'
    BY <1>7 DEF ClosePool, ServerFollows
  <2> QED
    BY <2>1, <2>2, <2>3
<1>8. ASSUME WorkerReturns PROVE Inv'
  <2>1. TypeOK'
    BY <1>8 DEF WorkerReturns
  <2>2. MainFollows'
    BY <1>8 DEF WorkerReturns, MainFollows
  <2>3. ServerFollows'
    BY <1>8 DEF WorkerReturns, ServerFollows
  <2> QED
    BY <2>1, <2>2, <2>3
<1>9. ASSUME HTTPRun PROVE Inv'
  <2>1. TypeOK'
    BY <1>9 DEF HTTPRun
  <2>2. MainFollows'
    BY <1>9 DEF HTTPRun, MainFollows
  <2>3. ServerFollows'
    BY <1>9 DEF HTTPRun, ServerFollows
  <2> QED
    BY <2>1, <2>2, <2>3
<1>10. ASSUME Listen PROVE Inv'
  <2>1. TypeOK'
    BY <1>10 DEF Listen, ServerFollows
  <2>2. MainFollows'
    BY <1>10 DEF Listen, MainFollows
  <2>3. ServerFollows'
    BY <1>10 DEF Listen, ServerFollows
  <2> QED
    BY <2>1, <2>2, <2>3
<1>11. ASSUME NEW r \in Requests, RequestBegins(r) PROVE Inv'
  <2>1. TypeOK'
    BY <1>11 DEF RequestBegins
  <2>2. MainFollows'
    BY <1>11 DEF RequestBegins, MainFollows
  <2>3. ServerFollows'
    BY <1>11 DEF RequestBegins, ServerFollows
  <2> QED
    BY <2>1, <2>2, <2>3
<1>12. ASSUME NEW r \in Requests, Respond(r) PROVE Inv'
  <2>1. TypeOK'
    BY <1>12 DEF Respond
  <2>2. MainFollows'
    BY <1>12 DEF Respond, MainFollows
  <2>3. ServerFollows'
    BY <1>12 DEF Respond, ServerFollows
  <2> QED
    BY <2>1, <2>2, <2>3
<1>13. ASSUME ServeCloses PROVE Inv'
  <2>1. TypeOK'
    BY <1>13 DEF ServeCloses
  <2>2. MainFollows'
    BY <1>13 DEF ServeCloses, MainFollows
  <2>3. ServerFollows'
    BY <1>13 DEF ServeCloses, ServerFollows
  <2> QED
    BY <2>1, <2>2, <2>3
<1>14. ASSUME ServeFails PROVE Inv'
  <2>1. TypeOK'
    BY <1>14 DEF ServeFails
  <2>2. MainFollows'
    BY <1>14 DEF ServeFails, MainFollows
  <2>3. ServerFollows'
    BY <1>14 DEF ServeFails, ServerFollows
  <2> QED
    BY <2>1, <2>2, <2>3
<1>15. ASSUME ShutdownNotNeeded PROVE Inv'
  <2>1. TypeOK'
    BY <1>15 DEF ShutdownNotNeeded
  <2>2. MainFollows'
    BY <1>15 DEF ShutdownNotNeeded, MainFollows
  <2>3. ServerFollows'
    BY <1>15 DEF ShutdownNotNeeded, ServerFollows
  <2> QED
    BY <2>1, <2>2, <2>3
<1>16. ASSUME ShutdownBegins PROVE Inv'
  <2>1. TypeOK'
    BY <1>16 DEF ShutdownBegins
  <2>2. MainFollows'
    BY <1>16 DEF ShutdownBegins, MainFollows
  <2>3. ServerFollows'
    BY <1>16 DEF ShutdownBegins, ServerFollows
  <2> QED
    BY <2>1, <2>2, <2>3
<1>17. ASSUME Drained PROVE Inv'
  <2>1. TypeOK'
    BY <1>17 DEF Drained
  <2>2. MainFollows'
    BY <1>17 DEF Drained, MainFollows
  <2>3. ServerFollows'
    BY <1>17 DEF Drained, ServerFollows
  <2> QED
    BY <2>1, <2>2, <2>3
<1>18. ASSUME DrainTimesOut PROVE Inv'
  <2>1. TypeOK'
    BY <1>18 DEF DrainTimesOut
  <2>2. MainFollows'
    BY <1>18 DEF DrainTimesOut, MainFollows
  <2>3. ServerFollows'
    BY <1>18 DEF DrainTimesOut, ServerFollows
  <2> QED
    BY <2>1, <2>2, <2>3
<1>19. ASSUME ServeReturns PROVE Inv'
  <2>1. TypeOK'
    BY <1>19 DEF ServeReturns
  <2>2. MainFollows'
    BY <1>19 DEF ServeReturns, MainFollows
  <2>3. ServerFollows'
    BY <1>19 DEF ServeReturns, ServerFollows
  <2> QED
    BY <2>1, <2>2, <2>3
<1>20. ASSUME Signal PROVE Inv'
  <2>1. TypeOK'
    BY <1>20 DEF Signal
  <2>2. MainFollows'
    BY <1>20 DEF Signal, MainFollows
  <2>3. ServerFollows'
    BY <1>20 DEF Signal, ServerFollows
  <2> QED
    BY <2>1, <2>2, <2>3
<1>21. ASSUME UNCHANGED vars PROVE Inv'
  <2>1. TypeOK'
    BY <1>21 DEF vars
  <2>2. MainFollows'
    BY <1>21 DEF vars, MainFollows
  <2>3. ServerFollows'
    BY <1>21 DEF vars, ServerFollows
  <2> QED
    BY <2>1, <2>2, <2>3
<1> QED
  BY <1>1, <1>2, <1>3, <1>4, <1>5, <1>6, <1>7, <1>8, <1>9, <1>10, <1>11, <1>12, <1>13, <1>14,
     <1>15, <1>16, <1>17, <1>18, <1>19, <1>20, <1>21
     DEF Next, Alive, MainStep, HTTPStep, ShutdownStep

-----------------------------------------------------------------------------
\* Every variable keeps its type, and the client is open only with the pool.
THEOREM TypeCorrect == Spec => []TypeOK
<1>1. Inv => TypeOK
  BY DEF Inv
<1> QED
  BY InvInit, InvNext, <1>1, PTL DEF Spec

\* App.Close never takes the connections from a request or from the worker.
THEOREM ConnectionsOpen == Spec => []UsersHaveConnections
  BY InvInit, InvNext, InvImplies, PTL DEF Spec

\* Exit code 0 means a signal and a complete, orderly shutdown.
THEOREM SuccessSound == Spec => []SuccessMeansDrained
  BY InvInit, InvNext, InvImplies, PTL DEF Spec

-----------------------------------------------------------------------------
(* The end of the process, without the fairness that takes it there        *)

\* What ends the process: a signal, a goroutine that failed, a server that is done.
Ending == causes # {} \/ http = "done" \/ accept = "done"

\* Who of main and the goroutines has a step to take: the guards of the steps on
\* which Fairness counts.
MainCan ==
    \/ main \in Starting \cup Closing
    \/ main = "wait" /\ http = "done" /\ worker = "done"
WorkerCan == worker = "on" /\ AppCancelled
HTTPCan ==
    \/ http \in {"start", "listen"}
    \/ http = "serve" /\ accept = "done" /\ shutdown = "done"
AcceptCan == accept = "on" /\ shutdown \in {"drain", "done"}
ShutdownCan ==
    \/ shutdown = "drain"
    \/ shutdown = "watch" /\ (accept = "done" \/ HTTPCancelled)

\* Nobody waits for somebody who is not told to end: once anything ends the process,
\* and until it has exited, main or a goroutine can go on, whatever the requests do.
NeverStuck ==
    main # "exited" /\ Ending => MainCan \/ WorkerCan \/ HTTPCan \/ AcceptCan \/ ShutdownCan

\* The end is not called off, and who can go on still can until it does: nobody's
\* step takes another's away.
NothingTakesItBack ==
    [][/\ Ending => Ending'
       /\ MainCan => MainCan' \/ main' # main
       /\ WorkerCan => WorkerCan' \/ worker' # worker
       /\ HTTPCan => HTTPCan' \/ http' # http
       /\ AcceptCan => AcceptCan' \/ accept' # accept
       /\ ShutdownCan => ShutdownCan' \/ shutdown' # shutdown]_vars

\* What main and the goroutines have before them at most.
MainLeft == [s \in MainStates |->
    CASE s = "migrate" -> 19
      [] s = "pool" -> 18
      [] s = "redis" -> 17
      [] s = "run" -> 16
      [] s = "wait" -> 3
      [] s = "closeRedis" -> 2
      [] s = "closePool" -> 1
      [] OTHER -> 0]
GoroutinesLeft ==
    (IF worker = "on" THEN 1 ELSE 0)
    + (CASE http = "start" -> 6 [] http = "listen" -> 5 [] http = "serve" -> 1 [] OTHER -> 0)
    + (IF accept = "on" THEN 1 ELSE 0)
    + (CASE shutdown = "watch" -> 2 [] shutdown = "drain" -> 1 [] OTHER -> 0)
StepsLeft == MainLeft[main] + GoroutinesLeft

\* No step of main or of a goroutine is ever undone or repeated: each leaves less to
\* do, and requests and signals leave as much.
OnlyForward ==
    [][\/ StepsLeft' < StepsLeft
       \/ UNCHANGED <<main, worker, http, accept, shutdown>>]_vars

LEMMA GoesOn == Inv => NeverStuck
<1> SUFFICES ASSUME Inv, main # "exited", Ending
             PROVE  MainCan \/ WorkerCan \/ HTTPCan \/ AcceptCan \/ ShutdownCan
  BY DEF NeverStuck
<1> USE DEF Inv, TypeOK
<1>1. CASE main # "wait"
  BY <1>1 DEF MainCan, MainStates, Starting, Closing
<1>2. CASE main = "wait"
  <2>1. worker \in {"on", "done"} /\ http \in {"start", "listen", "serve", "done"}
    BY <1>2 DEF MainFollows
  <2>2. CASE http \in {"start", "listen"}
    BY <2>2 DEF HTTPCan
  <2>3. CASE http = "serve"
    <3>1. accept \in {"on", "done"} /\ shutdown \in {"watch", "drain", "done"}
      BY <2>3 DEF ServerFollows
    <3> QED
      BY <2>3, <3>1 DEF Ending, HTTPCan, AcceptCan, ShutdownCan, HTTPCancelled
  <2>4. CASE http = "done"
    <3>1. AppCancelled
      BY <2>4 DEF ServerFollows, AppCancelled
    <3> QED
      BY <1>2, <2>1, <2>4, <3>1 DEF MainCan, WorkerCan
  <2> QED
    BY <2>1, <2>2, <2>3, <2>4
<1> QED
  BY <1>1, <1>2

\* Once anything ends the process, it is never stuck before its exit.
THEOREM EndIsReachable == Spec => []NeverStuck
  BY InvInit, InvNext, GoesOn, PTL DEF Spec

\* What can go on, can until it does.
THEOREM EndIsNotCalledOff == Spec => NothingTakesItBack
<1>1. Inv /\ [Next]_vars =>
        [/\ Ending => Ending'
         /\ MainCan => MainCan' \/ main' # main
         /\ WorkerCan => WorkerCan' \/ worker' # worker
         /\ HTTPCan => HTTPCan' \/ http' # http
         /\ AcceptCan => AcceptCan' \/ accept' # accept
         /\ ShutdownCan => ShutdownCan' \/ shutdown' # shutdown]_vars
  <2> SUFFICES ASSUME Inv, Next
               PROVE  /\ Ending => Ending'
                      /\ MainCan => MainCan' \/ main' # main
                      /\ WorkerCan => WorkerCan' \/ worker' # worker
                      /\ HTTPCan => HTTPCan' \/ http' # http
                      /\ AcceptCan => AcceptCan' \/ accept' # accept
                      /\ ShutdownCan => ShutdownCan' \/ shutdown' # shutdown
    OBVIOUS
  <2> USE DEF Inv, TypeOK, ServerFollows, connections, goroutines, ExitFailed, AppCancelled,
              HTTPCancelled, Ending, MainCan, WorkerCan, HTTPCan, AcceptCan, ShutdownCan
  <2>1. CASE MainStep
    BY <2>1 DEF MainStep, RunMigrations, NewPool, NewRedis, Run, RunReturns, CloseRedis,
           ClosePool, MainFollows, Starting, Closing
  <2>2. CASE HTTPStep
    BY <2>2 DEF HTTPStep, HTTPRun, Listen, ServeReturns
  <2>3. CASE ShutdownStep
    BY <2>3 DEF ShutdownStep, ShutdownNotNeeded, ShutdownBegins, Drained, DrainTimesOut
  <2>4. CASE WorkerReturns \/ ServeCloses \/ ServeFails \/ Signal
    BY <2>4 DEF WorkerReturns, ServeCloses, ServeFails, Signal
  <2>5. CASE \E r \in Requests : RequestBegins(r) \/ Respond(r)
    BY <2>5 DEF RequestBegins, Respond
  <2> QED
    BY <2>1, <2>2, <2>3, <2>4, <2>5 DEF Next, Alive
<1> QED
  BY <1>1, InvInit, InvNext, PTL DEF Spec, NothingTakesItBack

\* The process comes to its end in a bounded number of steps, the requests' apart.
THEOREM LifeIsBounded == Spec => OnlyForward
<1>1. Inv /\ Inv' /\ [Next]_vars =>
        [\/ StepsLeft' < StepsLeft
         \/ UNCHANGED <<main, worker, http, accept, shutdown>>]_vars
  <2> SUFFICES ASSUME Inv, Inv', Next
               PROVE  \/ StepsLeft' < StepsLeft
                      \/ UNCHANGED <<main, worker, http, accept, shutdown>>
    OBVIOUS
  <2> USE DEF Inv, TypeOK, MainStates, Starting, MainFollows, ServerFollows, connections,
              goroutines, ExitFailed, StepsLeft, MainLeft, GoroutinesLeft
  <2>1. CASE MainStep
    BY <2>1 DEF MainStep, RunMigrations, NewPool, NewRedis, Run, RunReturns, CloseRedis, ClosePool
  <2>2. CASE HTTPStep
    BY <2>2 DEF HTTPStep, HTTPRun, Listen, ServeReturns
  <2>3. CASE ShutdownStep
    BY <2>3 DEF ShutdownStep, ShutdownNotNeeded, ShutdownBegins, Drained, DrainTimesOut
  <2>4. CASE WorkerReturns \/ ServeCloses \/ ServeFails
    BY <2>4 DEF WorkerReturns, ServeCloses, ServeFails
  <2>5. CASE Signal \/ \E r \in Requests : RequestBegins(r) \/ Respond(r)
    BY <2>5 DEF Signal, RequestBegins, Respond
  <2> QED
    BY <2>1, <2>2, <2>3, <2>4, <2>5 DEF Next, Alive
<1> QED
  BY <1>1, InvInit, InvNext, PTL DEF Spec, OnlyForward

=============================================================================
