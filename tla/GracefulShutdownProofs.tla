------------------------ MODULE GracefulShutdownProofs ------------------------
(***************************************************************************)
(* Theorems about GracefulShutdown: for any connections, jobs and workers, *)
(* whoever finds the database closed is a straggler of one of the kinds    *)
(* the properties name.  The invariant says, for each step reached, what   *)
(* that step has settled once and for all.                                 *)
(***************************************************************************)
EXTENDS GracefulShutdown, TLAPS

Open == {c \in Conn : conn[c] \in {"idle", "busy"}}

\* The steps after the jobs were stopped, after the workers were closed and
\* after the database was closed.
JobsStopped == AfterDrain \ {"stopJobs"}
QueuesClosed == JobsStopped \ {"closeQueues"}
DatabaseClosed == QueuesClosed \ {"closeDatabase"}

\* Every socket is tracked until the drain; then only the late ones are left,
\* unless the drain gave up.  A handler without a socket lost its client.
DrainInv ==
    /\ \A c \in Conn : conn[c] = "cut" => c \in hungUp
    /\ step \in BeforeDrain => Open \subseteq active /\ ~timedOut
    /\ step \in AfterDrain /\ ~timedOut => Open \subseteq late

\* A callback of a stopped schedule was running already when it was stopped.
JobsInv ==
    /\ Stoppable \intersect stopped \intersect running \subseteq caught
    /\ step \in JobsStopped => Stoppable \subseteq stopped \union faulty

QueuesInv ==
    step \in QueuesClosed =>
        Worker \subseteq stopped \union faulty /\ Worker \intersect running \subseteq faulty

DatabaseInv ==
    IF database = "open" THEN broken = {} ELSE step \in DatabaseClosed

Inv ==
    /\ TypeOK
    /\ DrainInv /\ JobsInv /\ QueuesInv /\ DatabaseInv
    /\ DrainedRequestsAreSafe /\ StoppedWorkIsSafe

-----------------------------------------------------------------------------

LEMMA InitInv == Init => Inv
<1> SUFFICES ASSUME Init PROVE Inv
  OBVIOUS
<1>1. TypeOK
  <2>1. step \in BeforeDrain /\ conn \in [Conn -> {"none", "idle", "busy", "cut", "closed"}]
    BY DEF Init, BeforeDrain
  <2>2. faults \in 0..MaxFaults
    BY MaxFaultsAssumption DEF Init
  <2>3. /\ active \subseteq {c \in Conn : conn[c] \in {"idle", "busy"}}
        /\ timedOut \in BOOLEAN /\ database \in {"open", "closed"}
    BY DEF Init
  <2>4. /\ late \subseteq Conn /\ hungUp \subseteq Conn /\ running \subseteq Job \union Worker
        /\ stopped \subseteq Stoppable \union Worker
        /\ faulty \subseteq Worker \union Stoppable /\ caught \subseteq Stoppable
        /\ broken \subseteq Conn \union Job \union Worker
    BY DEF Init
  <2> QED BY <2>1, <2>2, <2>3, <2>4 DEF TypeOK
<1>2. DrainInv
  BY DEF Init, DrainInv, Open, AfterDrain
<1>3. JobsInv /\ QueuesInv /\ DatabaseInv
  BY DEF Init, JobsInv, QueuesInv, DatabaseInv, AfterDrain, JobsStopped,
     QueuesClosed
<1>4. DrainedRequestsAreSafe /\ StoppedWorkIsSafe
  BY DEF Init, DrainedRequestsAreSafe, StoppedWorkIsSafe
<1> QED BY <1>1, <1>2, <1>3, <1>4 DEF Inv

\* The type invariant, action by action.
LEMMA TypeStep == TypeOK /\ [Next]_vars => TypeOK'
<1> SUFFICES ASSUME TypeOK, [Next]_vars PROVE TypeOK'
  OBVIOUS
<1> USE MaxFaultsAssumption, SubsetAssumption
<1>1. ASSUME NEW c \in Conn, Connect(c) PROVE TypeOK'
  BY <1>1 DEF TypeOK, Connect, work
<1>2. ASSUME NEW c \in Conn, Request(c) PROVE TypeOK'
  BY <1>2 DEF TypeOK, Request, work
<1>3. ASSUME NEW c \in Conn, Respond(c) PROVE TypeOK'
  BY <1>3 DEF TypeOK, Respond, UsesDatabase, work
<1>4. ASSUME NEW c \in Conn, Close(c) PROVE TypeOK'
  BY <1>4 DEF TypeOK, Close, work
<1>5. ASSUME NEW x \in Job \union Worker, Fires(x) PROVE TypeOK'
  BY <1>5 DEF TypeOK, Fires, sockets
<1>6. ASSUME NEW x \in Job \union Worker, Ends(x) PROVE TypeOK'
  BY <1>6 DEF TypeOK, Ends, UsesDatabase, sockets
<1>7. CASE handleShutdown
  BY <1>7 DEF TypeOK, handleShutdown, sockets, work, BeforeDrain
<1>8. CASE stopAcceptingConnections
  BY <1>8 DEF TypeOK, stopAcceptingConnections, sockets, work, BeforeDrain
<1>9. ASSUME NEW w \in Worker, PauseWorker(w) PROVE TypeOK'
  BY <1>9 DEF TypeOK, PauseWorker, Fault, sockets
<1>10. CASE pauseBullMQQueues
  BY <1>10 DEF TypeOK, pauseBullMQQueues, sockets, work, BeforeDrain
<1>11. CASE waitForActiveConnections
  BY <1>11 DEF TypeOK, waitForActiveConnections, work, AfterDrain
<1>12. CASE stopBackgroundJobs
  BY <1>12 DEF TypeOK, stopBackgroundJobs, sockets, work, AfterDrain
<1>13. CASE closeBullMQQueues
  BY <1>13 DEF TypeOK, closeBullMQQueues, sockets, work, AfterDrain
<1>14. CASE closeDatabaseConnections
  BY <1>14 DEF TypeOK, closeDatabaseConnections, Fault, sockets, work, AfterDrain
<1>15. CASE closeClients
  BY <1>15 DEF TypeOK, closeClients, sockets, work, AfterDrain
<1>16. CASE closeHttpServer
  BY <1>16 DEF TypeOK, closeHttpServer, sockets, work, AfterDrain
<1>17. CASE UNCHANGED vars
  BY <1>17 DEF TypeOK, vars, sockets, work
<1>18. ASSUME NEW c \in Conn, HangUp(c) PROVE TypeOK'
  BY <1>18 DEF TypeOK, HangUp, work
<1>19. ASSUME NEW j \in Stoppable, StopJob(j) PROVE TypeOK'
  BY <1>19 DEF TypeOK, StopJob, Fault, sockets
<1> QED BY <1>1, <1>2, <1>3, <1>4, <1>5, <1>6, <1>7, <1>8, <1>9, <1>10, <1>11,
           <1>12, <1>13, <1>14, <1>15, <1>16, <1>17, <1>18, <1>19
        DEF Next, performGracefulShutdown

-----------------------------------------------------------------------------
(* Sockets, then work, then the steps of the shutdown.                     *)

\* A connection that opens, works or closes, and a handler that ends.
LEMMA SocketStep ==
    ASSUME Inv, NEW c \in Conn,
           Connect(c) \/ Request(c) \/ Respond(c) \/ Close(c) \/ HangUp(c)
    PROVE  (DrainInv /\ JobsInv /\ QueuesInv /\ DatabaseInv
              /\ DrainedRequestsAreSafe /\ StoppedWorkIsSafe)'
<1>1. UNCHANGED <<step, timedOut, faulty, database, work>>
  BY DEF Connect, Request, Respond, Close, HangUp
<1>2. /\ late \subseteq late' /\ hungUp \subseteq hungUp'
      /\ conn \in [Conn -> {"none", "idle", "busy", "cut", "closed"}]
      /\ \A d \in Conn \ {c} : conn'[d] = conn[d]
      /\ conn'[c] = "cut" => c \in hungUp'
  BY DEF Connect, Request, Respond, Close, HangUp, Inv, TypeOK
<1>3. DrainInv'
  <2>1. \A d \in Conn : conn'[d] = "cut" => d \in hungUp'
    BY <1>2 DEF Inv, DrainInv
  <2>2. CASE Connect(c)
    <3>1. Open' = Open \union {c} /\ active' = active \union {c}
      BY <1>2, <2>2 DEF Connect, Open
    <3>2. step \in AfterDrain => late' = late \union {c}
      BY <2>2 DEF Connect
    <3> QED BY <1>1, <1>2, <2>1, <3>1, <3>2 DEF Inv, DrainInv
  <2>3. CASE Request(c) \/ Respond(c) \/ Close(c) \/ HangUp(c)
    <3>1. /\ Open' \subseteq Open /\ UNCHANGED late
          /\ c \in Open' => UNCHANGED active
          /\ active \ {c} \subseteq active'
      BY <1>2, <2>3 DEF Request, Respond, Close, HangUp, Open
    <3> QED BY <1>1, <2>1, <3>1 DEF Inv, DrainInv
  <2> QED BY <2>2, <2>3
<1>4. JobsInv' /\ QueuesInv'
  BY <1>1 DEF Inv, JobsInv, QueuesInv, work
<1>5. \/ UNCHANGED broken
      \/ /\ broken' = broken \union {c} /\ database = "closed"
         /\ c \in Open \union hungUp
  BY DEF Connect, Request, Respond, Close, HangUp, UsesDatabase, Open, Inv, TypeOK,
     DrainInv
<1>6. DatabaseInv'
  BY <1>1, <1>5 DEF Inv, DatabaseInv
<1>7. DrainedRequestsAreSafe'
  <2>1. database = "closed" => step \in AfterDrain
    BY DEF Inv, DatabaseInv, DatabaseClosed, QueuesClosed, JobsStopped
  <2> QED BY <1>1, <1>2, <1>5, <2>1 DEF Inv, DrainInv, DrainedRequestsAreSafe
<1>8. StoppedWorkIsSafe'
  BY <1>1, <1>5, ActorsAreDistinct DEF Inv, StoppedWorkIsSafe, work
<1> QED BY <1>3, <1>4, <1>6, <1>7, <1>8

\* A job or a worker that starts or ends a callback.
LEMMA WorkStep ==
    ASSUME Inv, NEW x \in Job \union Worker, Fires(x) \/ Ends(x)
    PROVE  (DrainInv /\ JobsInv /\ QueuesInv /\ DatabaseInv
              /\ DrainedRequestsAreSafe /\ StoppedWorkIsSafe)'
<1>1. /\ UNCHANGED <<step, sockets, timedOut, stopped, caught, faulty, database>>
      /\ running' \subseteq running \union ({x} \ stopped)
  BY DEF Fires, Ends
<1>2. DrainInv'
  BY <1>1 DEF Inv, DrainInv, Open, sockets
<1>3. JobsInv' /\ QueuesInv'
  BY <1>1 DEF Inv, JobsInv, QueuesInv
<1>4. \/ UNCHANGED broken
      \/ broken' = broken \union {x} /\ database = "closed" /\ x \in running
  BY DEF Fires, Ends, UsesDatabase, Inv, TypeOK
<1>5. DatabaseInv'
  BY <1>1, <1>4 DEF Inv, DatabaseInv
<1>6. DrainedRequestsAreSafe'
  BY <1>1, <1>4, ActorsAreDistinct DEF Inv, DrainedRequestsAreSafe, sockets
<1>7. StoppedWorkIsSafe'
  <2>1. database = "closed" => step \in JobsStopped /\ step \in QueuesClosed
    BY DEF Inv, DatabaseInv, DatabaseClosed, QueuesClosed
  <2> QED BY <1>1, <1>4, <2>1 DEF Inv, JobsInv, QueuesInv, StoppedWorkIsSafe
<1> QED BY <1>2, <1>3, <1>5, <1>6, <1>7

\* The steps of the shutdown.  Before the queues are closed nobody has found
\* the database closed, so what they forget about faults does no harm.
LEMMA ShutdownStep ==
    ASSUME Inv, handleShutdown \/ performGracefulShutdown
    PROVE  (DrainInv /\ JobsInv /\ QueuesInv /\ DatabaseInv
              /\ DrainedRequestsAreSafe /\ StoppedWorkIsSafe)'
<1> USE DEF BeforeDrain, AfterDrain, JobsStopped, QueuesClosed, DatabaseClosed
<1>1. CASE handleShutdown \/ stopAcceptingConnections
  BY <1>1 DEF handleShutdown, stopAcceptingConnections, sockets, work, Inv, Open,
     DrainInv, JobsInv, QueuesInv, DatabaseInv, DrainedRequestsAreSafe,
     StoppedWorkIsSafe
<1>2. ASSUME NEW w \in Worker, PauseWorker(w)
      PROVE  (DrainInv /\ JobsInv /\ QueuesInv /\ DatabaseInv
                /\ DrainedRequestsAreSafe /\ StoppedWorkIsSafe)'
  <2>1. /\ UNCHANGED <<step, sockets, timedOut, running, caught, database, broken>>
        /\ stopped \subseteq stopped' /\ stopped' \subseteq stopped \union {w}
        /\ faulty \subseteq faulty' /\ step \in {"pauseQueues", "closeQueues"}
    BY <1>2 DEF PauseWorker
  <2>2. w \notin Stoppable /\ broken = {}
    BY <2>1, ActorsAreDistinct, SubsetAssumption DEF Inv, DatabaseInv
  <2> QED BY <2>1, <2>2 DEF sockets, Inv, Open, DrainInv, JobsInv, QueuesInv,
             DatabaseInv, DrainedRequestsAreSafe, StoppedWorkIsSafe
<1>3. CASE pauseBullMQQueues
  <2>1. broken = {}
    BY <1>3 DEF pauseBullMQQueues, Inv, DatabaseInv
  <2> QED BY <1>3, <2>1 DEF pauseBullMQQueues, sockets, work, Inv, Open,
             DrainInv, JobsInv, QueuesInv, DatabaseInv, DrainedRequestsAreSafe,
             StoppedWorkIsSafe
<1>4. CASE waitForActiveConnections
  <2>1. broken = {} /\ Open \subseteq active
    BY <1>4 DEF waitForActiveConnections, Inv, DatabaseInv, DrainInv
  <2> QED BY <1>4, <2>1 DEF waitForActiveConnections, work, Inv, Open, TypeOK,
             DrainInv, JobsInv, QueuesInv, DatabaseInv, DrainedRequestsAreSafe,
             StoppedWorkIsSafe
<1>5. CASE stopBackgroundJobs
  <2>1. broken = {}
    BY <1>5 DEF stopBackgroundJobs, Inv, DatabaseInv
  <2> QED BY <1>5, <2>1 DEF stopBackgroundJobs, sockets, work, Inv, Open,
             DrainInv, JobsInv, QueuesInv, DatabaseInv, DrainedRequestsAreSafe,
             StoppedWorkIsSafe
<1>6. CASE closeBullMQQueues
  BY <1>6 DEF closeBullMQQueues, QueuesSettled, sockets, work, Inv, Open,
     DrainInv, JobsInv, QueuesInv, DatabaseInv, DrainedRequestsAreSafe,
     StoppedWorkIsSafe
<1>7. CASE closeDatabaseConnections
  BY <1>7 DEF closeDatabaseConnections, sockets, work, Inv, Open, DrainInv,
     JobsInv, QueuesInv, DatabaseInv, DrainedRequestsAreSafe, StoppedWorkIsSafe
<1>8. CASE closeClients \/ closeHttpServer
  BY <1>8 DEF closeClients, closeHttpServer, sockets, work, Inv, Open, DrainInv,
     JobsInv, QueuesInv, DatabaseInv, DrainedRequestsAreSafe, StoppedWorkIsSafe
<1>9. ASSUME NEW j \in Stoppable, StopJob(j)
      PROVE  (DrainInv /\ JobsInv /\ QueuesInv /\ DatabaseInv
                /\ DrainedRequestsAreSafe /\ StoppedWorkIsSafe)'
  <2>1. /\ broken = {} /\ step = "stopJobs"
        /\ UNCHANGED <<step, sockets, timedOut, running, database, broken>>
    BY <1>9 DEF StopJob, Inv, DatabaseInv
  <2>2. stopped' \subseteq stopped \union {j} /\ (j \in stopped' => j \notin running \/ j \in caught')
    BY <1>9 DEF StopJob
  <2>3. caught \subseteq caught' /\ stopped \subseteq stopped'
    BY <1>9 DEF StopJob
  <2> QED BY <2>1, <2>2, <2>3 DEF sockets, Inv, Open, DrainInv, JobsInv, QueuesInv,
             DatabaseInv, DrainedRequestsAreSafe, StoppedWorkIsSafe
<1> QED BY <1>1, <1>2, <1>3, <1>4, <1>5, <1>6, <1>7, <1>8, <1>9
        DEF performGracefulShutdown

LEMMA Invariance == Spec => []Inv
<1>1. Inv /\ [Next]_vars => Inv'
  <2> SUFFICES ASSUME Inv, [Next]_vars PROVE Inv'
    OBVIOUS
  <2>1. TypeOK'
    BY TypeStep DEF Inv
  <2>2. (DrainInv /\ JobsInv /\ QueuesInv /\ DatabaseInv
           /\ DrainedRequestsAreSafe /\ StoppedWorkIsSafe)'
    <3>1. CASE UNCHANGED vars
      BY <3>1 DEF vars, sockets, work, Inv, Open, DrainInv, JobsInv, QueuesInv,
         DatabaseInv, DrainedRequestsAreSafe, StoppedWorkIsSafe
    <3> QED BY <3>1, SocketStep, WorkStep, ShutdownStep DEF Next
  <2> QED BY <2>1, <2>2 DEF Inv
<1> QED BY <1>1, InitInv, PTL DEF Spec

-----------------------------------------------------------------------------

\* The type invariant: sockets, jobs and steps are what the service tracks.
THEOREM ShutdownTypeCorrect == Spec => []TypeOK
<1>1. Inv => TypeOK
  BY DEF Inv
<1> QED BY <1>1, Invariance, PTL

\* However many connections there are: a client that was connected before the
\* drain ended without giving up, and waits for its answer, never meets the closed
\* database.
THEOREM DrainProtectsRequests == Spec => []DrainedRequestsAreSafe
<1>1. Inv => DrainedRequestsAreSafe
  BY DEF Inv
<1> QED BY <1>1, Invariance, PTL

\* However many jobs and workers there are, and however many calls that stop them
\* fail: the ones the shutdown did stop and wait for never find the database closed.
THEOREM ShutdownProtectsWork == Spec => []StoppedWorkIsSafe
<1>1. Inv => StoppedWorkIsSafe
  BY DEF Inv
<1> QED BY <1>1, Invariance, PTL
=============================================================================
