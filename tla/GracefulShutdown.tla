-------------------------- MODULE GracefulShutdown --------------------------
(***************************************************************************)
(* GracefulShutdownService: on the first signal (or uncaught error) nine   *)
(* steps are awaited one after the other while the process keeps serving:  *)
(* requests go on until the last step, because the 503 middleware and the  *)
(* 503 /health handler are appended behind the routes; a client that hangs *)
(* up takes its socket away, but not the handler of its request; cron      *)
(* callbacks that are running are not waited for; an error of a step is    *)
(* caught, and the next step is taken.  Requests, cron jobs and queue      *)
(* workers all need the database, which the sixth step closes.             *)
(***************************************************************************)
EXTENDS Integers

CONSTANTS
    Conn,           \* TCP connections, each opened at most once
    Chatty,         \* those that are never idle for long (websockets)
    Job,            \* background jobs
    Stoppable,      \* those registered under an object with a stop method
    Worker,         \* registered BullMQ workers
    MaxFaults       \* bound: pause, close and stop calls that fail

ASSUME SubsetAssumption == Chatty \subseteq Conn /\ Stoppable \subseteq Job
ASSUME ActorsAreDistinct ==
    Conn \intersect Job = {} /\ Conn \intersect Worker = {} /\ Job \intersect Worker = {}
ASSUME MaxFaultsAssumption == MaxFaults \in Nat

VARIABLES
    step,       \* the step performGracefulShutdown awaits
    conn,       \* the sockets
    active,     \* activeConnections
    timedOut,   \* the drain gave up on connections
    running,    \* jobs and workers with a callback or a job in progress
    stopped,    \* jobs that were stopped, workers that take no more jobs
    faulty,     \* workers whose pause or close failed, jobs whose stop failed
    database,   \* "open" or "closed"
    late,       \* connections opened after the drain
    hungUp,     \* connections closed while a request was being handled
    caught,     \* jobs whose callback was running when they were stopped
    broken,     \* who found the database closed
    faults

sockets == <<conn, active, late, hungUp>>
work == <<running, stopped, caught>>
vars == <<step, sockets, timedOut, work, faulty, database, broken, faults>>

\* The steps of performGracefulShutdown; between "running" and "exited" a
\* shutdown is on.
BeforeDrain == {"running", "stopAccepting", "pauseQueues", "waitForConnections"}
AfterDrain == {"stopJobs", "closeQueues", "closeDatabase", "closeRedis",
               "stopGraphQL", "closeServer", "exited"}

TypeOK ==
    /\ step \in BeforeDrain \union AfterDrain
    /\ conn \in [Conn -> {"none", "idle", "busy", "cut", "closed"}]
    /\ active \subseteq {c \in Conn : conn[c] \in {"idle", "busy"}}
    /\ late \subseteq Conn /\ hungUp \subseteq Conn
    /\ timedOut \in BOOLEAN
    /\ running \subseteq Job \union Worker
    /\ stopped \subseteq Stoppable \union Worker
    /\ faulty \subseteq Worker \union Stoppable /\ caught \subseteq Stoppable
    /\ database \in {"open", "closed"}
    /\ broken \subseteq Conn \union Job \union Worker
    /\ faults \in 0..MaxFaults

Init ==
    /\ step = "running"
    /\ conn = [c \in Conn |-> "none"]
    /\ active = {} /\ late = {} /\ hungUp = {}
    /\ timedOut = FALSE
    /\ running = {} /\ stopped = {} /\ caught = {} /\ faulty = {}
    /\ database = "open"
    /\ broken = {}
    /\ faults = 0

Fault == /\ faults < MaxFaults
         /\ faults' = faults + 1

Listening == step \notin {"closeServer", "exited"}

\* x does what it needs the database for.
UsesDatabase(x) ==
    broken' = IF database = "closed" THEN broken \union {x} ELSE broken

-----------------------------------------------------------------------------
(* Requests                                                                *)

Connect(c) ==
    /\ Listening
    /\ conn[c] = "none"
    /\ conn' = [conn EXCEPT ![c] = "idle"]
    /\ active' = active \union {c}
    /\ late' = IF step \in AfterDrain THEN late \union {c} ELSE late
    /\ UNCHANGED <<step, hungUp, timedOut, work, faulty, database, broken, faults>>

\* The routes come before the middleware that would answer 503.
Request(c) ==
    /\ step # "exited"
    /\ conn[c] = "idle"
    /\ conn' = [conn EXCEPT ![c] = "busy"]
    /\ UNCHANGED <<step, active, late, hungUp, timedOut, work, faulty, database,
                   broken, faults>>

\* The handler comes to its end, whether the client still waits or not.
Respond(c) ==
    /\ step # "exited"
    /\ \/ conn[c] = "busy" /\ conn' = [conn EXCEPT ![c] = "idle"]
       \/ conn[c] = "cut" /\ conn' = [conn EXCEPT ![c] = "closed"]
    /\ UsesDatabase(c)
    /\ UNCHANGED <<step, active, late, hungUp, timedOut, work, faulty, database,
                   faults>>

\* Mutant: nobody listens to 'close'.
Close_Untracked(c) ==
    /\ step # "exited"
    /\ conn[c] = "idle"
    /\ conn' = [conn EXCEPT ![c] = "closed"]
    /\ UNCHANGED <<step, active, late, hungUp, timedOut, work, faulty, database,
                   broken, faults>>

\* The client closes an idle connection, or it was idle for too long.
Close(c) ==
    /\ step # "exited"
    /\ conn[c] = "idle"
    /\ conn' = [conn EXCEPT ![c] = "closed"]
    /\ active' = active \ {c}
    /\ UNCHANGED <<step, late, hungUp, timedOut, work, faulty, database, broken,
                   faults>>

\* The client hangs up, or the socket times out, before the answer: the
\* connection is gone for the drain, and the handler runs on.
HangUp(c) ==
    /\ step # "exited"
    /\ conn[c] = "busy"
    /\ conn' = [conn EXCEPT ![c] = "cut"]
    /\ active' = active \ {c}
    /\ hungUp' = hungUp \union {c}
    /\ UNCHANGED <<step, late, timedOut, work, faulty, database, broken, faults>>

-----------------------------------------------------------------------------
(* Background jobs and queue workers                                       *)

Fires(x) ==
    /\ step # "exited"
    /\ x \notin running
    /\ x \notin stopped
    /\ running' = running \union {x}
    /\ UNCHANGED <<step, sockets, timedOut, stopped, caught, faulty, database,
                   broken, faults>>

Ends(x) ==
    /\ step # "exited"
    /\ x \in running
    /\ running' = running \ {x}
    /\ UsesDatabase(x)
    /\ UNCHANGED <<step, sockets, timedOut, stopped, caught, faulty, database,
                   faults>>

-----------------------------------------------------------------------------
(* The shutdown                                                            *)

\* Mutant: a second signal starts over.
handleShutdown_Again ==
    /\ step # "exited"
    /\ step' = "stopAccepting"
    /\ UNCHANGED <<sockets, timedOut, work, faulty, database, broken, faults>>

\* The first signal; isShuttingDown makes the others return at once.
handleShutdown ==
    /\ step = "running"
    /\ step' = "stopAccepting"
    /\ UNCHANGED <<sockets, timedOut, work, faulty, database, broken, faults>>

stopAcceptingConnections ==
    /\ step = "stopAccepting"
    /\ step' = "pauseQueues"
    /\ UNCHANGED <<sockets, timedOut, work, faulty, database, broken, faults>>

\* pause() and close() take the worker off the queue at once ...
PauseWorker(w) ==
    /\ step \in {"pauseQueues", "closeQueues"}
    /\ w \notin stopped \union faulty
    /\ \/ /\ stopped' = stopped \union {w}
          /\ UNCHANGED <<faulty, faults>>
       \/ /\ Fault
          /\ faulty' = faulty \union {w}
          /\ UNCHANGED stopped
    /\ UNCHANGED <<step, sockets, timedOut, running, caught, database, broken>>

\* Mutant: the workers are not waited for.
QueuesSettled_NoWait == Worker \subseteq stopped \union faulty

\* ... and wait for the job it is at; one that failed is not waited for.
QueuesSettled ==
    /\ Worker \subseteq stopped \union faulty
    /\ Worker \intersect running \subseteq faulty

\* A worker that could not be paused is closed later: it is tried again.
pauseBullMQQueues ==
    /\ step = "pauseQueues"
    /\ QueuesSettled
    /\ step' = "waitForConnections"
    /\ faulty' = {}
    /\ UNCHANGED <<sockets, timedOut, work, database, broken, faults>>

\* Mutant: the drain is over before it is.
waitForActiveConnections_NoWait ==
    /\ step = "waitForConnections"
    /\ step' = "stopJobs"
    /\ active' = {}
    /\ UNCHANGED <<conn, late, hungUp, timedOut, work, faulty, database, broken, faults>>

\* After 25 seconds the connections left are forgotten, not closed.
waitForActiveConnections ==
    /\ step = "waitForConnections"
    /\ step' = "stopJobs"
    /\ active' = {}
    /\ timedOut' = (active # {})
    /\ UNCHANGED <<conn, late, hungUp, work, faulty, database, broken, faults>>

\* stop() cancels the schedule; an error is caught, and the schedule goes on.
StopJob(j) ==
    /\ step = "stopJobs"
    /\ j \notin stopped \union faulty
    /\ \/ /\ stopped' = stopped \union {j}
          /\ caught' = caught \union ({j} \intersect running)
          /\ UNCHANGED <<faulty, faults>>
       \/ /\ Fault
          /\ faulty' = faulty \union {j}
          /\ UNCHANGED <<stopped, caught>>
    /\ UNCHANGED <<step, sockets, timedOut, running, database, broken>>

\* Jobs without a stop method are passed over; a callback that is running is
\* not waited for.
stopBackgroundJobs ==
    /\ step = "stopJobs"
    /\ Stoppable \subseteq stopped \union faulty
    /\ step' = "closeQueues"
    /\ UNCHANGED <<sockets, timedOut, work, faulty, database, broken, faults>>

closeBullMQQueues ==
    /\ step = "closeQueues"
    /\ QueuesSettled
    /\ step' = "closeDatabase"
    /\ UNCHANGED <<sockets, timedOut, work, faulty, database, broken, faults>>

\* An error is caught; the database stays open.
closeDatabaseConnections ==
    /\ step = "closeDatabase"
    /\ step' = "closeRedis"
    /\ \/ database' = "closed" /\ UNCHANGED faults
       \/ Fault /\ UNCHANGED database
    /\ UNCHANGED <<sockets, timedOut, work, faulty, broken>>

\* redis.quit() and apolloServer.stop(); an error is caught.
closeClients ==
    /\ \/ step = "closeRedis" /\ step' = "stopGraphQL"
       \/ step = "stopGraphQL" /\ step' = "closeServer"
    /\ UNCHANGED <<sockets, timedOut, work, faulty, database, broken, faults>>

\* server.close calls back when the last socket is closed.
closeHttpServer ==
    /\ step = "closeServer"
    /\ \A c \in Conn : conn[c] \in {"none", "cut", "closed"}
    /\ step' = "exited"
    /\ UNCHANGED <<sockets, timedOut, work, faulty, database, broken, faults>>

performGracefulShutdown ==
    \/ stopAcceptingConnections
    \/ \E w \in Worker : PauseWorker(w)
    \/ pauseBullMQQueues
    \/ waitForActiveConnections
    \/ \E j \in Stoppable : StopJob(j)
    \/ stopBackgroundJobs
    \/ closeBullMQQueues
    \/ closeDatabaseConnections
    \/ closeClients
    \/ closeHttpServer

Next ==
    \/ \E c \in Conn :
           Connect(c) \/ Request(c) \/ Respond(c) \/ Close(c) \/ HangUp(c)
    \/ \E x \in Job \union Worker : Fires(x) \/ Ends(x)
    \/ handleShutdown
    \/ performGracefulShutdown

Spec == Init /\ [][Next]_vars

\* Timers run, requests are answered and jobs end; a connection that is not
\* chatty is idle long enough, again and again, to be closed.
FairSpec ==
    /\ Spec
    /\ WF_vars(performGracefulShutdown)
    /\ \A x \in Job \union Worker : WF_vars(Ends(x))
    /\ \A c \in Conn : WF_vars(Respond(c))
    /\ \A c \in Conn \ Chatty : SF_vars(Close(c))

-----------------------------------------------------------------------------
(* Properties                                                              *)

\* A client that waits for its answer gets one from an open database, unless the
\* drain gave up on somebody or its connection was opened after the drain; of the
\* others, only a request whose client hung up may find the database closed.
DrainedRequestsAreSafe ==
    broken \intersect Conn \subseteq IF timedOut THEN Conn ELSE late \union hungUp

\* Queued jobs and cron callbacks find the database closed only when closing
\* the worker or stopping the schedule failed, when the callback was running as
\* its schedule was stopped, or when the job has no stop method.
StoppedWorkIsSafe ==
    broken \intersect (Worker \union Job)
        \subseteq faulty \union caught \union (Job \ Stoppable)

\* A shutdown that was started ends, unless a connection is never idle.
ShutdownEnds ==
    (step # "running") ~>
        (step = "exited" \/ \E c \in Chatty : conn[c] \in {"idle", "busy"})

\* GRACEFUL_SHUTDOWN_GUIDE.md:87, "Timeout enforcement: Prevents hung
\* processes from blocking shutdown".
ShutdownAlwaysEnds == (step # "running") ~> (step = "exited")
=============================================================================
