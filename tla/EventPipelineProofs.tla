------------------------- MODULE EventPipelineProofs -------------------------
(***************************************************************************)
(* Theorems about DeadLetterQueue: for any events, concurrency and retries *)
(* and any number of crashes and failed Redis calls, no event vanishes     *)
(* unexplained, no dead letter is removed unhandled, and the Redis pointer *)
(* names an event that was settled.                                        *)
(*                                                                         *)
(* Then the pipeline: each of its steps is a step of the poller, a step of *)
(* the queues, or both, so what is proved of the parts holds of the whole, *)
(* and an event the poller's pointer has passed is kept to the end.        *)
(***************************************************************************)
EXTENDS EventPipeline, SequenceTheorems, TLAPS

\* A job that may still run has an attempt left.
AttemptLeft ==
    \A e \in Event : job[e] \notin {"failed", "done"} => tries[e] < Attempts

\* Whoever is about to set the pointer, or to remove the dead letter, has run
\* the handler.
HandledBefore ==
    /\ \A e \in Event : job[e] = "pointing" => e \in handled
    /\ \A r \in DOMAIN retry :
          retry[r].at \in {"pointing", "removing"} => retry[r].event \in handled

\* The listener has written the dead letter before it raises the alert, and
\* raised the alert before it advances the pointer.
MovedBefore ==
    \A e \in Event :
        /\ move[e] = "alert" => dlq[e] # "none" /\ e \in Critical
        /\ move[e] = "advance" => dlq[e] # "none" /\ (e \in Critical => e \in alerted)

Inv ==
    /\ TypeOK
    /\ AttemptLeft /\ HandledBefore /\ MovedBefore
    /\ NothingVanishes /\ RemovedWasHandled /\ PointerIsAccountedFor

-----------------------------------------------------------------------------
(* The retry queue is a sequence of jobs, whatever happens to one of them.   *)

LEMMA RetryUpdate ==
    ASSUME TypeOK, NEW r \in DOMAIN retry,
           NEW at \in {"waiting", "active", "pointing", "removing", "done", "failed"},
           RetryGoes(r, at)
    PROVE  /\ retry' \in Seq(RetryJob) /\ Len(retry') = Len(retry)
           /\ DOMAIN retry' = DOMAIN retry
           /\ retry'[r].event = retry[r].event /\ retry'[r].at = at
           /\ \A q \in DOMAIN retry \ {r} : retry'[q] = retry[q]
<1>1. retry \in Seq(RetryJob) /\ r \in 1..Len(retry) /\ DOMAIN retry = 1..Len(retry)
  BY LenProperties DEF TypeOK
<1>2. retry[r] \in RetryJob
  BY <1>1, ElementOfSeq
<1>3. PICK v : v = [retry[r] EXCEPT !.at = at]
  OBVIOUS
<1>4. v \in RetryJob /\ v.event = retry[r].event /\ v.at = at
  BY <1>2, <1>3 DEF RetryJob
<1>5. retry' = [retry EXCEPT ![r] = v]
  BY <1>3 DEF RetryGoes
<1>6. retry' \in Seq(RetryJob) /\ Len(retry') = Len(retry)
      /\ \A j \in 1..Len(retry) : retry'[j] = IF j = r THEN v ELSE retry[j]
  BY <1>1, <1>4, <1>5, ExceptSeq
<1>7. DOMAIN retry' = 1..Len(retry')
  BY <1>6, LenProperties
<1> QED BY <1>1, <1>4, <1>6, <1>7

\* A new retry of e waits at the end of the queue.
LEMMA RetryAppend ==
    ASSUME TypeOK, NEW e \in Event,
           retry' = Append(retry, [event |-> e, stalls |-> 0, at |-> "waiting"])
    PROVE  /\ retry' \in Seq(RetryJob) /\ Len(retry') = Len(retry) + 1
           /\ \A q \in DOMAIN retry' :
                 \/ q \in DOMAIN retry /\ retry'[q] = retry[q]
                 \/ retry'[q].at = "waiting"
<1>1. retry \in Seq(RetryJob)
  BY DEF TypeOK
<1>2. PICK v : v = [event |-> e, stalls |-> 0, at |-> "waiting"]
  OBVIOUS
<1>3. v \in RetryJob /\ v.at = "waiting"
  BY <1>2 DEF RetryJob, MaxStalled
<1>4. retry' = Append(retry, v)
  BY <1>2
<1> QED BY <1>1, <1>3, <1>4

\* A restart puts retries back or fails them.
LEMMA RetryCrash ==
    ASSUME TypeOK, Crash
    PROVE  /\ retry' \in Seq(RetryJob) /\ Len(retry') = Len(retry)
           /\ \A q \in DOMAIN retry' :
                 /\ q \in DOMAIN retry
                 /\ retry'[q] = retry[q] \/ retry'[q].at \in {"waiting", "failed"}
<1>1. retry \in Seq(RetryJob) /\ DOMAIN retry = 1..Len(retry) /\ Len(retry) \in Nat
  BY LenProperties DEF TypeOK
<1>2. \A q \in 1..Len(retry) : retry[q] \in RetryJob
  BY <1>1, ElementOfSeq
<1>3. DOMAIN retry' = 1..Len(retry)
  BY <1>1 DEF Crash
<1>4. ASSUME NEW q \in 1..Len(retry)
      PROVE  /\ retry'[q] \in RetryJob
             /\ retry'[q] = retry[q] \/ retry'[q].at \in {"waiting", "failed"}
  <2>1. retry'[q] = IF retry[q].at \notin {"active", "pointing", "removing"}
                    THEN retry[q]
                    ELSE [retry[q] EXCEPT !.stalls = MaxStalled,
                             !.at = IF retry[q].stalls < MaxStalled
                                    THEN "waiting" ELSE "failed"]
    BY <1>1 DEF Crash
  <2>2. retry[q] \in RetryJob
    BY <1>2
  <2>3. MaxStalled \in 0..MaxStalled
    BY DEF MaxStalled
  <2> QED BY <2>1, <2>2, <2>3 DEF RetryJob
<1>5. retry' \in [1..Len(retry) -> RetryJob]
  <2>1. retry' = [q \in 1..Len(retry) |-> retry'[q]]
    BY <1>1 DEF Crash
  <2> QED BY <2>1, <1>4
<1>6. retry' \in Seq(RetryJob)
  BY <1>1, <1>5, SeqDef
<1>7. Len(retry') = Len(retry)
  BY <1>1, <1>3, <1>6, LenProperties
<1> QED BY <1>1, <1>3, <1>4, <1>6, <1>7
-----------------------------------------------------------------------------
(* The initial state                                                       *)

LEMMA InitInv == Init => Inv
<1> SUFFICES ASSUME Init PROVE Inv
  OBVIOUS
<1>1. TypeOK
  <2>1. /\ job \in [Event -> {"none", "waiting", "active", "pointing", "backoff",
                              "failed", "done"}]
        /\ move \in [Event -> {"idle", "add", "alert", "advance"}]
        /\ dlq \in [Event -> {"none", "waiting", "active", "completed", "removed"}]
    BY DEF Init
  <2>2. tries \in [Event -> 0..Attempts] /\ stalls \in [Event -> 0..MaxStalled]
    <3>1. 0 \in 0..Attempts /\ 0 \in 0..MaxStalled
      BY DEF Attempts, MaxStalled
    <3> QED BY <3>1 DEF Init
  <2>3. retry \in Seq(RetryJob) /\ Len(retry) <= MaxRetries
    BY BoundAssumption, EmptySeq DEF Init
  <2>4. handled \subseteq Event /\ alerted \subseteq Critical /\ cut \subseteq Event
    BY DEF Init
  <2>5. pointer \in {0} \union {Ledger[e] : e \in Event}
    BY DEF Init
  <2>6. faults \in 0..MaxFaults
    BY BoundAssumption DEF Init
  <2> QED BY <2>1, <2>2, <2>3, <2>4, <2>5, <2>6 DEF TypeOK
<1>2. AttemptLeft
  <2>1. 0 < Attempts
    BY DEF Attempts
  <2> QED BY <2>1 DEF Init, AttemptLeft
<1>3. HandledBefore
  <2>1. DOMAIN retry = {}
    BY DEF Init
  <2> QED BY <2>1 DEF Init, HandledBefore
<1>4. MovedBefore /\ NothingVanishes /\ RemovedWasHandled
  BY DEF Init, MovedBefore, NothingVanishes, RemovedWasHandled
<1>5. PointerIsAccountedFor
  BY DEF Init, PointerIsAccountedFor
<1> QED BY <1>1, <1>2, <1>3, <1>4, <1>5 DEF Inv

-----------------------------------------------------------------------------
(* The steps: what they read of the invariant, and each of its parts after *)

\* The event of a retry is one of the events.
LEMMA RetryEvent == ASSUME TypeOK, NEW r \in DOMAIN retry PROVE retry[r].event \in Event
<1>1. retry \in Seq(RetryJob) /\ r \in 1..Len(retry)
  BY LenProperties DEF TypeOK
<1>2. retry[r] \in RetryJob
  BY <1>1, ElementOfSeq
<1> QED BY <1>2 DEF RetryJob

\* A fault stays within the bound.
LEMMA FaultType == ASSUME TypeOK, Fault PROVE faults' \in 0..MaxFaults
  BY BoundAssumption DEF TypeOK, Fault

LEMMA IngestionStep ==
    ASSUME Inv, NEW e \in Event, addEvent(e) \/ Ingestion(e)
    PROVE  Inv'
<1>1. ASSUME addEvent(e) PROVE Inv'
  <2>1. TypeOK'
    BY <1>1 DEF addEvent, Inv, TypeOK
  <2>2. AttemptLeft' /\ HandledBefore' /\ MovedBefore'
    BY <1>1 DEF addEvent, Inv, TypeOK, AttemptLeft, HandledBefore, MovedBefore
  <2>3. NothingVanishes' /\ RemovedWasHandled'
    BY <1>1 DEF addEvent, Inv, TypeOK, NothingVanishes, RemovedWasHandled, Pending
  <2>4. PointerIsAccountedFor'
    BY <1>1 DEF addEvent, Inv, TypeOK, PointerIsAccountedFor
  <2> QED BY <2>1, <2>2, <2>3, <2>4 DEF Inv
<1>2. ASSUME Take(e) PROVE Inv'
  <2>1. TypeOK'
    BY <1>2 DEF Take, Inv, TypeOK
  <2>2. AttemptLeft' /\ HandledBefore' /\ MovedBefore'
    BY <1>2 DEF Take, Inv, TypeOK, AttemptLeft, HandledBefore, MovedBefore
  <2>3. NothingVanishes' /\ RemovedWasHandled'
    BY <1>2 DEF Take, Inv, TypeOK, NothingVanishes, RemovedWasHandled, Pending
  <2>4. PointerIsAccountedFor'
    BY <1>2 DEF Take, Inv, TypeOK, PointerIsAccountedFor
  <2> QED BY <2>1, <2>2, <2>3, <2>4 DEF Inv
<1>3. ASSUME Promote(e) PROVE Inv'
  <2>1. TypeOK'
    BY <1>3 DEF Promote, Inv, TypeOK
  <2>2. AttemptLeft' /\ HandledBefore' /\ MovedBefore'
    BY <1>3 DEF Promote, Inv, TypeOK, AttemptLeft, HandledBefore, MovedBefore
  <2>3. NothingVanishes' /\ RemovedWasHandled'
    BY <1>3 DEF Promote, Inv, TypeOK, NothingVanishes, RemovedWasHandled, Pending
  <2>4. PointerIsAccountedFor'
    BY <1>3 DEF Promote, Inv, TypeOK, PointerIsAccountedFor
  <2> QED BY <2>1, <2>2, <2>3, <2>4 DEF Inv
<1>4. ASSUME processIngestionJob_handler(e) PROVE Inv'
  <2>1. TypeOK'
    BY <1>4 DEF processIngestionJob_handler, Inv, TypeOK
  <2>2. AttemptLeft' /\ HandledBefore' /\ MovedBefore'
    BY <1>4 DEF processIngestionJob_handler, Inv, TypeOK, AttemptLeft,
       HandledBefore, MovedBefore
  <2>3. NothingVanishes' /\ RemovedWasHandled'
    BY <1>4 DEF processIngestionJob_handler, Inv, TypeOK, NothingVanishes,
       RemovedWasHandled, Pending
  <2>4. PointerIsAccountedFor'
    BY <1>4 DEF processIngestionJob_handler, Inv, TypeOK, PointerIsAccountedFor
  <2> QED BY <2>1, <2>2, <2>3, <2>4 DEF Inv
<1>5. ASSUME processIngestionJob_pointer(e) PROVE Inv'
  <2>1. TypeOK'
    BY <1>5 DEF processIngestionJob_pointer, Inv, TypeOK
  <2>2. AttemptLeft' /\ HandledBefore' /\ MovedBefore'
    BY <1>5 DEF processIngestionJob_pointer, Inv, TypeOK, AttemptLeft,
       HandledBefore, MovedBefore
  <2>3. NothingVanishes' /\ RemovedWasHandled'
    BY <1>5 DEF processIngestionJob_pointer, Inv, TypeOK, NothingVanishes,
       RemovedWasHandled, Pending, HandledBefore
  <2>4. PointerIsAccountedFor'
    BY <1>5 DEF processIngestionJob_pointer, Inv, TypeOK,
       PointerIsAccountedFor, HandledBefore
  <2> QED BY <2>1, <2>2, <2>3, <2>4 DEF Inv
<1>6. ASSUME processIngestionJob_throws(e) PROVE Inv'
  <2>1. TypeOK'
    <3>1. tries[e] + 1 \in 0..Attempts
      <4>1. job[e] \in {"active", "pointing"}
        BY <1>6 DEF processIngestionJob_throws
      <4>2. tries[e] \in 0..Attempts /\ tries[e] < Attempts
        BY <4>1 DEF Inv, TypeOK, AttemptLeft
      <4> QED BY <4>2 DEF Attempts
    <3>2. tries' \in [Event -> 0..Attempts]
      BY <1>6, <3>1 DEF processIngestionJob_throws, AttemptFails, Inv, TypeOK
    <3>3. /\ job' \in [Event -> {"none", "waiting", "active", "pointing", "backoff",
                                 "failed", "done"}]
          /\ move' \in [Event -> {"idle", "add", "alert", "advance"}]
      BY <1>6 DEF processIngestionJob_throws, AttemptFails, Inv, TypeOK
    <3>4. faults' \in 0..MaxFaults
      BY <1>6, FaultType DEF processIngestionJob_throws, Inv, TypeOK
    <3> QED BY <1>6, <3>2, <3>3, <3>4 DEF processIngestionJob_throws, Inv, TypeOK
  <2>2. AttemptLeft' /\ HandledBefore' /\ MovedBefore'
    BY <1>6 DEF processIngestionJob_throws, AttemptFails, Inv, TypeOK,
       AttemptLeft, HandledBefore, MovedBefore
  <2>3. NothingVanishes' /\ RemovedWasHandled'
    BY <1>6 DEF processIngestionJob_throws, AttemptFails, Inv, TypeOK,
       NothingVanishes, RemovedWasHandled, Pending
  <2>4. PointerIsAccountedFor'
    BY <1>6 DEF processIngestionJob_throws, AttemptFails, Inv, TypeOK,
       PointerIsAccountedFor
  <2> QED BY <2>1, <2>2, <2>3, <2>4 DEF Inv
<1> QED BY <1>1, <1>2, <1>3, <1>4, <1>5, <1>6 DEF Ingestion

LEMMA ListenerStep ==
    ASSUME Inv, NEW e \in Event, Listener(e) \/ processDlqJob(e) \/ retryDlqJob(e)
    PROVE  Inv'
<1>1. ASSUME moveToDlq_add(e) PROVE Inv'
  <2>1. TypeOK'
    BY <1>1 DEF moveToDlq_add, Inv, TypeOK, ingestion
  <2>2. AttemptLeft' /\ HandledBefore' /\ MovedBefore'
    BY <1>1 DEF moveToDlq_add, Inv, TypeOK, AttemptLeft, HandledBefore,
       MovedBefore, ingestion
  <2>3. NothingVanishes' /\ RemovedWasHandled'
    BY <1>1 DEF moveToDlq_add, Inv, TypeOK, NothingVanishes, RemovedWasHandled,
       Pending, ingestion
  <2>4. PointerIsAccountedFor'
    BY <1>1 DEF moveToDlq_add, Inv, TypeOK, PointerIsAccountedFor, ingestion
  <2> QED BY <2>1, <2>2, <2>3, <2>4 DEF Inv
<1>2. ASSUME moveToDlq_alert(e) PROVE Inv'
  <2>1. TypeOK'
    BY <1>2 DEF moveToDlq_alert, Inv, TypeOK, MovedBefore, ingestion
  <2>2. AttemptLeft' /\ HandledBefore' /\ MovedBefore'
    BY <1>2 DEF moveToDlq_alert, Inv, TypeOK, AttemptLeft, HandledBefore,
       MovedBefore, ingestion
  <2>3. NothingVanishes' /\ RemovedWasHandled'
    BY <1>2 DEF moveToDlq_alert, Inv, TypeOK, NothingVanishes,
       RemovedWasHandled, Pending, ingestion
  <2>4. PointerIsAccountedFor'
    BY <1>2 DEF moveToDlq_alert, Inv, TypeOK, PointerIsAccountedFor, ingestion
  <2> QED BY <2>1, <2>2, <2>3, <2>4 DEF Inv
<1>3. ASSUME moveToDlq_advance(e) PROVE Inv'
  <2>1. TypeOK'
    BY <1>3 DEF moveToDlq_advance, Inv, TypeOK, ingestion
  <2>2. AttemptLeft' /\ HandledBefore' /\ MovedBefore'
    BY <1>3 DEF moveToDlq_advance, Inv, TypeOK, AttemptLeft, HandledBefore,
       MovedBefore, ingestion
  <2>3. NothingVanishes' /\ RemovedWasHandled'
    BY <1>3 DEF moveToDlq_advance, Inv, TypeOK, NothingVanishes,
       RemovedWasHandled, Pending, ingestion
  <2>4. PointerIsAccountedFor'
    BY <1>3 DEF moveToDlq_advance, Inv, TypeOK, PointerIsAccountedFor,
       MovedBefore, ingestion
  <2> QED BY <2>1, <2>2, <2>3, <2>4 DEF Inv
<1>4. ASSUME moveToDlq_throws(e) PROVE Inv'
  <2>1. TypeOK'
    BY <1>4, FaultType DEF moveToDlq_throws, Inv, TypeOK, ingestion
  <2>2. AttemptLeft' /\ HandledBefore' /\ MovedBefore'
    BY <1>4 DEF moveToDlq_throws, Inv, TypeOK, AttemptLeft, HandledBefore,
       MovedBefore, ingestion
  <2>3. NothingVanishes' /\ RemovedWasHandled'
    BY <1>4 DEF moveToDlq_throws, Inv, TypeOK, NothingVanishes,
       RemovedWasHandled, Pending, ingestion
  <2>4. PointerIsAccountedFor'
    BY <1>4 DEF moveToDlq_throws, Inv, TypeOK, PointerIsAccountedFor, ingestion
  <2> QED BY <2>1, <2>2, <2>3, <2>4 DEF Inv
<1>5. ASSUME processDlqJob(e) PROVE Inv'
  <2>1. TypeOK'
    BY <1>5 DEF processDlqJob, Inv, TypeOK, ingestion
  <2>2. AttemptLeft' /\ HandledBefore' /\ MovedBefore'
    BY <1>5 DEF processDlqJob, Inv, TypeOK, AttemptLeft, HandledBefore,
       MovedBefore, ingestion
  <2>3. NothingVanishes' /\ RemovedWasHandled'
    BY <1>5 DEF processDlqJob, Inv, TypeOK, NothingVanishes, RemovedWasHandled,
       Pending, ingestion
  <2>4. PointerIsAccountedFor'
    BY <1>5 DEF processDlqJob, Inv, TypeOK, PointerIsAccountedFor, ingestion
  <2> QED BY <2>1, <2>2, <2>3, <2>4 DEF Inv
<1>6. ASSUME retryDlqJob(e) PROVE Inv'
  <2>1. TypeOK'
    <3>1. retry' \in Seq(RetryJob) /\ Len(retry') = Len(retry) + 1
      BY <1>6, RetryAppend DEF retryDlqJob, Inv
    <3>2. Len(retry) < MaxRetries /\ Len(retry) \in Nat
      BY <1>6, LenProperties DEF retryDlqJob, Inv, TypeOK
    <3>3. Len(retry') <= MaxRetries
      BY <3>1, <3>2, BoundAssumption
    <3> QED BY <1>6, <3>1, <3>3 DEF retryDlqJob, Inv, TypeOK, ingestion
  <2>2. AttemptLeft' /\ HandledBefore' /\ MovedBefore'
    BY <1>6 DEF retryDlqJob, Inv, TypeOK, AttemptLeft, HandledBefore,
       MovedBefore, ingestion
  <2>3. NothingVanishes' /\ RemovedWasHandled'
    BY <1>6 DEF retryDlqJob, Inv, TypeOK, NothingVanishes, RemovedWasHandled,
       Pending, ingestion
  <2>4. PointerIsAccountedFor'
    BY <1>6 DEF retryDlqJob, Inv, TypeOK, PointerIsAccountedFor, ingestion
  <2> QED BY <2>1, <2>2, <2>3, <2>4 DEF Inv
<1> QED BY <1>1, <1>2, <1>3, <1>4, <1>5, <1>6 DEF Listener

LEMMA RetryStep ==
    ASSUME Inv, NEW r \in DOMAIN retry, Retry(r)
    PROVE  Inv'
<1>1. ASSUME processRetryJob_take(r) PROVE Inv'
  <2>0. /\ retry' \in Seq(RetryJob) /\ Len(retry') = Len(retry)
        /\ DOMAIN retry' = DOMAIN retry
        /\ retry'[r].event = retry[r].event /\ retry'[r].at = "active"
        /\ \A q \in DOMAIN retry \ {r} : retry'[q] = retry[q]
    BY <1>1, RetryUpdate DEF processRetryJob_take, Inv
  <2>1. TypeOK'
    BY <1>1, <2>0, RetryEvent DEF processRetryJob_take, Inv, TypeOK, ingestion
  <2>2. AttemptLeft' /\ HandledBefore' /\ MovedBefore'
    <3>1. HandledBefore'
      BY <1>1, <2>0 DEF processRetryJob_take, Inv, HandledBefore, ingestion
    <3> QED BY <1>1, <3>1 DEF processRetryJob_take, Inv, AttemptLeft, MovedBefore, ingestion
  <2>3. NothingVanishes' /\ RemovedWasHandled'
    BY <1>1 DEF processRetryJob_take, Inv, TypeOK, NothingVanishes,
       RemovedWasHandled, Pending, ingestion
  <2>4. PointerIsAccountedFor'
    BY <1>1 DEF processRetryJob_take, Inv, TypeOK, PointerIsAccountedFor, ingestion
  <2> QED BY <2>1, <2>2, <2>3, <2>4 DEF Inv
<1>2. ASSUME processRetryJob_handler(r) PROVE Inv'
  <2>0. /\ retry' \in Seq(RetryJob) /\ Len(retry') = Len(retry)
        /\ DOMAIN retry' = DOMAIN retry
        /\ retry'[r].event = retry[r].event /\ retry'[r].at = "pointing"
        /\ \A q \in DOMAIN retry \ {r} : retry'[q] = retry[q]
    BY <1>2, RetryUpdate DEF processRetryJob_handler, Inv
  <2>1. TypeOK'
    BY <1>2, <2>0, RetryEvent DEF processRetryJob_handler, Inv, TypeOK, ingestion
  <2>2. AttemptLeft' /\ HandledBefore' /\ MovedBefore'
    <3>1. HandledBefore'
      BY <1>2, <2>0 DEF processRetryJob_handler, Inv, HandledBefore, ingestion
    <3> QED BY <1>2, <3>1 DEF processRetryJob_handler, Inv, AttemptLeft, MovedBefore, ingestion
  <2>3. NothingVanishes' /\ RemovedWasHandled'
    BY <1>2 DEF processRetryJob_handler, Inv, TypeOK, NothingVanishes,
       RemovedWasHandled, Pending, ingestion
  <2>4. PointerIsAccountedFor'
    BY <1>2 DEF processRetryJob_handler, Inv, TypeOK, PointerIsAccountedFor,
       ingestion
  <2> QED BY <2>1, <2>2, <2>3, <2>4 DEF Inv
<1>3. ASSUME processRetryJob_pointer(r) PROVE Inv'
  <2>0. /\ retry' \in Seq(RetryJob) /\ Len(retry') = Len(retry)
        /\ DOMAIN retry' = DOMAIN retry
        /\ retry'[r].event = retry[r].event /\ retry'[r].at = "removing"
        /\ \A q \in DOMAIN retry \ {r} : retry'[q] = retry[q]
    BY <1>3, RetryUpdate DEF processRetryJob_pointer, Inv
  <2>1. TypeOK'
    BY <1>3, <2>0, RetryEvent DEF processRetryJob_pointer, Inv, TypeOK, ingestion
  <2>2. AttemptLeft' /\ HandledBefore' /\ MovedBefore'
    <3>1. HandledBefore'
      BY <1>3, <2>0 DEF processRetryJob_pointer, Inv, HandledBefore, ingestion
    <3> QED BY <1>3, <3>1 DEF processRetryJob_pointer, Inv, AttemptLeft, MovedBefore, ingestion
  <2>3. NothingVanishes' /\ RemovedWasHandled'
    BY <1>3 DEF processRetryJob_pointer, Inv, TypeOK, NothingVanishes,
       RemovedWasHandled, Pending, ingestion
  <2>4. PointerIsAccountedFor'
    BY <1>3 DEF processRetryJob_pointer, Inv, TypeOK, PointerIsAccountedFor,
       HandledBefore, ingestion
  <2> QED BY <2>1, <2>2, <2>3, <2>4 DEF Inv
<1>4. ASSUME processRetryJob_remove(r) PROVE Inv'
  <2>0. /\ retry' \in Seq(RetryJob) /\ Len(retry') = Len(retry)
        /\ DOMAIN retry' = DOMAIN retry
        /\ retry'[r].event = retry[r].event /\ retry'[r].at = "done"
        /\ \A q \in DOMAIN retry \ {r} : retry'[q] = retry[q]
    BY <1>4, RetryUpdate DEF processRetryJob_remove, Inv
  <2>1. TypeOK'
    BY <1>4, <2>0, RetryEvent DEF processRetryJob_remove, Inv, TypeOK, ingestion
  <2>2. AttemptLeft' /\ HandledBefore' /\ MovedBefore'
    <3>1. HandledBefore'
      BY <1>4, <2>0 DEF processRetryJob_remove, Inv, HandledBefore, ingestion
    <3> QED BY <1>4, <3>1 DEF processRetryJob_remove, Inv, AttemptLeft, MovedBefore, ingestion
  <2>3. NothingVanishes' /\ RemovedWasHandled'
    BY <1>4 DEF processRetryJob_remove, Inv, TypeOK, NothingVanishes,
       RemovedWasHandled, Pending, HandledBefore, ingestion
  <2>4. PointerIsAccountedFor'
    BY <1>4 DEF processRetryJob_remove, Inv, TypeOK, PointerIsAccountedFor,
       ingestion
  <2> QED BY <2>1, <2>2, <2>3, <2>4 DEF Inv
<1>5. ASSUME processRetryJob_throws(r) PROVE Inv'
  <2>0. /\ retry' \in Seq(RetryJob) /\ Len(retry') = Len(retry)
        /\ DOMAIN retry' = DOMAIN retry
        /\ retry'[r].event = retry[r].event /\ retry'[r].at = "failed"
        /\ \A q \in DOMAIN retry \ {r} : retry'[q] = retry[q]
    BY <1>5, RetryUpdate DEF processRetryJob_throws, Inv
  <2>1. TypeOK'
    BY <1>5, <2>0, RetryEvent, FaultType DEF processRetryJob_throws, Inv,
       TypeOK, ingestion
  <2>2. AttemptLeft' /\ HandledBefore' /\ MovedBefore'
    <3>1. HandledBefore'
      BY <1>5, <2>0 DEF processRetryJob_throws, Inv, HandledBefore, ingestion
    <3> QED BY <1>5, <3>1 DEF processRetryJob_throws, Inv, AttemptLeft, MovedBefore, ingestion
  <2>3. NothingVanishes' /\ RemovedWasHandled'
    BY <1>5 DEF processRetryJob_throws, Inv, TypeOK, NothingVanishes,
       RemovedWasHandled, Pending, ingestion
  <2>4. PointerIsAccountedFor'
    BY <1>5 DEF processRetryJob_throws, Inv, TypeOK, PointerIsAccountedFor,
       ingestion
  <2> QED BY <2>1, <2>2, <2>3, <2>4 DEF Inv
<1> QED BY <1>1, <1>2, <1>3, <1>4, <1>5 DEF Retry

LEMMA CrashStep == ASSUME Inv, Crash PROVE Inv'
<1>1. ASSUME Crash PROVE Inv'
  <2>1. TypeOK'
    <3>1. retry' \in Seq(RetryJob) /\ Len(retry') = Len(retry)
      BY <1>1, RetryCrash DEF Inv
    <3>2. stalls' \in [Event -> 0..MaxStalled]
      <4>1. MaxStalled \in 0..MaxStalled
        BY DEF MaxStalled
      <4> QED BY <1>1, <4>1, ZenonT(40) DEF Crash, Inv, TypeOK
    <3>3. job' \in [Event -> {"none", "waiting", "active", "pointing", "backoff",
                              "failed", "done"}]
      <4>1. \A e \in Event :
               (IF e \notin Running THEN job[e]
                ELSE IF stalls[e] < MaxStalled THEN "waiting" ELSE "failed")
                 \in {"none", "waiting", "active", "pointing", "backoff", "failed", "done"}
        BY DEF Inv, TypeOK
      <4> QED BY <1>1, <4>1 DEF Crash
    <3>4. move' \in [Event -> {"idle", "add", "alert", "advance"}]
      BY <1>1 DEF Crash
    <3>5. dlq' \in [Event -> {"none", "waiting", "active", "completed", "removed"}]
      BY <1>1 DEF Crash, Inv, TypeOK
    <3>6. cut' \subseteq Event
      BY <1>1 DEF Crash, Inv, TypeOK, Running
    <3>7. faults' \in 0..MaxFaults
      BY <1>1, FaultType DEF Crash, Inv
    <3>8. /\ tries' \in [Event -> 0..Attempts]
          /\ Len(retry) <= MaxRetries
          /\ handled' \subseteq Event /\ alerted' \subseteq Critical
          /\ pointer' \in {0} \union {Ledger[e] : e \in Event}
      BY <1>1, ZenonT(40) DEF Crash, Inv, TypeOK
    <3> QED BY <3>1, <3>2, <3>3, <3>4, <3>5, <3>6, <3>7, <3>8 DEF TypeOK
  <2>2. AttemptLeft' /\ HandledBefore' /\ MovedBefore'
    <3>1. AttemptLeft'
      BY <1>1 DEF Crash, Inv, AttemptLeft, Running
    <3>2. \A e \in Event : job'[e] # "pointing" /\ move'[e] = "idle"
      <4>1. \A e \in Event : job'[e] = IF e \notin Running THEN job[e]
                                        ELSE IF stalls[e] < MaxStalled THEN "waiting"
                                        ELSE "failed"
        BY <1>1, ZenonT(40) DEF Crash
      <4>2. \A e \in Event : e \notin Running => job[e] # "pointing"
        BY DEF Running
      <4>3. \A e \in Event : move'[e] = "idle"
        BY <1>1 DEF Crash
      <4> QED BY <4>1, <4>2, <4>3
    <3>3. HandledBefore'
      BY <1>1, <3>2, RetryCrash DEF Crash, Inv, HandledBefore
    <3> QED BY <3>1, <3>2, <3>3 DEF MovedBefore
  <2>3. NothingVanishes' /\ RemovedWasHandled'
    <3>1. ASSUME NEW e \in Event
          PROVE  \/ job'[e] = "none" \/ Pending(e)' \/ e \in handled'
                 \/ move'[e] = "add" \/ dlq'[e] # "none" \/ e \in cut'
      <4>1. CASE e \in Running
        <5>1. stalls[e] = MaxStalled \/ stalls[e] < MaxStalled
          BY DEF Inv, TypeOK, MaxStalled
        <5> QED BY <1>1, <4>1, <5>1 DEF Crash, Pending
      <4>2. CASE e \notin Running
        <5>1. job'[e] = job[e] /\ (move[e] = "add" => e \in cut')
              /\ (dlq[e] # "none" => dlq'[e] # "none") /\ handled' = handled
              /\ cut \subseteq cut'
          BY <1>1, <4>2 DEF Crash
        <5> QED BY <5>1 DEF Inv, NothingVanishes, Pending
      <4> QED BY <4>1, <4>2
    <3>2. RemovedWasHandled'
      BY <1>1 DEF Crash, Inv, TypeOK, RemovedWasHandled
    <3> QED BY <3>1, <3>2 DEF NothingVanishes
  <2>4. PointerIsAccountedFor'
    BY <1>1 DEF Crash, Inv, TypeOK, PointerIsAccountedFor, ingestion
  <2> QED BY <2>1, <2>2, <2>3, <2>4 DEF Inv
<1> QED BY <1>1

-----------------------------------------------------------------------------
(* The theorems                                                            *)

LEMMA InvStep == Inv /\ [Next]_vars => Inv'
<1> SUFFICES ASSUME Inv, [Next]_vars PROVE Inv'
  OBVIOUS
<1>1. CASE \E e \in Event : \/ addEvent(e) \/ Ingestion(e) \/ Listener(e)
                            \/ processDlqJob(e) \/ retryDlqJob(e)
  BY <1>1, IngestionStep, ListenerStep
<1>2. CASE \E r \in DOMAIN retry : Retry(r)
  BY <1>2, RetryStep
<1>3. CASE Crash
  BY <1>3, CrashStep
<1>4. CASE UNCHANGED vars
  BY <1>4 DEF vars, ingestion, Inv, TypeOK, AttemptLeft, HandledBefore, MovedBefore,
     NothingVanishes, Pending, RemovedWasHandled, PointerIsAccountedFor
<1> QED BY <1>1, <1>2, <1>3, <1>4 DEF Next

LEMMA Invariance == Spec => []Inv
  BY InitInv, InvStep, PTL DEF Spec

\* The service never leaves its states: in particular no event gets a fourth
\* attempt, and only critical events raise an alert.
THEOREM DlqTypeCorrect == Spec => []TypeOK
<1>1. Inv => TypeOK
  BY DEF Inv
<1> QED BY <1>1, Invariance, PTL

\* However many crashes and failed Redis calls: an event given to addEvent is
\* pending, handled or a dead letter, or a fault cut it off before its dead
\* letter was written.
THEOREM NoEventVanishes == Spec => []NothingVanishes
<1>1. Inv => NothingVanishes
  BY DEF Inv
<1> QED BY <1>1, Invariance, PTL

\* However many retries race each other and the worker of the dead letters, a
\* dead letter is removed only after a handler of its event succeeded.
THEOREM OnlyHandledAreRemoved == Spec => []RemovedWasHandled
<1>1. Inv => RemovedWasHandled
  BY DEF Inv
<1> QED BY <1>1, Invariance, PTL

\* Whoever set the Redis pointer last, it is the ledger of an event that was
\* handled, or of a dead letter whose alert, when it needs one, was raised.
THEOREM PointerAlwaysAccountedFor == Spec => []PointerIsAccountedFor
<1>1. Inv => PointerIsAccountedFor
  BY DEF Inv
<1> QED BY <1>1, Invariance, PTL

-----------------------------------------------------------------------------
(* The pipeline                                                            *)

PollerProofs == INSTANCE EventPollerProofs
                  WITH pointer <- lastIngested, faults <- pollFaults,
                       MaxFaults <- MaxPollFaults

\* The chain is as the poller's theorems assume it to be.
LEMMA ChainOfTheProofs ==
  /\ PollerProofs!NumEventsAssumption /\ PollerProofs!MaxLedgerAssumption
  /\ PollerProofs!ChainAssumption /\ PollerProofs!KindAssumption
  /\ PollerProofs!ResetAssumption /\ PollerProofs!PollerBoundAssumption
  BY ChainOfThePoller
     DEF PollerProofs!NumEventsAssumption, Poller!NumEventsAssumption,
         PollerProofs!MaxLedgerAssumption, Poller!MaxLedgerAssumption,
         PollerProofs!ChainAssumption, Poller!ChainAssumption,
         PollerProofs!KindAssumption, Poller!KindAssumption,
         PollerProofs!ResetAssumption, Poller!ResetAssumption,
         PollerProofs!PollerBoundAssumption, Poller!PollerBoundAssumption,
         PollerProofs!ChainEvent, Poller!ChainEvent, PollerProofs!ChainLedger, Poller!ChainLedger

LEMMA PollerNext == Poller!Next <=> PollerProofs!Next
  BY DEF Poller!Next, PollerProofs!Next, Poller!Fails, PollerProofs!Fails,
     Poller!CloseLedger, PollerProofs!CloseLedger, Poller!Start, PollerProofs!Start,
     Poller!NothingNew, PollerProofs!NothingNew, Poller!Fetched, PollerProofs!Fetched,
     Poller!Enqueue, PollerProofs!Enqueue, Poller!Finish, PollerProofs!Finish,
     Poller!Malformed, PollerProofs!Malformed, Poller!CallFails, PollerProofs!CallFails,
     Poller!AddEventFails, PollerProofs!AddEventFails,
     Poller!AdvanceFails, PollerProofs!AdvanceFails, Poller!Crash, PollerProofs!Crash,
     Poller!ResetLedger, PollerProofs!ResetLedger, Poller!Found, PollerProofs!Found,
     Poller!IsPage, PollerProofs!IsPage, Poller!Rest, PollerProofs!Rest,
     Poller!End, PollerProofs!End, Poller!Fault, PollerProofs!Fault,
     Poller!EmergencyAdvance, PollerProofs!EmergencyAdvance,
     Poller!ChainEvent, PollerProofs!ChainEvent, Poller!poll, PollerProofs!poll

LEMMA PollerInit == Poller!Init => PollerProofs!Init
  BY DEF Poller!Init, PollerProofs!Init, Poller!ChainEvent, PollerProofs!ChainEvent

\* What a step of the pipeline is to the poller, and to the queues.
LEMMA StepOfPoller ==
  [PipelineNext]_<<vars, poller>> => [PollerProofs!Next]_(PollerProofs!vars)
<1> SUFFICES ASSUME [PipelineNext]_<<vars, poller>>
             PROVE  Poller!Next \/ UNCHANGED poller
  BY PollerNext DEF poller, PollerProofs!vars, PollerProofs!poll
<1>1. CASE \E p \in Poll : pollLeaseEvents_adds(p) \/ pollLeaseEvents(p)
  BY <1>1 DEF pollLeaseEvents_adds, pollLeaseEvents, Poller!Next, Poller!Fails
<1>2. CASE Outside
  BY <1>2 DEF Outside, Poller!Next
<1>3. CASE WorkerCrash
  BY <1>3 DEF WorkerCrash, Poller!Next
<1> QED BY <1>1, <1>2, <1>3 DEF PipelineNext, Queues

\* Jobs are never forgotten, and every lease event the poller handed on has one
\* for each time.
JobsAreThere ==
    \A i \in LeaseEvents :
        /\ queued[i] \in 0..Copies[i]
        /\ \A n \in 1..queued[i] : job[<<i, n>>] # "none"

LEMMA JobOf == \A i \in LeaseEvents : \A n \in 1..Copies[i] : <<i, n>> \in Event
  BY JobsAreCopies

\* The event a poll is at: what addEvent is called for is one of the queue's.
LEMMA AddedEvent ==
  ASSUME PollerProofs!Inv, JobsAreThere, NEW p \in Poll, pollLeaseEvents_adds(p)
  PROVE  /\ next[p] \in LeaseEvents
         /\ queued[next[p]] + 1 \in 1..Copies[next[p]]
         /\ <<next[p], queued[next[p]] + 1>> \in Event
<1>1. /\ pc[p] = "queueing" /\ next[p] <= last[p] /\ Kind[next[p]] = "lease"
      /\ queued[next[p]] < Copies[next[p]]
  BY DEF pollLeaseEvents_adds, Poller!Enqueue, Poller!AddEventFails
<1>2. last[p] \in 1..NumEvents /\ next[p] \in 1..(last[p] + 1)
  BY <1>1 DEF PollerProofs!Inv, PollerProofs!Reading, PollerProofs!ChainEvent
<1>3. next[p] \in LeaseEvents
  BY <1>1, <1>2, ChainOfThePoller DEF LeaseEvents, Poller!NumEventsAssumption
<1>4. queued[next[p]] \in Nat /\ Copies[next[p]] \in Nat
  BY <1>3, JobsAreCopies DEF JobsAreThere
<1>5. queued[next[p]] + 1 \in 1..Copies[next[p]]
  BY <1>1, <1>4
<1> QED BY <1>3, <1>5, JobOf

LEMMA StepOfQueues ==
  ASSUME PollerProofs!Inv, JobsAreThere, [PipelineNext]_<<vars, poller>>
  PROVE  [Next]_vars
<1>1. ASSUME NEW p \in Poll, pollLeaseEvents_adds(p)
      PROVE  Next
  BY <1>1, AddedEvent DEF pollLeaseEvents_adds, Next
<1> QED BY <1>1 DEF PipelineNext, pollLeaseEvents, Outside, Queues, WorkerCrash, Next

\* A job changes its state, but never goes.
LEMMA JobStays ==
  ASSUME TypeOK, [Next]_vars, NEW e \in Event, job[e] # "none"
  PROVE  job'[e] # "none"
<1>1. CASE UNCHANGED job
  BY <1>1
<1>2. ASSUME NEW f \in Event, NEW s, s # "none", job' = [job EXCEPT ![f] = s]
      PROVE  job'[e] # "none"
  BY <1>2 DEF TypeOK
<1>3. ASSUME NEW f \in Event, addEvent(f) \/ Ingestion(f)
      PROVE  job'[e] # "none"
  <2>1. CASE AttemptFails(f)
    BY <1>2, <2>1 DEF AttemptFails
  <2> QED BY <1>2, <1>3, <2>1 DEF addEvent, Ingestion, Take, Promote,
        processIngestionJob_handler, processIngestionJob_pointer, processIngestionJob_throws
<1>4. CASE Crash
  BY <1>4 DEF Crash, TypeOK, Running
<1>5. CASE \E f \in Event : Listener(f) \/ processDlqJob(f) \/ retryDlqJob(f)
  BY <1>1, <1>5 DEF Listener, moveToDlq_add, moveToDlq_alert, moveToDlq_advance,
     moveToDlq_throws, processDlqJob, retryDlqJob, ingestion
<1>6. CASE \E r \in DOMAIN retry : Retry(r)
  BY <1>1, <1>6 DEF Retry, processRetryJob_take, processRetryJob_handler,
     processRetryJob_pointer, processRetryJob_remove, processRetryJob_throws, ingestion
<1> QED BY <1>1, <1>3, <1>4, <1>5, <1>6 DEF Next, vars, ingestion

LEMMA JobsStep ==
  ASSUME PollerProofs!Inv, TypeOK, JobsAreThere, [PipelineNext]_<<vars, poller>>
  PROVE  JobsAreThere'
<1>0. [Next]_vars
  BY StepOfQueues
<1>1. CASE UNCHANGED queued
  BY <1>0, <1>1, JobStays, JobOf, JobsAreCopies DEF JobsAreThere, LeaseEvents
<1>2. ASSUME NEW p \in Poll, pollLeaseEvents_adds(p)
      PROVE  JobsAreThere'
  <2> DEFINE i == next[p]
             n == queued[next[p]] + 1
  <2>1. i \in LeaseEvents /\ n \in 1..Copies[i] /\ <<i, n>> \in Event
    BY <1>2, AddedEvent
  <2>2. job' = [job EXCEPT ![<<i, n>>] = "waiting"]
    BY <1>2 DEF pollLeaseEvents_adds, addEvent
  <2>3. queued' = [queued EXCEPT ![i] = n]
    BY <1>2 DEF pollLeaseEvents_adds, Poller!Enqueue, Poller!AddEventFails
  <2>4. job'[<<i, n>>] # "none"
    BY <2>1, <2>2 DEF TypeOK
  <2>5. queued \in [1..NumEvents -> Nat]
    BY DEF PollerProofs!Inv, PollerProofs!TypeOK, PollerProofs!ChainEvent
  <2>6. ASSUME NEW j \in LeaseEvents
        PROVE  /\ queued'[j] \in 0..Copies[j]
               /\ \A m \in 1..queued'[j] : job'[<<j, m>>] # "none"
    <3>1. CASE j # i
      BY <1>0, <2>3, <2>5, <2>6, <3>1, JobStays, JobOf, JobsAreCopies DEF JobsAreThere, LeaseEvents
    <3>2. CASE j = i
      <4>1. queued'[j] = n
        BY <2>1, <2>3, <2>5, <3>2 DEF LeaseEvents
      <4>2. ASSUME NEW m \in 1..n PROVE job'[<<i, m>>] # "none"
        BY <1>0, <2>1, <2>4, <4>2, JobStays, JobOf, JobsAreCopies DEF JobsAreThere
      <4> QED BY <2>1, <3>2, <4>1, <4>2, JobsAreCopies
    <3> QED BY <3>1, <3>2
  <2> QED BY <2>6 DEF JobsAreThere
<1>3. ASSUME NEW p \in Poll, pollLeaseEvents(p)
      PROVE  UNCHANGED queued
  BY <1>3 DEF pollLeaseEvents, Poller!Start, Poller!NothingNew, Poller!Fetched,
     Poller!Finish, Poller!Malformed, Poller!CallFails, Poller!AdvanceFails, Poller!Enqueue
<1>4. CASE Outside \/ Queues \/ WorkerCrash
  BY <1>1, <1>4 DEF Outside, Queues, WorkerCrash, poller, Poller!CloseLedger,
     Poller!ResetLedger, Poller!Crash
<1> QED BY <1>1, <1>2, <1>3, <1>4 DEF PipelineNext, poller

\* To begin with nothing is queued.
LEMMA JobsInit == PipelineInit => JobsAreThere
<1> SUFFICES ASSUME PipelineInit PROVE JobsAreThere
  OBVIOUS
<1>1. \A i \in LeaseEvents : queued[i] = 0 /\ Copies[i] \in Nat
  BY JobsAreCopies DEF PipelineInit, Poller!Init, Poller!ChainEvent, LeaseEvents
<1> QED BY <1>1 DEF JobsAreThere

\* What the poller and the queues promise on their own holds of the pipeline.
PipelineInv == PollerProofs!Inv /\ Inv /\ JobsAreThere

\* The pipeline only does what the poller does by itself.
THEOREM PipelineRunsThePoller == PipelineSpec => PollerProofs!Spec
<1>1. PipelineInit => PollerProofs!Init
  BY PollerInit DEF PipelineInit
<1> QED BY <1>1, StepOfPoller, PTL DEF PipelineSpec, PollerProofs!Spec

LEMMA PipelineInvariance ==
  PipelineSpec => [](PipelineInv /\ PollerProofs!NothingElseIsSkipped)
<1>1. PipelineSpec => PollerProofs!Spec
  BY PipelineRunsThePoller
<1>2. PipelineInit => Inv /\ JobsAreThere
  BY InitInv, JobsInit DEF PipelineInit
<1>3. Inv /\ JobsAreThere /\ PollerProofs!Inv /\ [PipelineNext]_<<vars, poller>>
        => (Inv /\ JobsAreThere)'
  BY StepOfQueues, JobsStep, InvStep DEF Inv
<1>4. PipelineSpec => []PollerProofs!Inv
  BY <1>1, ChainOfTheProofs, PollerProofs!PollerInvariance, PTL
<1>5. PipelineSpec => [](Inv /\ JobsAreThere)
  BY <1>2, <1>3, <1>4, PTL DEF PipelineSpec
<1>6. PipelineSpec => []PollerProofs!NothingElseIsSkipped
  BY <1>1, ChainOfTheProofs, PollerProofs!PollerSkipsNothingElse, PTL
<1> QED BY <1>4, <1>5, <1>6, PTL DEF PipelineInv

\* The pipeline only does what the queues do by themselves.
THEOREM PipelineRunsTheQueues == PipelineSpec => Spec
<1>1. PipelineInv /\ [PipelineNext]_<<vars, poller>> => [Next]_vars
  BY StepOfQueues DEF PipelineInv
<1>2. PipelineInit => Init
  BY DEF PipelineInit
<1> QED BY <1>1, <1>2, PipelineInvariance, PTL DEF PipelineSpec, Spec

\* For any chain, pages, overlap of polls, repeated jobs, crashes and failing
\* calls on either side, and any retries: an event the poller's pointer has
\* passed is kept.
THEOREM PassedEventsAreKept == PipelineSpec => []PassedIsKept
<1>1. PipelineInv /\ PollerProofs!NothingElseIsSkipped => PassedIsKept
  <2> SUFFICES ASSUME PipelineInv, PollerProofs!NothingElseIsSkipped,
                      NEW i \in LeaseEvents, LedgerOf[i] <= lastIngested,
                      LedgerOf[i] \notin skipped, i \notin cutOff
               PROVE  queued[i] > 0 /\ \A n \in 1..queued[i] : Kept(<<i, n>>)
    BY DEF PassedIsKept
  <2>1. queued[i] > 0
    BY DEF PollerProofs!NothingElseIsSkipped, PollerProofs!ChainEvent, LeaseEvents
  <2>2. ASSUME NEW n \in 1..queued[i] PROVE Kept(<<i, n>>)
    <3>1. <<i, n>> \in Event /\ job[<<i, n>>] # "none"
      BY <2>2, JobOf, JobsAreCopies DEF PipelineInv, JobsAreThere
    <3> QED BY <3>1 DEF PipelineInv, Inv, NothingVanishes, Kept
  <2> QED BY <2>1, <2>2
<1> QED BY <1>1, PipelineInvariance, PTL
=============================================================================
