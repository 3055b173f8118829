--------------------------- MODULE WorkersProofs ---------------------------
(***************************************************************************)
(* Proofs about Workers, for every set of callers, every limit of the two  *)
(* queues and every set of workers that may fail: the types, and that the  *)
(* size of the log queue is exact.                                         *)
(***************************************************************************)
EXTENDS Workers, TLAPS

\* A log that is not being read has no record left, so flush_one replaces nothing that counts.
ReadToTheEnd == reading_state # "Reading" => reading = 0

IInv == TypeOK /\ ReadToTheEnd /\ LogQueueExact

Steps == {"loop", "wait", "full", "parking", "parked", "pop", "record", "bytes", "reindex",
          "reindexed", "flush", "signal", "enact", "dec", "clean", "failed", "shutdown", "stored",
          "done"}

-----------------------------------------------------------------------------

LEMMA InitIInv == Init => IInv
PROOF
<1> SUFFICES ASSUME Init PROVE IInv
  OBVIOUS
<1>1. work \in [Workers -> BOOLEAN] /\ more_work \in [Workers -> BOOLEAN]
  BY DEF Init
<1>2. /\ pc \in [Workers -> Steps]
      /\ pc["log"] = "reindex" /\ pc["commit"] = "loop"
  BY DEF Init, Steps, Workers
<1>3. /\ committers \in [Committers -> {"idle", "waiting", "woken"}]
      /\ flushed \in [read_next : BOOLEAN, cleanup : BOOLEAN]
  BY DEF Init
<1>4. {shutdown, bg_err} \subseteq BOOLEAN
  BY Zenon DEF Init
<1>5. TypeOK
  BY <1>1, <1>2, <1>3, <1>4 DEF Init, TypeOK, Steps
<1> QED
  BY <1>2, <1>5 DEF Init, IInv, ReadToTheEnd, LogQueueExact, At

(* The parts of the state that steps change through an operator.           *)

\* Goto keeps pc a function into the steps and moves only its worker.
LEMMA GotoFacts ==
  ASSUME TypeOK, NEW w \in Workers, NEW step \in Steps, Goto(w, step)
  PROVE  /\ pc' \in [Workers -> Steps]
         /\ pc'[w] = step
         /\ \A v \in Workers \ {w} : pc'[v] = pc[v]
  BY DEF TypeOK, Goto, Steps

\* Signal keeps work a function into BOOLEAN.
LEMMA SignalFacts ==
  ASSUME NEW ws, Signal(ws)
  PROVE  work' \in [Workers -> BOOLEAN]
  BY DEF Signal

\* NotifyCommitter keeps committers a function into the states of a caller.
LEMMA NotifyCommitterFacts ==
  ASSUME TypeOK, NotifyCommitter
  PROVE  committers' \in [Committers -> {"idle", "waiting", "woken"}]
  BY DEF TypeOK, NotifyCommitter

\* NotifyLogWorker changes at most the step of the log worker, from "parked" to "pop".
LEMMA NotifyLogWorkerFacts ==
  ASSUME NEW p \in [Workers -> Steps]
  PROVE  /\ NotifyLogWorker(p) \in [Workers -> Steps]
         /\ NotifyLogWorker(p)["log"] = IF p["log"] = "parked" THEN "pop" ELSE p["log"]
         /\ NotifyLogWorker(p)["commit"] = p["commit"]
  BY DEF NotifyLogWorker, Steps, Workers

-----------------------------------------------------------------------------
(* Callers.                                                                *)

LEMMA EnqueueStep ==
  ASSUME IInv, NEW t \in Committers, Enqueue(t), calls' \in Nat
  PROVE  IInv'
PROOF
<1>1. /\ UNCHANGED <<shutdown, bg_err, logged_bytes, appending, flushing, reading, reading_state,
                     cleanup_queue, pc, more_work, reindexes, flushed, dropper>>
      /\ committers' = [committers EXCEPT ![t] = "idle"]
  BY DEF Enqueue, logVars, loopVars
<1>2. queue_bytes' \in Nat
  BY DEF Enqueue, IInv, TypeOK
<1>3. work' \in [Workers -> BOOLEAN]
  BY SignalFacts DEF Enqueue, IInv, TypeOK
<1>4. committers' \in [Committers -> {"idle", "waiting", "woken"}]
  BY <1>1 DEF IInv, TypeOK
<1> QED
  BY <1>1, <1>2, <1>3, <1>4 DEF IInv, TypeOK, ReadToTheEnd, LogQueueExact, At

LEMMA CallerStep ==
  ASSUME IInv, NEW t \in Committers, commit_raw(t) \/ commit_woken(t)
  PROVE  IInv'
PROOF
<1>1. CASE commit_raw(t)
  <2>1. calls' \in Nat
    BY <1>1 DEF commit_raw, IInv, TypeOK
  <2>2. CASE queue_bytes > MAX_COMMIT_QUEUE_BYTES
    <3>1. /\ UNCHANGED <<shutdown, bg_err, queue_bytes, work, logged_bytes, appending, flushing,
                         reading, reading_state, cleanup_queue, pc, more_work, reindexes, flushed,
                         dropper>>
          /\ committers' = [committers EXCEPT ![t] = "waiting"]
      BY <1>1, <2>2 DEF commit_raw, logVars, loopVars
    <3>2. committers' \in [Committers -> {"idle", "waiting", "woken"}]
      BY <3>1 DEF IInv, TypeOK
    <3> QED
      BY <2>1, <3>1, <3>2 DEF IInv, TypeOK, ReadToTheEnd, LogQueueExact, At
  <2>3. CASE ~(queue_bytes > MAX_COMMIT_QUEUE_BYTES)
    BY <1>1, <2>1, <2>3, EnqueueStep DEF commit_raw
  <2> QED
    BY <2>2, <2>3
<1>2. CASE commit_woken(t)
  BY <1>2, EnqueueStep DEF commit_woken, IInv, TypeOK
<1> QED
  BY <1>1, <1>2

-----------------------------------------------------------------------------
(* Workers.                                                                *)

\* The records of which logged_bytes and the logs give different counts are the same two.
SameInFlight ==
    /\ pc'["log"] \in {"bytes", "reindexed"} <=> pc["log"] \in {"bytes", "reindexed"}
    /\ pc'["commit"] = "dec" <=> pc["commit"] = "dec"

\* A step that moves no record keeps the count.
LEMMA CountKept ==
  ASSUME IInv, SameInFlight,
         UNCHANGED <<logged_bytes, appending, flushing, reading, reading_state>>
  PROVE  ReadToTheEnd' /\ LogQueueExact'
  BY DEF IInv, SameInFlight, ReadToTheEnd, LogQueueExact, At

\* A step that changes no log, and so moves no record.
LEMMA QuietStep ==
  ASSUME IInv, SameInFlight, pc' \in [Workers -> Steps],
         {shutdown', bg_err'} \subseteq BOOLEAN,
         {queue_bytes', cleanup_queue'} \subseteq Nat,
         committers' \in [Committers -> {"idle", "waiting", "woken"}],
         work' \in [Workers -> BOOLEAN], more_work' \in [Workers -> BOOLEAN],
         dropper' \in {"open", "stored", "join", "closed"},
         UNCHANGED <<calls, reindexes, logged_bytes, appending, flushing, reading, reading_state,
                     flushed>>
  PROVE  IInv'
  BY CountKept DEF IInv, TypeOK, Steps

LEMMA LoopStep ==
  ASSUME IInv, NEW w \in Workers, NEW first \in Steps \ {"bytes", "reindexed", "dec"},
         WorkerLoop(w, first) \/ WorkerWait(w, first)
  PROVE  IInv'
PROOF
<1>1. UNCHANGED <<shutdown, bg_err, calls, queue_bytes, committers, reindexes, logged_bytes,
                  appending, flushing, reading, reading_state, cleanup_queue, more_work, flushed,
                  dropper>>
  BY DEF WorkerLoop, WorkerWait, queueVars, logVars
<1>2. work' \in [Workers -> BOOLEAN]
  BY DEF WorkerLoop, WorkerWait, IInv, TypeOK
<1>3. PICK step \in {first, "wait", "done"} : Goto(w, step)
  BY DEF WorkerLoop, WorkerWait
<1>4. /\ pc' \in [Workers -> Steps]
      /\ pc'[w] = step
      /\ \A v \in Workers \ {w} : pc'[v] = pc[v]
  <2>1. step \in Steps
    BY <1>3 DEF Steps
  <2> QED
    BY <1>3, <2>1, GotoFacts DEF IInv
<1>5. pc[w] \in {"loop", "reindex", "wait"}
  BY DEF WorkerLoop, WorkerWait, At
<1>6. SameInFlight
  BY <1>3, <1>4, <1>5 DEF SameInFlight, Workers
<1> QED
  BY <1>1, <1>2, <1>4, <1>6, QuietStep DEF IInv, TypeOK

\* process_commits up to the pop: steps of the log worker that move no record.
LEMMA PopStep ==
  ASSUME IInv, process_commits_full \/ process_commits_park \/ process_commits_pop
  PROVE  IInv'
PROOF
<1>1. UNCHANGED <<shutdown, bg_err, calls, work, reindexes, logged_bytes, appending, flushing,
                  reading, reading_state, cleanup_queue, flushed, dropper>>
  BY DEF process_commits_full, process_commits_park, process_commits_pop, queueVars, logVars
<1>2. queue_bytes' \in Nat
  <2>1. queue_bytes \in Nat
    BY DEF IInv, TypeOK
  <2>2. \/ queue_bytes' = queue_bytes
        \/ queue_bytes # 0 /\ queue_bytes' = queue_bytes - 1
    BY DEF process_commits_full, process_commits_park, process_commits_pop, queueVars
  <2> QED
    BY <2>1, <2>2
<1>3. committers' \in [Committers -> {"idle", "waiting", "woken"}]
  <2>1. CASE UNCHANGED committers
    BY <2>1 DEF IInv, TypeOK
  <2>2. CASE NotifyCommitter
    BY <2>2, NotifyCommitterFacts DEF IInv
  <2> QED
    BY <2>1, <2>2 DEF process_commits_full, process_commits_park, process_commits_pop, queueVars
<1>4. more_work' \in [Workers -> BOOLEAN]
  BY DEF process_commits_full, process_commits_park, process_commits_pop, Again, IInv, TypeOK
<1>5. PICK step \in {"parking", "parked", "pop", "record", "reindex"} : Goto("log", step)
  BY DEF process_commits_full, process_commits_park, process_commits_pop, Again
<1>6. /\ pc' \in [Workers -> Steps]
      /\ pc'["log"] = step
      /\ \A v \in Workers \ {"log"} : pc'[v] = pc[v]
  <2>1. step \in Steps /\ "log" \in Workers
    BY <1>5 DEF Steps, Workers
  <2> QED
    BY <1>5, <2>1, GotoFacts DEF IInv
<1>7. pc["log"] \in {"full", "parking", "pop"}
  BY DEF process_commits_full, process_commits_park, process_commits_pop, At
<1>8. SameInFlight
  BY <1>5, <1>6, <1>7 DEF SameInFlight, Workers
<1> QED
  BY <1>1, <1>2, <1>3, <1>4, <1>6, <1>8, QuietStep DEF IInv, TypeOK

\* end_record of a commit or of a reindex: the record is in the log and not yet counted.
LEMMA RecordStep ==
  ASSUME IInv, process_commits_record \/ process_reindex
  PROVE  IInv'
PROOF
<1>1. /\ UNCHANGED <<shutdown, bg_err, calls, queue_bytes, committers, work, logged_bytes, flushing,
                     reading, reading_state, cleanup_queue, more_work, flushed, dropper>>
      /\ appending' = appending + 1
      /\ pc["log"] \in {"record", "reindex"}
  BY DEF process_commits_record, process_reindex, queueVars, At
<1>2. reindexes' \in Nat
  BY DEF process_commits_record, process_reindex, IInv, TypeOK
<1>3. PICK step \in {"bytes", "reindexed"} : Goto("log", step)
  BY DEF process_commits_record, process_reindex
<1>4. /\ pc' \in [Workers -> Steps]
      /\ pc'["log"] = step
      /\ pc'["commit"] = pc["commit"]
  <2>1. step \in Steps /\ "log" \in Workers /\ "commit" \in Workers \ {"log"}
    BY <1>3 DEF Steps, Workers
  <2> QED
    BY <1>3, <2>1, GotoFacts DEF IInv
<1>5. TypeOK'
  BY <1>1, <1>2, <1>4 DEF IInv, TypeOK, Steps
<1>6. ReadToTheEnd' /\ LogQueueExact'
  BY <1>1, <1>3, <1>4 DEF IInv, TypeOK, ReadToTheEnd, LogQueueExact, At
<1> QED
  BY <1>5, <1>6 DEF IInv

\* The record is counted.
LEMMA BytesStep ==
  ASSUME IInv, process_commits_bytes \/ process_reindex_bytes
  PROVE  IInv'
PROOF
<1>1. /\ UNCHANGED <<shutdown, bg_err, calls, queue_bytes, committers, reindexes, appending,
                     flushing, reading, reading_state, cleanup_queue, flushed, dropper>>
      /\ logged_bytes' = logged_bytes + 1
      /\ pc["log"] \in {"bytes", "reindexed"}
  BY DEF process_commits_bytes, process_reindex_bytes, queueVars, logVars, At
<1>2. work' \in [Workers -> BOOLEAN]
  BY SignalFacts DEF process_commits_bytes, process_reindex_bytes
<1>3. more_work' \in [Workers -> BOOLEAN]
  BY DEF process_commits_bytes, process_reindex_bytes, Again, IInv, TypeOK
<1>4. PICK step \in {"reindex", "loop"} : Goto("log", step)
  BY DEF process_commits_bytes, process_reindex_bytes, Again
<1>5. /\ pc' \in [Workers -> Steps]
      /\ pc'["log"] = step
      /\ pc'["commit"] = pc["commit"]
  <2>1. step \in Steps /\ "log" \in Workers /\ "commit" \in Workers \ {"log"}
    BY <1>4 DEF Steps, Workers
  <2> QED
    BY <1>4, <2>1, GotoFacts DEF IInv
<1>6. TypeOK'
  BY <1>1, <1>2, <1>3, <1>5 DEF IInv, TypeOK, Steps
<1>7. ReadToTheEnd' /\ LogQueueExact'
  BY <1>1, <1>4, <1>5 DEF IInv, TypeOK, ReadToTheEnd, LogQueueExact, At
<1> QED
  BY <1>6, <1>7 DEF IInv

\* flush_one: the log that is replaced has been read to its end.
LEMMA FlushStep ==
  ASSUME IInv, flush_one
  PROVE  IInv'
PROOF
<1>1. UNCHANGED <<shutdown, bg_err, calls, queue_bytes, committers, work, reindexes, logged_bytes,
                  more_work, dropper>>
  BY DEF flush_one, queueVars
<1>2. flushed' \in [read_next : BOOLEAN, cleanup : BOOLEAN]
  BY DEF flush_one
<1>3. {appending, flushing, reading, cleanup_queue, MIN_LOG_SIZE_BYTES} \subseteq Nat
  BY WorkersAssumption DEF IInv, TypeOK
<1>4. /\ {appending', flushing', reading', cleanup_queue'} \subseteq Nat
      /\ reading_state' \in {"None", "Reading", "Idle"}
  BY <1>3 DEF flush_one, IInv, TypeOK
<1>5. appending' + flushing' + reading' = appending + flushing + reading
  BY <1>3 DEF flush_one, IInv, ReadToTheEnd
<1>6. ReadToTheEnd'
  BY DEF flush_one, IInv, ReadToTheEnd
<1>7. /\ pc' \in [Workers -> Steps]
      /\ pc'["log"] = pc["log"]
      /\ pc'["commit"] = pc["commit"]
  <2>1. "signal" \in Steps /\ {"log", "commit"} \subseteq Workers \ {"flush"} /\ "flush" \in Workers
    BY DEF Steps, Workers
  <2> QED
    BY <2>1, GotoFacts DEF flush_one, IInv
<1>8. LogQueueExact'
  BY <1>1, <1>3, <1>4, <1>5, <1>7 DEF IInv, TypeOK, LogQueueExact, At
<1>9. TypeOK'
  BY <1>1, <1>2, <1>4, <1>7 DEF IInv, TypeOK, Steps
<1> QED
  BY <1>6, <1>8, <1>9 DEF IInv

LEMMA SignalStep ==
  ASSUME IInv, flush_logs_signal \/ clean_logs
  PROVE  IInv'
PROOF
<1>1. UNCHANGED <<shutdown, bg_err, calls, queue_bytes, committers, reindexes, logged_bytes,
                  appending, flushing, reading, reading_state, flushed, dropper>>
  BY DEF flush_logs_signal, clean_logs, queueVars, logVars
<1>2. work' \in [Workers -> BOOLEAN]
  <2>1. CASE flush_logs_signal
    BY <2>1 DEF flush_logs_signal, Signal
  <2>2. CASE clean_logs
    BY <2>2 DEF clean_logs, IInv, TypeOK
  <2> QED
    BY <2>1, <2>2
<1>3. cleanup_queue' \in Nat
  <2>1. cleanup_queue' = cleanup_queue \/ cleanup_queue' = 0
    BY DEF flush_logs_signal, clean_logs, logVars
  <2> QED
    BY <2>1 DEF IInv, TypeOK
<1>4. PICK w \in {"flush", "cleanup"} : Goto(w, "loop")
  <2>1. CASE flush_logs_signal
    BY <2>1 DEF flush_logs_signal, Again
  <2>2. CASE clean_logs
    BY <2>2 DEF clean_logs, Again
  <2> QED
    BY <2>1, <2>2
<1>5. more_work' \in [Workers -> BOOLEAN]
  <2>1. CASE flush_logs_signal
    <3>1. more_work' = [more_work EXCEPT !["flush"] = flushing > 0]
      BY <2>1 DEF flush_logs_signal, Again
    <3>2. (flushing > 0) \in BOOLEAN /\ more_work \in [Workers -> BOOLEAN]
      BY DEF IInv, TypeOK
    <3> QED
      BY <3>1, <3>2, Zenon
  <2>2. CASE clean_logs
    BY <2>2 DEF clean_logs, Again, IInv, TypeOK
  <2> QED
    BY <2>1, <2>2
<1>6. /\ pc' \in [Workers -> Steps]
      /\ pc'["log"] = pc["log"]
      /\ pc'["commit"] = pc["commit"]
  <2>1. "loop" \in Steps /\ {"log", "commit"} \subseteq Workers \ {w} /\ w \in Workers
    BY <1>4 DEF Steps, Workers
  <2> QED
    BY <1>4, <2>1, GotoFacts DEF IInv
<1>7. SameInFlight
  BY <1>6 DEF SameInFlight
<1> QED
  BY <1>1, <1>2, <1>3, <1>5, <1>6, <1>7, QuietStep DEF IInv, TypeOK

\* enact_logs: a record leaves the log before it is subtracted.
LEMMA EnactStep ==
  ASSUME IInv, enact_logs
  PROVE  IInv'
PROOF
<1>1. /\ UNCHANGED <<shutdown, bg_err, calls, queue_bytes, committers, work, reindexes,
                     logged_bytes, appending, flushing, cleanup_queue, flushed, dropper>>
      /\ pc["commit"] = "enact"
  BY DEF enact_logs, queueVars, At
<1>2. /\ "commit" \in Workers /\ "log" \in Workers \ {"commit"}
      /\ {"dec", "loop"} \subseteq Steps
  BY DEF Workers, Steps
<1>3. CASE reading_state = "Reading" /\ reading > 0
  <2>1. reading' = reading - 1 /\ Goto("commit", "dec") /\ UNCHANGED <<reading_state, more_work>>
    BY <1>3 DEF enact_logs
  <2>2. pc' \in [Workers -> Steps] /\ pc'["commit"] = "dec" /\ pc'["log"] = pc["log"]
    BY <1>2, <2>1, GotoFacts DEF IInv
  <2>3. reading \in Nat /\ reading' \in Nat
    BY <1>3, <2>1 DEF IInv, TypeOK
  <2>4. TypeOK'
    BY <1>1, <2>1, <2>2, <2>3 DEF IInv, TypeOK, Steps
  <2>5. ReadToTheEnd' /\ LogQueueExact'
    BY <1>1, <1>3, <2>1, <2>2, <2>3 DEF IInv, TypeOK, ReadToTheEnd, LogQueueExact, At
  <2> QED
    BY <2>4, <2>5 DEF IInv
<1>4. CASE ~(reading_state = "Reading" /\ reading > 0)
  <2>1. /\ UNCHANGED reading
        /\ reading_state' = IF reading_state = "Reading" THEN "Idle" ELSE reading_state
        /\ Again("commit", FALSE)
    BY <1>4 DEF enact_logs
  <2>2. more_work' \in [Workers -> BOOLEAN] /\ Goto("commit", "loop")
    BY <2>1 DEF Again, IInv, TypeOK
  <2>3. pc' \in [Workers -> Steps] /\ pc'["commit"] = "loop" /\ pc'["log"] = pc["log"]
    BY <1>2, <2>2, GotoFacts DEF IInv
  <2>4. TypeOK'
    BY <1>1, <2>1, <2>2, <2>3 DEF IInv, TypeOK, Steps
  <2>5. ReadToTheEnd'
    BY <1>4, <2>1 DEF IInv, TypeOK, ReadToTheEnd
  <2>6. LogQueueExact'
    BY <1>1, <2>1, <2>3 DEF IInv, LogQueueExact, At
  <2> QED
    BY <2>4, <2>5, <2>6 DEF IInv
<1> QED
  BY <1>3, <1>4

\* The record is subtracted; the log worker, if it is woken, was between two records.
LEMMA EnactBytesStep ==
  ASSUME IInv, enact_logs_bytes
  PROVE  IInv'
PROOF
<1> DEFINE p == [pc EXCEPT !["commit"] = "loop"]
<1>1. /\ UNCHANGED <<shutdown, bg_err, calls, queue_bytes, committers, work, reindexes, appending,
                     flushing, reading, reading_state, cleanup_queue, flushed, dropper>>
      /\ logged_bytes' = logged_bytes - 1
      /\ pc["commit"] = "dec"
  BY DEF enact_logs_bytes, queueVars, logVars, At
<1>2. more_work' \in [Workers -> BOOLEAN]
  BY DEF enact_logs_bytes, IInv, TypeOK
<1>3. p \in [Workers -> Steps] /\ p["commit"] = "loop" /\ p["log"] = pc["log"]
  BY DEF IInv, TypeOK, Steps, Workers
<1>4. pc' = p \/ pc' = NotifyLogWorker(p)
  BY DEF enact_logs_bytes
<1>5. /\ pc' \in [Workers -> Steps]
      /\ pc'["commit"] = "loop"
      /\ pc'["log"] \in {"bytes", "reindexed"} <=> pc["log"] \in {"bytes", "reindexed"}
  BY <1>3, <1>4, NotifyLogWorkerFacts
<1>6. TypeOK'
  BY <1>1, <1>2, <1>5 DEF IInv, TypeOK, Steps
<1>7. ReadToTheEnd'
  BY <1>1 DEF IInv, ReadToTheEnd
<1>8. LogQueueExact'
  <2>1. CASE pc["log"] \in {"bytes", "reindexed"}
    BY <1>1, <1>5, <2>1 DEF IInv, TypeOK, LogQueueExact, At
  <2>2. CASE pc["log"] \notin {"bytes", "reindexed"}
    BY <1>1, <1>5, <2>2 DEF IInv, TypeOK, LogQueueExact, At
  <2> QED
    BY <2>1, <2>2
<1> QED
  BY <1>6, <1>7, <1>8 DEF IInv

-----------------------------------------------------------------------------
(* Background errors and Drop.                                             *)

\* A worker fails where no record is in flight.
LEMMA ErrorStep ==
  ASSUME IInv, NEW w \in Workers, worker_error(w) \/ StoreErr(w)
  PROVE  IInv'
PROOF
<1>1. UNCHANGED <<calls, queue_bytes, reindexes, logged_bytes, appending, flushing, reading,
                  reading_state, cleanup_queue, more_work, flushed, dropper>>
  BY DEF worker_error, StoreErr, store_err, store_err_shutdown, store_err_notify, queueVars, logVars
<1>2. {shutdown', bg_err'} \subseteq BOOLEAN
  <2>1. shutdown \in BOOLEAN /\ bg_err \in BOOLEAN
    BY DEF IInv, TypeOK
  <2>2. \/ UNCHANGED <<shutdown, bg_err>>
        \/ bg_err' = TRUE /\ shutdown' = (shutdown \/ ~bg_err)
    BY DEF worker_error, StoreErr, store_err, store_err_shutdown, store_err_notify
  <2> QED
    BY <2>1, <2>2, Zenon
<1>3. work' \in [Workers -> BOOLEAN]
  BY SignalFacts DEF worker_error, StoreErr, store_err, store_err_shutdown, store_err_notify,
                     ShutdownSignals, IInv, TypeOK
<1>4. committers' \in [Committers -> {"idle", "waiting", "woken"}]
  BY NotifyCommitterFacts DEF worker_error, StoreErr, store_err, store_err_shutdown,
                              store_err_notify, queueVars, IInv, TypeOK
<1>5. pc[w] \in {"record", "reindex", "flush", "enact", "clean", "failed", "shutdown", "stored"}
  BY DEF worker_error, FailurePoint, StoreErr, store_err, store_err_shutdown, store_err_notify, At,
         Workers
<1>6. /\ pc' \in [Workers -> Steps]
      /\ SameInFlight
  <2>1. CASE \E step \in {"failed", "stored", "shutdown", "done"} : Goto(w, step)
    <3>1. PICK step \in {"failed", "stored", "shutdown", "done"} : Goto(w, step)
      BY <2>1
    <3>2. /\ pc' \in [Workers -> Steps]
          /\ pc'[w] = step
          /\ \A v \in Workers \ {w} : pc'[v] = pc[v]
      <4>1. step \in Steps
        BY DEF Steps
      <4> QED
        BY <3>1, <4>1, GotoFacts DEF IInv
    <3> QED
      BY <1>5, <3>2 DEF SameInFlight, Workers
  <2>2. CASE store_err_shutdown(w)
    <3> DEFINE p == [pc EXCEPT ![w] = "stored"]
    <3>1. /\ p \in [Workers -> Steps]
          /\ p[w] = "stored"
          /\ \A v \in Workers \ {w} : p[v] = pc[v]
      BY DEF IInv, TypeOK, Steps
    <3>2. pc' = NotifyLogWorker(p)
      BY <2>2 DEF store_err_shutdown, ShutdownSignals
    <3>3. /\ pc' \in [Workers -> Steps]
          /\ pc'["log"] = IF p["log"] = "parked" THEN "pop" ELSE p["log"]
          /\ pc'["commit"] = p["commit"]
      BY <3>1, <3>2, NotifyLogWorkerFacts
    <3> QED
      BY <1>5, <3>1, <3>3 DEF SameInFlight, Workers
  <2> QED
    BY <2>1, <2>2 DEF worker_error, StoreErr, store_err, store_err_notify
<1> QED
  BY <1>1, <1>2, <1>3, <1>4, <1>6, QuietStep DEF IInv, TypeOK

LEMMA DropStep ==
  ASSUME IInv, Dropper
  PROVE  IInv'
PROOF
<1>1. /\ UNCHANGED <<bg_err, calls, queue_bytes, committers, reindexes, logged_bytes, appending,
                     flushing, reading, reading_state, cleanup_queue, more_work, flushed>>
      /\ dropper' \in {"open", "stored", "join", "closed"}
  BY DEF Dropper, drop_shutdown, drop_signals, drop_join, queueVars, logVars, loopVars
<1>2. shutdown' \in BOOLEAN
  <2>1. shutdown \in BOOLEAN
    BY DEF IInv, TypeOK
  <2>2. shutdown' = TRUE \/ shutdown' = shutdown
    BY DEF Dropper, drop_shutdown, drop_signals, drop_join
  <2> QED
    BY <2>1, <2>2, Zenon
<1>3. work' \in [Workers -> BOOLEAN]
  BY SignalFacts DEF Dropper, drop_shutdown, drop_signals, drop_join, ShutdownSignals, IInv, TypeOK
<1>4. pc \in [Workers -> Steps]
  BY DEF IInv, TypeOK, Steps
<1>5. pc' = pc \/ pc' = NotifyLogWorker(pc)
  BY DEF Dropper, drop_shutdown, drop_signals, drop_join, ShutdownSignals, loopVars
<1>6. pc' \in [Workers -> Steps] /\ SameInFlight
  BY <1>4, <1>5, NotifyLogWorkerFacts DEF SameInFlight
<1> QED
  BY <1>1, <1>2, <1>3, <1>6, QuietStep DEF IInv, TypeOK

-----------------------------------------------------------------------------

(* IInv is inductive: no step of a caller, of a worker, of store_err or of Drop *)
(* loses count of a record between Log::end_record and enact_logs.              *)
THEOREM Inductive == Spec => []IInv
PROOF
<1>1. ASSUME IInv, [Next]_vars PROVE IInv'
  <2>1. CASE \E t \in Committers : commit_raw(t) \/ commit_woken(t)
    BY <1>1, <2>1, CallerStep
  <2>2. CASE LogWorker
    <3>1. {"full", "wait"} \subseteq Steps \ {"bytes", "reindexed", "dec"} /\ "log" \in Workers
      BY DEF Steps, Workers
    <3> QED
      BY <1>1, <2>2, <3>1, LoopStep, PopStep, RecordStep, BytesStep DEF LogWorker
  <2>3. CASE FlushWorker
    <3>1. "flush" \in Steps \ {"bytes", "reindexed", "dec"} /\ "flush" \in Workers
      BY DEF Steps, Workers
    <3> QED
      BY <1>1, <2>3, <3>1, LoopStep, FlushStep, SignalStep DEF FlushWorker
  <2>4. CASE CommitWorker
    <3>1. "enact" \in Steps \ {"bytes", "reindexed", "dec"} /\ "commit" \in Workers
      BY DEF Steps, Workers
    <3> QED
      BY <1>1, <2>4, <3>1, LoopStep, EnactStep, EnactBytesStep DEF CommitWorker
  <2>5. CASE CleanupWorker
    <3>1. "clean" \in Steps \ {"bytes", "reindexed", "dec"} /\ "cleanup" \in Workers
      BY DEF Steps, Workers
    <3> QED
      BY <1>1, <2>5, <3>1, LoopStep, SignalStep DEF CleanupWorker
  <2>6. CASE \E w \in Workers : worker_error(w) \/ StoreErr(w)
    BY <1>1, <2>6, ErrorStep
  <2>7. CASE Dropper
    BY <1>1, <2>7, DropStep
  <2>8. CASE UNCHANGED vars
    BY <1>1, <2>8 DEF vars, IInv, TypeOK, ReadToTheEnd, LogQueueExact, At
  <2> QED
    BY <1>1, <2>1, <2>2, <2>3, <2>4, <2>5, <2>6, <2>7, <2>8 DEF Next
<1> QED
  BY <1>1, InitIInv, PTL DEF Spec

(* The commit queue and the logs never hold a negative amount and every worker  *)
(* is at one of its steps, whatever fails and whenever Db is dropped (TypeOK).  *)
THEOREM TypeCorrect == Spec => []TypeOK
PROOF
<1>1. IInv => TypeOK
  BY DEF IInv
<1> QED
  BY <1>1, Inductive, PTL

(* log_queue_wait.work is the number of records that are logged and not         *)
(* enacted, but for the one that process_commits or process_reindex has yet to  *)
(* count and the one that enact_logs has yet to subtract.                       *)
THEOREM LogQueueIsExact == Spec => []LogQueueExact
PROOF
<1>1. IInv => LogQueueExact
  BY DEF IInv
<1> QED
  BY <1>1, Inductive, PTL

=============================================================================
