------------------------------ MODULE Workers ------------------------------
(***************************************************************************)
(* The threads of an open Db and how they wait for each other: callers of  *)
(* commit and the bounded commit queue, the log worker and the bounded log *)
(* queue, the flush, commit and cleanup workers, the condition variables   *)
(* between them, background errors, and the shutdown when Db is dropped.   *)
(*                                                                         *)
(* Data is abstracted to amounts: a commit and the record made from it are *)
(* one unit of bytes each, and a log is the number of its records that are *)
(* not yet enacted.  A parking_lot Condvar has no spurious wakeups.        *)
(***************************************************************************)
EXTENDS Integers, FiniteSets

CONSTANTS Committers,              \* threads that call commit
          MaxCommits,              \* bound: number of calls of commit
          MaxReindexes,            \* bound: number of records made by process_reindex
          MAX_COMMIT_QUEUE_BYTES,
          MAX_LOG_QUEUE_BYTES,
          MIN_LOG_SIZE_BYTES,
          Failing,                 \* workers that may meet an error
          MayDrop                  \* is Db dropped?

ASSUME WorkersAssumption ==
    /\ {MaxCommits, MaxReindexes, MAX_COMMIT_QUEUE_BYTES, MAX_LOG_QUEUE_BYTES, MIN_LOG_SIZE_BYTES}
           \subseteq Nat
    /\ Failing \subseteq {"log", "flush", "commit", "cleanup"}
    /\ MayDrop \in BOOLEAN

Workers == {"log", "flush", "commit", "cleanup"}

VARIABLES
    shutdown,       \* DbInner.shutdown
    bg_err,         \* DbInner.bg_err is set
    calls,          \* calls of commit so far
    queue_bytes,    \* CommitQueue.bytes
    committers,     \* committers[t]: "idle", "waiting" on commit_queue_full_cv, or "woken"
    work,           \* work[w]: the flag of the worker's WaitCondvar<bool>
    reindexes,      \* records made by process_reindex so far
    logged_bytes,   \* log_queue_wait.work
    appending,      \* records in the appending log
    flushing,       \* records in the flushing log
    reading,        \* records of the reading log that are not enacted
    reading_state,  \* "None" before the first log is read, then "Reading" or "Idle"
    cleanup_queue,  \* number of logs to clean
    pc,             \* pc[w]: where the worker is
    more_work,      \* more_work[w]: the local variable of the worker's loop
    flushed,        \* [read_next, cleanup]: results of flush_one
    dropper         \* where Drop is: "open", "stored", "join" or "closed"

queueVars == <<calls, queue_bytes, committers>>
logVars == <<appending, flushing, reading, reading_state, cleanup_queue>>
loopVars == <<pc, more_work, reindexes>>
vars == <<shutdown, bg_err, calls, queue_bytes, committers, work, reindexes, logged_bytes,
          appending, flushing, reading, reading_state, cleanup_queue, pc, more_work, flushed,
          dropper>>

Init ==
    /\ shutdown = FALSE /\ bg_err = FALSE
    /\ calls = 0 /\ queue_bytes = 0 /\ committers = [t \in Committers |-> "idle"]
    /\ work = [w \in Workers |-> FALSE]
    /\ logged_bytes = 0
    /\ appending = 0 /\ flushing = 0 /\ reading = 0 /\ reading_state = "None"
    /\ cleanup_queue = 0
    /\ pc = [w \in Workers |-> IF w = "log" THEN "reindex" ELSE "loop"]
    /\ reindexes = 0
    /\ more_work = [w \in Workers |-> w = "cleanup"]
    /\ flushed = [read_next |-> FALSE, cleanup |-> FALSE]
    /\ dropper = "open"

At(w, step) == pc[w] = step
Goto(w, step) == pc' = [pc EXCEPT ![w] = step]
Signal(ws) == work' = [w \in Workers |-> w \in ws \/ work[w]]

-----------------------------------------------------------------------------
(* Callers of commit: DbInner::commit_raw.                                 *)

\* commit_queue_full_cv.notify_one().
NotifyCommitter ==
    \/ \E t \in Committers : /\ committers[t] = "waiting"
                             /\ committers' = [committers EXCEPT ![t] = "woken"]
    \/ (\A t \in Committers : committers[t] # "waiting") /\ UNCHANGED committers

\* Mutant of Enqueue: the log worker is not signalled.
Enqueue_silent(t) ==
    /\ committers' = [committers EXCEPT ![t] = "idle"]
    /\ queue_bytes' = IF bg_err THEN queue_bytes ELSE queue_bytes + 1
    /\ UNCHANGED <<shutdown, bg_err, work, logged_bytes, logVars, loopVars, flushed, dropper>>

\* The rest of commit_raw once there is room: fail after a background error, else enqueue.
Enqueue(t) ==
    /\ committers' = [committers EXCEPT ![t] = "idle"]
    /\ IF bg_err THEN UNCHANGED <<queue_bytes, work>>
       ELSE queue_bytes' = queue_bytes + 1 /\ Signal({"log"})
    /\ UNCHANGED <<shutdown, bg_err, logged_bytes, logVars, loopVars, flushed, dropper>>

commit_raw(t) ==
    /\ committers[t] = "idle" /\ calls < MaxCommits /\ dropper = "open"
    /\ calls' = calls + 1
    /\ IF queue_bytes > MAX_COMMIT_QUEUE_BYTES
       THEN /\ committers' = [committers EXCEPT ![t] = "waiting"]
            /\ UNCHANGED <<shutdown, bg_err, queue_bytes, work, logged_bytes, logVars, loopVars,
                           flushed, dropper>>
       ELSE Enqueue(t)

\* The caller was notified; it does not look at the size of the queue again.
commit_woken(t) ==
    /\ committers[t] = "woken"
    /\ Enqueue(t)
    /\ UNCHANGED calls

-----------------------------------------------------------------------------
(* What the loops of the four workers have in common: the loop condition,  *)
(* and WaitCondvar::wait unless there is more work.                        *)

\* The log worker comes here from process_reindex when there was nothing to reindex.
WorkerLoop(w, first) ==
    /\ pc[w] \in {"loop", "reindex"}
    /\ Goto(w, IF shutdown /\ (w = "flush" \/ ~more_work[w]) THEN "done"
               ELSE IF more_work[w] THEN first ELSE "wait")
    /\ UNCHANGED <<shutdown, bg_err, queueVars, work, reindexes, logged_bytes, logVars, more_work,
                   flushed, dropper>>

WorkerWait(w, first) ==
    /\ At(w, "wait") /\ work[w]
    /\ work' = [work EXCEPT ![w] = FALSE]
    /\ Goto(w, first)
    /\ UNCHANGED <<shutdown, bg_err, queueVars, reindexes, logged_bytes, logVars, more_work,
                   flushed, dropper>>

\* The end of a round of the loop; the log worker goes on with process_reindex.
Again(w, more) ==
    /\ more_work' = [more_work EXCEPT ![w] = more]
    /\ Goto(w, IF w = "log" THEN "reindex" ELSE "loop")

-----------------------------------------------------------------------------
(* The log worker: process_commits, then process_reindex.                  *)

\* log_queue_wait.cv.notify_one() reaches the log worker only if it is already waiting.
NotifyLogWorker(p) == [p EXCEPT !["log"] = IF @ = "parked" THEN "pop" ELSE @]

\* The log worker holds the lock of the log queue over two of its steps.
LogQueueLocked == At("log", "parking") \/ At("log", "reindexed")

\* Wait if the log queue is full.  The worker holds the lock of the log queue from the test to
\* the wait, but shutdown() takes no lock.
process_commits_full ==
    /\ At("log", "full")
    /\ Goto("log", IF ~shutdown /\ logged_bytes > MAX_LOG_QUEUE_BYTES THEN "parking" ELSE "pop")
    /\ UNCHANGED <<shutdown, bg_err, queueVars, work, reindexes, logged_bytes, logVars, more_work,
                   flushed, dropper>>
process_commits_park ==
    /\ At("log", "parking")
    /\ Goto("log", "parked")
    /\ UNCHANGED <<shutdown, bg_err, queueVars, work, reindexes, logged_bytes, logVars, more_work,
                   flushed, dropper>>

\* Mutant of process_commits_pop: the queue is not tested for being empty.
process_commits_pop_empty ==
    /\ At("log", "pop")
    /\ queue_bytes' = queue_bytes - 1
    /\ IF queue_bytes' <= MAX_COMMIT_QUEUE_BYTES /\ queue_bytes > MAX_COMMIT_QUEUE_BYTES
       THEN NotifyCommitter ELSE UNCHANGED committers
    /\ Goto("log", "record")
    /\ UNCHANGED <<calls, more_work, shutdown, bg_err, work, reindexes, logged_bytes, logVars,
                   flushed, dropper>>


\* Take a commit; wake a caller when the queue is no longer over its limit.
process_commits_pop ==
    /\ At("log", "pop")
    /\ IF queue_bytes = 0
       THEN Again("log", FALSE) /\ UNCHANGED queueVars
       ELSE /\ queue_bytes' = queue_bytes - 1
            /\ IF queue_bytes' <= MAX_COMMIT_QUEUE_BYTES /\ queue_bytes > MAX_COMMIT_QUEUE_BYTES
               THEN NotifyCommitter ELSE UNCHANGED committers
            /\ Goto("log", "record")
            /\ UNCHANGED <<calls, more_work>>
    /\ UNCHANGED <<shutdown, bg_err, work, reindexes, logged_bytes, logVars, flushed, dropper>>

\* Log::end_record, and only then the size of the log queue.
process_commits_record ==
    /\ At("log", "record")
    /\ appending' = appending + 1
    /\ Goto("log", "bytes")
    /\ UNCHANGED <<shutdown, bg_err, queueVars, work, reindexes, logged_bytes, flushing, reading,
                   reading_state, cleanup_queue, more_work, flushed, dropper>>
process_commits_bytes ==
    /\ At("log", "bytes")
    /\ logged_bytes' = logged_bytes + 1
    /\ Signal({"flush"})
    /\ Again("log", TRUE)
    /\ UNCHANGED <<shutdown, bg_err, queueVars, logVars, flushed, dropper, reindexes>>

\* process_reindex makes a record, with the lock of the log queue held until it is counted.
process_reindex ==
    /\ At("log", "reindex") /\ reindexes < MaxReindexes
    /\ reindexes' = reindexes + 1
    /\ appending' = appending + 1
    /\ Goto("log", "reindexed")
    /\ UNCHANGED <<shutdown, bg_err, queueVars, work, logged_bytes, flushing, reading,
                   reading_state, cleanup_queue, more_work, flushed, dropper>>
process_reindex_bytes ==
    /\ At("log", "reindexed")
    /\ logged_bytes' = logged_bytes + 1
    /\ Signal({"flush"})
    /\ more_work' = [more_work EXCEPT !["log"] = TRUE]
    /\ Goto("log", "loop")
    /\ UNCHANGED <<shutdown, bg_err, queueVars, reindexes, logVars, flushed, dropper>>

-----------------------------------------------------------------------------
(* The flush worker: flush_logs, Log::flush_one.                           *)

\* When a log is being flushed, wait on done_reading_cv until the reader has finished, and hand
\* it over; then flush the appending log if it is large enough.
flush_one ==
    /\ At("flush", "flush")
    /\ flushing > 0 => reading_state # "Reading"
    /\ flushed' = [read_next |-> flushing > 0, cleanup |-> flushing > 0 /\ reading_state = "Idle"]
    /\ IF flushing > 0
       THEN /\ reading' = flushing /\ reading_state' = "Reading"
            /\ cleanup_queue' = cleanup_queue + (IF reading_state = "Idle" THEN 1 ELSE 0)
       ELSE UNCHANGED <<reading, reading_state, cleanup_queue>>
    /\ IF appending > MIN_LOG_SIZE_BYTES
       THEN flushing' = appending /\ appending' = 0
       ELSE flushing' = 0 /\ UNCHANGED appending
    /\ Goto("flush", "signal")
    /\ UNCHANGED <<shutdown, bg_err, queueVars, work, reindexes, logged_bytes, more_work, dropper>>
flush_logs_signal ==
    /\ At("flush", "signal")
    /\ Signal({w \in {"commit"} : flushed.read_next} \cup {w \in {"cleanup"} : flushed.cleanup})
    /\ Again("flush", flushing > 0)
    /\ UNCHANGED <<shutdown, bg_err, queueVars, reindexes, logged_bytes, logVars, flushed,
                   dropper>>

-----------------------------------------------------------------------------
(* The commit worker: enact_logs, Log::read_next.                          *)

enact_logs ==
    /\ At("commit", "enact")
    /\ IF reading_state = "Reading" /\ reading > 0
       THEN /\ reading' = reading - 1 /\ Goto("commit", "dec")
            /\ UNCHANGED <<reading_state, more_work>>
       ELSE /\ reading_state' = IF reading_state = "Reading" THEN "Idle" ELSE reading_state
            /\ Again("commit", FALSE)
            /\ UNCHANGED reading
    /\ UNCHANGED <<shutdown, bg_err, queueVars, work, reindexes, logged_bytes, appending, flushing,
                   cleanup_queue, flushed, dropper>>

\* Mutant of enact_logs_bytes: the log worker is not woken.
enact_logs_bytes_silent ==
    /\ At("commit", "dec") /\ ~LogQueueLocked
    /\ logged_bytes' = logged_bytes - 1
    /\ Again("commit", TRUE)
    /\ UNCHANGED <<shutdown, bg_err, queueVars, work, logVars, flushed, dropper, reindexes>>

\* The record leaves the log queue; the log worker is woken when the queue is no longer over
\* its limit.
enact_logs_bytes ==
    /\ At("commit", "dec") /\ ~LogQueueLocked
    /\ logged_bytes' = logged_bytes - 1
    /\ more_work' = [more_work EXCEPT !["commit"] = TRUE]
    /\ LET p == [pc EXCEPT !["commit"] = "loop"]
       IN  pc' = IF logged_bytes' <= MAX_LOG_QUEUE_BYTES /\ logged_bytes > MAX_LOG_QUEUE_BYTES
                 THEN NotifyLogWorker(p) ELSE p
    /\ UNCHANGED <<shutdown, bg_err, queueVars, work, logVars, flushed, dropper, reindexes>>

-----------------------------------------------------------------------------
(* The cleanup worker: clean_logs with sync_data.                          *)

clean_logs ==
    /\ At("cleanup", "clean")
    /\ cleanup_queue' = 0
    /\ Again("cleanup", FALSE)
    /\ UNCHANGED <<shutdown, bg_err, queueVars, work, reindexes, logged_bytes, appending, flushing,
                   reading, reading_state, flushed, dropper>>

-----------------------------------------------------------------------------
(* Background errors: store_err; and DbInner::shutdown, which it shares with Drop. *)

\* The notifications of shutdown(), after the flag is set.
ShutdownSignals(p) == pc' = NotifyLogWorker(p) /\ Signal(Workers)

\* Mutant of FailurePoint: the log worker can fail between the record and its count.
FailurePoint_uncounted ==
    [log |-> {"bytes"}, flush |-> {"flush"}, commit |-> {"enact"}, cleanup |-> {"clean"}]

\* Steps in which I/O or corruption can end a worker.
FailurePoint ==
    [log |-> {"record", "reindex"}, flush |-> {"flush"}, commit |-> {"enact"},
     cleanup |-> {"clean"}]

worker_error(w) ==
    /\ w \in Failing /\ pc[w] \in FailurePoint[w]
    /\ Goto(w, "failed")
    /\ UNCHANGED <<shutdown, bg_err, queueVars, work, reindexes, logged_bytes, logVars, more_work,
                   flushed, dropper>>

\* Keep the first error and set the shutdown flag.
store_err(w) ==
    /\ At(w, "failed")
    /\ bg_err' = TRUE
    /\ shutdown' = (shutdown \/ ~bg_err)
    /\ Goto(w, IF bg_err THEN "stored" ELSE "shutdown")
    /\ UNCHANGED <<queueVars, work, reindexes, logged_bytes, logVars, more_work, flushed, dropper>>
store_err_shutdown(w) ==
    /\ At(w, "shutdown")
    /\ ShutdownSignals([pc EXCEPT ![w] = "stored"])
    /\ UNCHANGED <<shutdown, bg_err, queueVars, reindexes, logged_bytes, logVars, more_work,
                   flushed, dropper>>
store_err_notify(w) ==
    /\ At(w, "stored")
    /\ NotifyCommitter
    /\ Goto(w, "done")
    /\ UNCHANGED <<shutdown, bg_err, calls, queue_bytes, work, reindexes, logged_bytes, logVars,
                   more_work, flushed, dropper>>

(* Drop for Db.  Nobody is in a call of commit any more.                   *)
drop_shutdown ==
    /\ MayDrop /\ dropper = "open"
    /\ \A t \in Committers : committers[t] = "idle"
    /\ shutdown' = TRUE
    /\ dropper' = "stored"
    /\ UNCHANGED <<bg_err, queueVars, work, logged_bytes, logVars, loopVars, flushed>>
drop_signals ==
    /\ dropper = "stored"
    /\ ShutdownSignals(pc)
    /\ dropper' = "join"
    /\ UNCHANGED <<shutdown, bg_err, queueVars, reindexes, logged_bytes, logVars, more_work,
                   flushed>>

\* The four joins; kill_logs follows (module Wal).
drop_join ==
    /\ dropper = "join"
    /\ \A w \in Workers : At(w, "done")
    /\ dropper' = "closed"
    /\ UNCHANGED <<shutdown, bg_err, queueVars, work, logged_bytes, logVars, loopVars, flushed>>

-----------------------------------------------------------------------------

LogWorker ==
    \/ WorkerLoop("log", "full") \/ WorkerWait("log", "full")
    \/ process_commits_full \/ process_commits_park \/ process_commits_pop
    \/ process_commits_record \/ process_commits_bytes
    \/ process_reindex \/ process_reindex_bytes
FlushWorker ==
    \/ WorkerLoop("flush", "flush") \/ WorkerWait("flush", "flush")
    \/ flush_one \/ flush_logs_signal
CommitWorker ==
    \/ WorkerLoop("commit", "enact") \/ WorkerWait("commit", "enact")
    \/ enact_logs \/ enact_logs_bytes
CleanupWorker ==
    \/ WorkerLoop("cleanup", "clean") \/ WorkerWait("cleanup", "clean")
    \/ clean_logs
StoreErr(w) == store_err(w) \/ store_err_shutdown(w) \/ store_err_notify(w)
Dropper == drop_shutdown \/ drop_signals \/ drop_join

Next ==
    \/ \E t \in Committers : commit_raw(t) \/ commit_woken(t)
    \/ LogWorker \/ FlushWorker \/ CommitWorker \/ CleanupWorker
    \/ \E w \in Workers : worker_error(w) \/ StoreErr(w)
    \/ Dropper

(* A thread that can take a step takes it; nobody has to call commit, to   *)
(* meet an error or to begin a drop.                                       *)
Fairness ==
    /\ \A t \in Committers : WF_vars(commit_woken(t))
    /\ WF_vars(LogWorker) /\ WF_vars(FlushWorker)
    /\ WF_vars(CommitWorker) /\ WF_vars(CleanupWorker)
    /\ \A w \in Workers : WF_vars(StoreErr(w))
    /\ WF_vars(drop_signals) /\ WF_vars(drop_join)

Spec == Init /\ [][Next]_vars
FairSpec == Spec /\ Fairness

-----------------------------------------------------------------------------
(* Properties.                                                             *)

(* The type invariant: the queue and the logs never hold a negative amount,     *)
(* though log_queue_wait.work may, and every worker is at one of its steps.     *)
TypeOK ==
    /\ {shutdown, bg_err} \subseteq BOOLEAN
    /\ {calls, queue_bytes, reindexes, appending, flushing, reading, cleanup_queue} \subseteq Nat
    /\ committers \in [Committers -> {"idle", "waiting", "woken"}]
    /\ work \in [Workers -> BOOLEAN] /\ more_work \in [Workers -> BOOLEAN]
    /\ logged_bytes \in Int
    /\ reading_state \in {"None", "Reading", "Idle"}
    /\ pc \in [Workers -> {"loop", "wait", "full", "parking", "parked", "pop", "record", "bytes",
                           "reindex", "reindexed", "flush", "signal", "enact", "dec", "clean",
                           "failed", "shutdown", "stored", "done"}]
    /\ flushed \in [read_next : BOOLEAN, cleanup : BOOLEAN]
    /\ dropper \in {"open", "stored", "join", "closed"}

(* The size of the log queue is the number of records that are logged and not   *)
(* enacted, up to the one record the log worker has yet to count and the one    *)
(* the commit worker has yet to subtract; so it goes below zero by at most one  *)
(* and returns to zero ("may underflow occasionally, but is bound for 0").      *)
LogQueueExact ==
    logged_bytes + (IF pc["log"] \in {"bytes", "reindexed"} THEN 1 ELSE 0)
        = appending + flushing + reading + (IF At("commit", "dec") THEN 1 ELSE 0)

(* A log worker that waits because the log queue is full goes on: the records   *)
(* it waits for are flushed and enacted.                                        *)
BackPressureReleases == At("log", "parked") ~> ~At("log", "parked")


(* Every queued commit is logged.                                               *)
QueueDrains == queue_bytes > 0 ~> (queue_bytes = 0 \/ bg_err)

(* "If the queue is full `commit` will block" (MAX_COMMIT_QUEUE_BYTES): a call  *)
(* does not stay blocked forever while the queue is not full.                   *)
BlocksOnlyWhenFull ==
    \A t \in Committers :
        ~<>[](committers[t] = "waiting" /\ queue_bytes <= MAX_COMMIT_QUEUE_BYTES)

(* "Pending commits. This may not grow beyond `MAX_COMMIT_QUEUE_BYTES` bytes."  *)
QueueBounded == queue_bytes <= MAX_COMMIT_QUEUE_BYTES

(* Dropping Db ends: kill_logs comes to "finish logged records and proceed to   *)
(* log and enact queued commits".                                               *)
ShutdownCompletes == dropper = "stored" ~> dropper = "closed"

=============================================================================
