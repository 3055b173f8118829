-------------------------------- MODULE Wal --------------------------------
(***************************************************************************)
(* The write-ahead log across crashes: log files from their first record   *)
(* to their truncation (Log), their enactment into the tables and the      *)
(* flush of the tables (enact_logs, clean_logs), the orderly shutdown      *)
(* (kill_logs), and the replay when the database is opened again           *)
(* (Log::open, replay_all_logs).                                           *)
(*                                                                         *)
(* A log file is the sequence of its complete records, how many of them    *)
(* sync_data made durable, and whether a cut-off record follows them.  An  *)
(* emptied file in log_pool holds nothing, so the pool is left out.  The   *)
(* tables are a set of cells, each written and fsynced on its own; a cell  *)
(* holds the number of the record that wrote it.                           *)
(*                                                                         *)
(* A process crash keeps what was written and may cut the record being     *)
(* appended.  A power loss also cuts each log anywhere after its synced    *)
(* part, and leaves in each cell any of the values written since its last  *)
(* fsync.  Creating, truncating and removing files is assumed to be        *)
(* durable in the order it is done.                                        *)
(***************************************************************************)
EXTENDS Naturals, Sequences, TLC

CONSTANTS Cells,             \* pages and slots of the index and value tables
          MaxRecords,        \* bound: records in the database's history
          Settings,          \* how the database runs and ends: records [sync, crash, crashes] of
                             \* Options::sync_wal and sync_data, the kind of crash, "process" or
                             \* "power", and the bound on the number of crashes
          TornRecords,       \* can a crash cut a record in two?
          OrderedWriteback,  \* does unsynced log data become durable in the order it was written?
          AtomicWrites,      \* does no flush of a file come between the two steps of write_at?
          QueuedCells,       \* cells of indexes in the reindex queue
          KeepLogs           \* KEEP_LOGS

ASSUME WalAssumption ==
    /\ MaxRecords \in Nat /\ KeepLogs \in Nat
    /\ Settings \subseteq [sync : BOOLEAN, crash : {"process", "power"}, crashes : Nat]
    /\ {TornRecords, OrderedWriteback, AtomicWrites} \subseteq BOOLEAN
    /\ QueuedCells \subseteq Cells

VARIABLES
    setting,         \* the one of Settings that holds
    mode,            \* "down", "replay", "clear" (clear_replay_logs), "run", "close" (kill_logs)
    hist,            \* history: hist[n] is the set of cells record n writes
    next_record_id,  \* Log.next_record_id
    last_enacted,    \* DbInner.last_enacted
    appending,       \* Log.appending: <<>> or <<log>>, and so the next two
    flushing,        \* Log.flushing
    reading,         \* Log.reading
    read_pos,        \* records of reading that are enacted
    reading_state,   \* Log.reading_state
    cleanup_queue,   \* Log.cleanup_queue
    replay_queue,    \* Log.replay_queue; while "down", the logs on disk
    enactor,         \* [pc, left, marked]: where enact_logs is, cells of the record still to be
                     \* written, and the one whose file is already marked dirty
    flusher,         \* where flush_one is: "take", "rotate" or "sync"
    cleaner,         \* [pc, count, left]: where clean_logs is
    closer,          \* calls of flush_logs that kill_logs has made
    tables,          \* tables[c]: record last written to the cell
    unsynced,        \* unsynced[c]: values the cell may have after a power loss
    dirty,           \* cells whose TableFile.dirty is set
    crashes,         \* number of crashes so far
    durable,         \* history: records that a power loss cannot take
    required,        \* history: records that the replay must bring back
    exposed          \* history: a crash came while the logs on disk did not cover the tables

logVars == <<appending, flushing, reading, read_pos, reading_state, cleanup_queue, replay_queue>>
tableVars == <<tables, unsynced, dirty>>
ghostVars == <<crashes, durable, required, exposed>>
vars == <<setting, mode, hist, next_record_id, last_enacted, appending, flushing, reading, read_pos,
          reading_state, cleanup_queue, replay_queue, enactor, flusher, cleaner, closer, tables,
          unsynced, dirty, crashes, durable, required, exposed>>

IdleEnactor == [pc |-> "idle", left |-> {}, marked |-> {}]
Enacting(cells) == [pc |-> "enacting", left |-> cells, marked |-> {}]
IdleCleaner == [pc |-> "idle", count |-> 0, left |-> {}]

Init ==
    /\ setting \in Settings
    /\ mode = "run"
    /\ hist = <<>>
    /\ next_record_id = 1
    /\ last_enacted = 1
    /\ appending = <<>> /\ flushing = <<>> /\ reading = <<>> /\ read_pos = 0
    /\ reading_state = "Idle"
    /\ cleanup_queue = <<>> /\ replay_queue = <<>>
    /\ enactor = IdleEnactor
    /\ flusher = "take"
    /\ cleaner = IdleCleaner
    /\ closer = 0
    /\ tables = [c \in Cells |-> 0]
    /\ unsynced = [c \in Cells |-> {0}]
    /\ dirty = {}
    /\ crashes = 0 /\ durable = 0 /\ required = 0 /\ exposed = FALSE

-----------------------------------------------------------------------------
(* The log worker.                                                         *)

\* The log worker runs, or kill_logs is in process_commits.
Logging == mode = "run" \/ (mode = "close" /\ closer = 1)

\* Log::end_record: the record goes to the end of the appending log, or of a new one.
end_record(cells) ==
    /\ Logging
    /\ Len(hist) < MaxRecords
    /\ hist' = Append(hist, cells)
    /\ next_record_id' = next_record_id + 1
    /\ LET record == [id |-> next_record_id, number |-> Len(hist'), cells |-> cells]
       IN  appending' =
               IF appending = <<>>
               THEN <<[first |-> record.id, records |-> <<record>>, synced |-> 0, torn |-> FALSE]>>
               ELSE <<[appending[1] EXCEPT !.records = Append(@, record)]>>
    /\ UNCHANGED <<mode, last_enacted, flushing, reading, read_pos, reading_state, cleanup_queue,
                   replay_queue, enactor, flusher, cleaner, closer, tableVars, ghostVars>>

-----------------------------------------------------------------------------
(* The flush worker: flush_logs, Log::flush_one.                           *)

Synced(file) == [file EXCEPT !.synced = Len(file.records)]
LastNumber(file) == file.records[Len(file.records)].number

\* Mutant of flush_take: the log that was read stays with the reader.
flush_take_keep ==
    /\ mode = "run" /\ flusher = "take"
    /\ flushing # <<>>
    /\ reading_state # "Reading"
    /\ reading' = flushing \o reading /\ read_pos' = 0 /\ reading_state' = "Reading"
    /\ flushing' = <<>>
    /\ flusher' = "rotate"
    /\ UNCHANGED <<mode, hist, next_record_id, last_enacted, appending, cleanup_queue, replay_queue,
                   enactor, cleaner, closer, tableVars, ghostVars>>

\* The log being flushed is done: once the reader has finished, it becomes the next to be
\* read and the one that was read goes to the cleanup queue.
flush_take ==
    /\ mode = "run" /\ flusher = "take"
    /\ flushing # <<>>
    /\ reading_state # "Reading"
    /\ cleanup_queue' = cleanup_queue \o reading
    /\ reading' = flushing /\ read_pos' = 0 /\ reading_state' = "Reading"
    /\ flushing' = <<>>
    /\ flusher' = "rotate"
    /\ UNCHANGED <<mode, hist, next_record_id, last_enacted, appending, replay_queue, enactor,
                   cleaner, closer, tableVars, ghostVars>>

\* The appending log, if it is larger than min_size, is the next to be flushed.
flush_rotate ==
    /\ mode = "run"
    /\ flusher = "rotate" \/ (flusher = "take" /\ flushing = <<>>)
    /\ \/ appending # <<>> /\ flushing' = appending /\ appending' = <<>> /\ flusher' = "sync"
       \/ flusher' = "take" /\ UNCHANGED <<flushing, appending>>
    /\ UNCHANGED <<mode, hist, next_record_id, last_enacted, reading, read_pos, reading_state,
                   cleanup_queue, replay_queue, enactor, cleaner, closer, tableVars, ghostVars>>


flush_sync ==
    /\ mode = "run" /\ flusher = "sync"
    /\ IF setting.sync
       THEN flushing' = <<Synced(flushing[1])>> /\ durable' = LastNumber(flushing[1])
       ELSE UNCHANGED <<flushing, durable>>
    /\ flusher' = "take"
    /\ UNCHANGED <<mode, hist, next_record_id, last_enacted, appending, reading, read_pos,
                   reading_state, cleanup_queue, replay_queue, enactor, cleaner, closer, tableVars,
                   crashes, required, exposed>>

-----------------------------------------------------------------------------
(* The commit worker, and the loops of kill_logs: enact_logs(false).       *)
(* Replay, enact_logs(true), shares enact_plan and end_read.               *)

Running == mode = "run" \/ (mode = "close" /\ cleaner.pc = "idle")

\* Log::read_next: begin the next record, or find the end of the log.
read_next ==
    /\ Running
    /\ reading_state = "Reading" /\ enactor = IdleEnactor
    /\ IF read_pos < Len(reading[1].records)
       THEN enactor' = Enacting(reading[1].records[read_pos + 1].cells) /\ UNCHANGED reading_state
       ELSE reading_state' = "Idle" /\ UNCHANGED enactor
    /\ UNCHANGED <<mode, hist, next_record_id, last_enacted, appending, flushing, reading,
                   read_pos, cleanup_queue, replay_queue, flusher, cleaner, closer, tableVars,
                   ghostVars>>

\* Column::enact_plan for a cell, TableFile::write_at: the file is marked dirty and then written.
write_at(c) ==
    /\ enactor.pc = "enacting" /\ c \in enactor.left /\ enactor.marked = {}
    /\ enactor' = [enactor EXCEPT !.marked = {c}]
    /\ dirty' = dirty \cup {c}
    /\ UNCHANGED <<mode, hist, next_record_id, last_enacted, logVars, flusher, cleaner, closer, tables,
                   unsynced, ghostVars>>
enact_plan(c) ==
    /\ c \in enactor.marked
    /\ LET number == reading[1].records[read_pos + 1].number
       IN  /\ tables' = [tables EXCEPT ![c] = number]
           /\ unsynced' = [unsynced EXCEPT ![c] = @ \cup {number}]
    /\ enactor' = Enacting(enactor.left \ {c})
    /\ UNCHANGED <<mode, hist, next_record_id, last_enacted, logVars, flusher, cleaner, closer, dirty,
                   ghostVars>>

\* The end of enact_logs, Log::end_read.
end_read ==
    /\ enactor = Enacting({})
    /\ LET id == reading[1].records[read_pos + 1].id
       IN  /\ last_enacted' = id
           /\ next_record_id' = IF id >= next_record_id THEN id + 1 ELSE next_record_id
    /\ read_pos' = read_pos + 1
    /\ enactor' = IdleEnactor
    /\ UNCHANGED <<mode, hist, appending, flushing, reading, reading_state, cleanup_queue,
                   replay_queue, flusher, cleaner, closer, tableVars, ghostVars>>

-----------------------------------------------------------------------------
(* The cleanup worker: DbInner::clean_logs, Log::clean_logs.               *)

\* Decide how many logs to clean, before the tables are flushed.
clean_begin ==
    /\ mode = "run" /\ cleaner.pc = "idle"
    /\ LET keep == IF setting.sync THEN 0 ELSE KeepLogs
       IN  /\ Len(cleanup_queue) > keep
           /\ cleaner' = [pc |-> "clean", count |-> Len(cleanup_queue) - keep,
                          left |-> IF setting.sync THEN Cells \ QueuedCells ELSE {}]
    /\ UNCHANGED <<mode, hist, next_record_id, last_enacted, logVars, enactor, flusher, closer,
                   tableVars, ghostVars>>

\* Column::flush, one table after the other; TableFile::flush does nothing to a file not dirty.
clean_flush(c) ==
    /\ cleaner.pc = "clean" /\ c \in cleaner.left
    /\ AtomicWrites => c \notin enactor.marked
    /\ unsynced' = [unsynced EXCEPT ![c] = IF c \in dirty THEN {tables[c]} ELSE @]
    /\ dirty' = dirty \ {c}
    /\ cleaner' = [cleaner EXCEPT !.left = @ \ {c}]
    /\ UNCHANGED <<mode, hist, next_record_id, last_enacted, logVars, enactor, flusher, closer,
                   tables, ghostVars>>

\* Log::clean_logs: truncate the logs, the oldest first.
clean_truncate ==
    /\ cleaner.pc = "clean" /\ cleaner.left = {}
    /\ IF cleaner.count > 0
       THEN /\ cleanup_queue' = Tail(cleanup_queue)
            /\ cleaner' = [cleaner EXCEPT !.count = @ - 1]
            /\ durable' = IF setting.sync /\ LastNumber(cleanup_queue[1]) > durable
                          THEN LastNumber(cleanup_queue[1]) ELSE durable
       ELSE /\ cleaner' = IdleCleaner
            /\ UNCHANGED <<cleanup_queue, durable>>
    /\ UNCHANGED <<mode, hist, next_record_id, last_enacted, appending, flushing, reading,
                   read_pos, reading_state, replay_queue, enactor, flusher, closer, tableVars,
                   crashes, required, exposed>>

-----------------------------------------------------------------------------
(* Shutdown: Drop for Db, kill_logs.                                       *)

\* Drop: the workers have ended.
shutdown ==
    /\ mode = "run"
    /\ flusher = "take" /\ cleaner.pc = "idle" /\ enactor = IdleEnactor
    /\ mode' = "close" /\ closer' = 0
    /\ UNCHANGED <<hist, next_record_id, last_enacted, logVars, enactor, flusher, cleaner, tableVars,
                   ghostVars>>

\* while self.enact_logs(false)? {}; self.flush_logs(0)?
\* Before the second call process_commits logs what is still queued (end_record).
kill_flush ==
    /\ mode = "close" /\ closer < 2
    /\ reading_state # "Reading"
    /\ closer' = closer + 1
    /\ IF flushing # <<>>
       THEN /\ cleanup_queue' = cleanup_queue \o reading
            /\ reading' = flushing /\ read_pos' = 0 /\ reading_state' = "Reading"
       ELSE UNCHANGED <<cleanup_queue, reading, read_pos, reading_state>>
    /\ flushing' = IF appending # <<>> /\ setting.sync THEN <<Synced(appending[1])>> ELSE appending
    /\ durable' = IF appending # <<>> /\ setting.sync THEN LastNumber(appending[1]) ELSE durable
    /\ appending' = <<>>
    /\ UNCHANGED <<mode, hist, next_record_id, last_enacted, replay_queue, enactor, flusher, cleaner,
                   tableVars, crashes, required, exposed>>

\* clean_all_logs: flush every table, then clean every log in the queue.
clean_all_logs ==
    /\ mode = "close" /\ closer = 2 /\ cleaner.pc = "idle"
    /\ reading_state # "Reading"
    /\ closer' = 3
    /\ cleaner' = [pc |-> "clean", count |-> Len(cleanup_queue), left |-> Cells \ QueuedCells]
    /\ UNCHANGED <<mode, hist, next_record_id, last_enacted, logVars, enactor, flusher, tableVars,
                   ghostVars>>

\* Log::kill_logs: remove the log that was read last, and the process is gone.
kill_logs ==
    /\ mode = "close" /\ closer = 3 /\ cleaner.pc = "idle"
    /\ mode' = "down"
    /\ replay_queue' = flushing
    /\ reading' = <<>> /\ flushing' = <<>>
    /\ required' = Len(hist)
    /\ durable' = IF flushing = <<>> THEN Len(hist) ELSE durable
    /\ UNCHANGED <<hist, next_record_id, last_enacted, appending, read_pos, reading_state,
                   cleanup_queue, enactor, flusher, cleaner, closer, tableVars, crashes, exposed>>

-----------------------------------------------------------------------------
(* Opening the database: Log::open, DbInner::open, replay_all_logs.        *)

\* Mutant of open: the first record of the oldest log is taken as enacted.
open_off_by_one ==
    /\ mode = "down"
    /\ LET logs == SelectSeq(replay_queue, LAMBDA file : file.records # <<>> \/ file.torn)
       IN  /\ replay_queue' = SortSeq(logs, LAMBDA a, b : a.first < b.first)
           /\ last_enacted' = IF logs = <<>> THEN 1 ELSE replay_queue'[1].first
    /\ next_record_id' = 1
    /\ mode' = "replay"
    /\ read_pos' = 0 /\ reading_state' = "Idle" /\ enactor' = IdleEnactor
    /\ flusher' = "take" /\ cleaner' = IdleCleaner /\ closer' = 0
    /\ UNCHANGED <<hist, appending, flushing, reading, cleanup_queue, tableVars, ghostVars>>

\* Log::open removes empty logs and sorts the others by their first record.
open ==
    /\ mode = "down"
    /\ LET logs == SelectSeq(replay_queue, LAMBDA file : file.records # <<>> \/ file.torn)
       IN  /\ replay_queue' = SortSeq(logs, LAMBDA a, b : a.first < b.first)
           /\ last_enacted' = IF logs = <<>> THEN 1 ELSE replay_queue'[1].first - 1
    /\ next_record_id' = 1
    /\ mode' = "replay"
    /\ read_pos' = 0 /\ reading_state' = "Idle" /\ enactor' = IdleEnactor
    /\ flusher' = "take" /\ cleaner' = IdleCleaner /\ closer' = 0
    /\ UNCHANGED <<hist, appending, flushing, reading, cleanup_queue, tableVars, ghostVars>>

\* Log::replay_next: the log that was read goes to the cleanup queue, the next one is read.
replay_next ==
    /\ mode = "replay" /\ reading_state = "Idle"
    /\ replay_queue # <<>>
    /\ cleanup_queue' = cleanup_queue \o reading
    /\ reading' = <<Head(replay_queue)>> /\ read_pos' = 0 /\ reading_state' = "Reading"
    /\ replay_queue' = Tail(replay_queue)
    /\ UNCHANGED <<mode, hist, next_record_id, last_enacted, appending, flushing, enactor, flusher,
                   cleaner, closer, tableVars, ghostVars>>

\* enact_logs(true): a record is validated as a whole before it is enacted.  One that is out
\* of sequence or cut off ends the replay.
replay_read ==
    /\ mode = "replay" /\ reading_state = "Reading" /\ enactor = IdleEnactor
    /\ LET file == reading[1]
       IN  \/ /\ read_pos < Len(file.records)
              /\ file.records[read_pos + 1].id = last_enacted + 1
              /\ enactor' = Enacting(file.records[read_pos + 1].cells)
              /\ UNCHANGED <<mode, reading_state>>
           \/ /\ IF read_pos < Len(file.records)
                 THEN file.records[read_pos + 1].id # last_enacted + 1
                 ELSE file.torn
              /\ mode' = "clear"
              /\ UNCHANGED <<enactor, reading_state>>
           \/ /\ read_pos = Len(file.records) /\ ~file.torn
              /\ reading_state' = "Idle"
              /\ UNCHANGED <<mode, enactor>>
    /\ UNCHANGED <<hist, next_record_id, last_enacted, appending, flushing, reading, read_pos,
                   cleanup_queue, replay_queue, flusher, cleaner, closer, tableVars, ghostVars>>

\* Log::clear_replay_logs: remove the log being read, then the others one by one.
clear_replay_logs ==
    /\ mode = "clear"
    /\ \/ /\ reading # <<>>
          /\ reading' = <<>> /\ UNCHANGED <<mode, replay_queue, reading_state>>
       \/ /\ reading = <<>> /\ replay_queue # <<>>
          /\ replay_queue' = Tail(replay_queue) /\ UNCHANGED <<mode, reading, reading_state>>
       \/ /\ reading = <<>> /\ replay_queue = <<>>
          /\ mode' = "replay" /\ reading_state' = "Idle" /\ UNCHANGED <<reading, replay_queue>>
    /\ UNCHANGED <<hist, next_record_id, last_enacted, appending, flushing, read_pos,
                   cleanup_queue, enactor, flusher, cleaner, closer, tableVars, ghostVars>>

\* The tables after the first n records of the history.
StateAt(n) ==
    [c \in Cells |-> LET writers == {i \in 1 .. n : c \in hist[i]}
                     IN  IF writers = {} THEN 0 ELSE CHOOSE i \in writers : \A j \in writers : j <= i]

Replayed == mode = "replay" /\ reading_state = "Idle" /\ replay_queue = <<>>
Restored(n) == n \in 0 .. Len(hist) /\ tables = StateAt(n)

\* The end of replay_all_logs: the last log goes to the cleanup queue and the workers start.
\* The history goes on from what was restored.
start ==
    /\ Replayed
    /\ cleanup_queue' = cleanup_queue \o reading
    /\ reading' = <<>>
    /\ mode' = "run"
    /\ \/ \E n \in 0 .. Len(hist) : /\ Restored(n) /\ \A m \in n + 1 .. Len(hist) : ~Restored(m)
                                  /\ hist' = SubSeq(hist, 1, n)
       \/ (\A n \in 0 .. Len(hist) : ~Restored(n)) /\ hist' = hist
    /\ UNCHANGED <<next_record_id, last_enacted, appending, flushing, read_pos, reading_state,
                   replay_queue, enactor, flusher, cleaner, closer, tableVars, ghostVars>>

-----------------------------------------------------------------------------
(* Crashes.                                                                *)

\* The logs on disk, the oldest records first; the record being appended may be cut off.
PartOfRecord ==
    IF appending = <<>>
    THEN <<[first |-> next_record_id, records |-> <<>>, synced |-> 0, torn |-> TRUE]>>
    ELSE <<[appending[1] EXCEPT !.torn = TRUE]>>
Disk(torn) ==
    cleanup_queue \o reading \o replay_queue \o flushing
        \o (IF torn THEN PartOfRecord ELSE appending)

Records(logs) == UNION {{logs[i].records[j] : j \in DOMAIN logs[i].records} : i \in DOMAIN logs}
Numbers(logs) == {r.number : r \in Records(logs)}
SyncedNumbers(logs) ==
    UNION {{logs[i].records[j].number : j \in 1 .. logs[i].synced} : i \in DOMAIN logs}
Newest == CHOOSE n \in {tables[c] : c \in Cells} : \A c \in Cells : tables[c] <= n

\* A record was enacted whose log is gone while the log of an earlier one is still there.
Gap == \E kept \in {Numbers(Disk(FALSE))} : \E n \in kept : \E m \in n .. Newest : m \notin kept
\* An enacted record is in a log that is not synced, or in no log while a cell is not fsynced.
Uncovered ==
    LET synced == SyncedNumbers(Disk(FALSE))
    IN  \/ \E n \in Numbers(Disk(FALSE)) \ synced : n <= Newest
        \/ \E c \in Cells : unsynced[c] # {tables[c]} /\ tables[c] \notin synced

MayCrash(kind) == setting.crash = kind /\ crashes < setting.crashes
Crash(kind, logs, cells, unsynced_cells, survive) ==
    /\ crashes' = crashes + 1
    /\ replay_queue' = logs
    /\ tables' = cells
    /\ unsynced' = unsynced_cells /\ dirty' = {}
    /\ required' = survive
    /\ exposed' = (exposed \/ Gap \/ (kind = "power" /\ Uncovered))
    /\ mode' = "down"
    /\ appending' = <<>> /\ flushing' = <<>> /\ reading' = <<>> /\ cleanup_queue' = <<>>
    /\ read_pos' = 0 /\ reading_state' = "Idle" /\ enactor' = IdleEnactor
    /\ flusher' = "take" /\ cleaner' = IdleCleaner /\ closer' = 0
    /\ UNCHANGED <<hist, next_record_id, last_enacted, durable>>

\* The process is killed, or exits after a background error: files are as they were written.
process_crash ==
    /\ MayCrash("process") /\ mode # "down"
    /\ \E torn \in {FALSE, TornRecords /\ Logging} :
           Crash("process", Disk(torn), tables, unsynced,
                 IF mode \in {"run", "close"} THEN Len(hist) ELSE required)

\* The machine stops: each log is cut somewhere after its synced part, and each cell has one of
\* the values it may have.
power_loss ==
    /\ MayCrash("power")
    /\ \E D \in {Disk(part) : part \in {FALSE, TornRecords /\ Logging}} :
       LET Complete(i) == Len(D[i].records)
           CutAt(i, n) ==
               [j \in DOMAIN D |-> IF j < i THEN Complete(j) ELSE IF j = i THEN n ELSE D[j].synced]
           Cuts == IF OrderedWriteback
                   THEN {CutAt(Len(D) + 1, 0)} \cup
                        UNION {{CutAt(i, n) : n \in D[i].synced .. Complete(i)} : i \in DOMAIN D}
                   ELSE {f \in [DOMAIN D -> 0 .. MaxRecords] :
                            \A i \in DOMAIN D : f[i] \in D[i].synced .. Complete(i)}
           Tearable(cut) == {i \in DOMAIN D : TornRecords /\ (D[i].torn \/ cut[i] < Complete(i))}
       IN  \E cut \in Cuts : \E torn \in SUBSET Tearable(cut) :
           /\ OrderedWriteback => \A i, j \in DOMAIN D :
                  i < j /\ (cut[i] < Complete(i) \/ i \in torn) => cut[j] = D[j].synced /\ j \notin torn
           /\ \E cells \in {f \in [Cells -> UNION {unsynced[c] : c \in Cells}] :
                              \A c \in Cells : f[c] \in unsynced[c]} :
                  Crash("power",
                        [i \in DOMAIN D |->
                            [first |-> D[i].first, records |-> SubSeq(D[i].records, 1, cut[i]),
                             synced |-> cut[i], torn |-> i \in torn]],
                        cells, [c \in Cells |-> {cells[c]}], durable)

-----------------------------------------------------------------------------

Step ==
    \/ \E cells \in SUBSET Cells \ {{}} : end_record(cells)
    \/ flush_take \/ flush_rotate \/ flush_sync
    \/ read_next \/ end_read
    \/ \E c \in Cells : write_at(c) \/ enact_plan(c) \/ clean_flush(c)
    \/ clean_begin \/ clean_truncate
    \/ shutdown \/ kill_flush \/ clean_all_logs \/ kill_logs
    \/ open \/ replay_next \/ replay_read \/ clear_replay_logs \/ start
    \/ process_crash \/ power_loss

Next == Step /\ UNCHANGED setting

Spec == Init /\ [][Next]_vars

CellSymmetry == Permutations(Cells)

-----------------------------------------------------------------------------
(* Properties.                                                             *)

LogFiles == [first : Nat, records : Seq([id : Nat, number : Nat, cells : SUBSET Cells]),
             synced : Nat, torn : BOOLEAN]

(* The type invariant: there is at most one log in each of appending, flushing  *)
(* and reading, as in struct Log, and every worker is at one of its steps.      *)
TypeOK ==
    /\ mode \in {"down", "replay", "clear", "run", "close"}
    /\ hist \in Seq(SUBSET Cells)
    /\ next_record_id \in Nat /\ last_enacted \in Nat /\ read_pos \in Nat
    /\ {appending, flushing, reading, cleanup_queue, replay_queue} \subseteq Seq(LogFiles)
    /\ Len(appending) <= 1 /\ Len(flushing) <= 1 /\ Len(reading) <= 1
    /\ reading_state \in {"Idle", "Reading"}
    /\ enactor \in [pc : {"idle", "enacting"}, left : SUBSET Cells, marked : SUBSET Cells]
    /\ flusher \in {"take", "rotate", "sync"}
    /\ cleaner \in [pc : {"idle", "clean"}, count : Nat, left : SUBSET Cells]
    /\ closer \in 0 .. 3
    /\ tables \in [Cells -> Nat] /\ unsynced \in [Cells -> SUBSET Nat] /\ dirty \subseteq Cells
    /\ {crashes, durable, required} \subseteq Nat /\ exposed \in BOOLEAN

(* After a restart the tables hold the effect of a whole number of records, in  *)
(* order, and no record that had to survive is missing: after a process crash   *)
(* none that was logged, after a power loss none whose log was synced.  Holds   *)
(* unless a crash came while the logs did not cover the tables.                 *)
RecoveredPrefix ==
    Replayed /\ ~exposed => \E n \in required .. Len(hist) : Restored(n)

(* "Database is restored to consistent state if IO is interrupted at any point" *)
(* (README.md): after every restart the tables hold the effect of some number   *)
(* of records, in order.                                                        *)
RestoredConsistent ==
    Replayed => \E n \in 0 .. Len(hist) : Restored(n)


(* "fsync WAL to disk before committing any changes" (Options::sync_wal): no    *)
(* record is enacted before it is durable in its log.                           *)
SyncBeforeEnact ==
    setting.sync /\ enactor.pc = "enacting" => read_pos < reading[1].synced

(* "Finish logged records and proceed to log and enact queued commits"          *)
(* (kill_logs): after an orderly shutdown no log is left to be replayed.        *)
ClosedEnacted == mode = "down" /\ crashes = 0 => replay_queue = <<>>

=============================================================================
