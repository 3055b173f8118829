------------------------------ MODULE Pipeline ------------------------------
(***************************************************************************)
(* The path of a commit through a running Db, in memory: commit_raw puts   *)
(* it in the commit queue and the commit overlay; the log worker turns it  *)
(* into a log record and publishes the record in the log overlay; the      *)
(* commit worker enacts the record, one table entry at a time, and takes   *)
(* it out of the log overlay.  Meanwhile get searches the commit overlay,  *)
(* the log overlay and the tables, in that order.                          *)
(*                                                                         *)
(* A column is abstracted to one table entry per key, and a value to the   *)
(* id of the commit that wrote it (0: the value before any commit), so a   *)
(* removal is a version like any other.  Which file a record is in, fsync  *)
(* and restarts are the business of module Wal; here a record can be       *)
(* enacted as soon as it is logged, which allows more interleavings than   *)
(* the log files do.                                                       *)
(***************************************************************************)
EXTENDS Naturals, Sequences, FiniteSets

CONSTANTS Keys,        \* keys of the store
          Readers,     \* threads that call get
          MaxCommits,  \* bound: number of commits
          MaxReindex   \* bound: number of records written by process_reindex

ASSUME BoundsAssumption == MaxCommits \in Nat /\ MaxReindex \in Nat

VARIABLES
    record_id,       \* CommitQueue.record_id
    commits,         \* CommitQueue.commits, oldest first
    commit_overlay,  \* commit_overlay[k]: id of the commit whose value is there, 0 if none
    bg_err,          \* DbInner.bg_err is set
    log_worker,      \* [pc, commit]: where process_commits is, and the commit it took
    log,             \* log[i]: the record with record id i
    overlays,        \* Log.overlays: overlays[k] is the record id of the entry, 0 if none
    enacted,         \* records read to their end by the commit worker
    last_enacted,    \* DbInner.last_enacted
    next_reindex,    \* DbInner.next_reindex
    commit_worker,   \* [pc, left]: where enact_logs is, entries still to be written
    tables,          \* tables[k]: version in the value and index tables
    readers          \* readers[r]: [pc, key, version] of a call of get

queueVars == <<record_id, commits, commit_overlay>>
logVars == <<log, overlays>>
enactVars == <<enacted, last_enacted, commit_worker, tables>>
vars == <<record_id, commits, commit_overlay, bg_err, log_worker, log, overlays, enacted,
          last_enacted, next_reindex, commit_worker, tables, readers>>

Commit == [id : Nat, keys : SUBSET Keys]
Record == [commit : Nat, keys : SUBSET Keys, drop : BOOLEAN]
NoCommit == [id |-> 0, keys |-> {}]
IdleReader == [pc |-> "idle", key |-> "none", version |-> 0]

\* DbInner::open without logs to replay: last_enacted is 2 - 1 although no record exists.
Init ==
    /\ record_id = 0
    /\ commits = <<>>
    /\ commit_overlay = [k \in Keys |-> 0]
    /\ bg_err = FALSE
    /\ log_worker = [pc |-> "idle", commit |-> NoCommit]
    /\ log = <<>>
    /\ overlays = [k \in Keys |-> 0]
    /\ enacted = 0
    /\ last_enacted = 1
    /\ next_reindex = 1
    /\ commit_worker = [pc |-> "idle", left |-> {}]
    /\ tables = [k \in Keys |-> 0]
    /\ readers = [r \in Readers |-> IdleReader]

-----------------------------------------------------------------------------
(* The RwLock around commit_overlay: a call of get holds it for reading    *)
(* from its first lookup until it returns.                                 *)

ReadLocked == \E r \in Readers : readers[r].pc # "idle"

(* Callers of commit.                                                      *)

\* Mutant of commit_raw: the commit overlay is not locked.
commit_raw_unlocked(keys) ==
    /\ record_id < MaxCommits
    /\ ~bg_err
    /\ record_id' = record_id + 1
    /\ LET id == record_id' + 1
       IN  /\ commits' = Append(commits, [id |-> id, keys |-> keys])
           /\ commit_overlay' = [k \in Keys |-> IF k \in keys THEN id ELSE commit_overlay[k]]
    /\ UNCHANGED <<bg_err, log_worker, logVars, enactVars, next_reindex, readers>>

\* DbInner::commit_raw, IndexedChangeSet::copy_to_overlay.
commit_raw(keys) ==
    /\ record_id < MaxCommits
    /\ ~bg_err
    /\ ~ReadLocked
    /\ record_id' = record_id + 1
    /\ LET id == record_id' + 1
       IN  /\ commits' = Append(commits, [id |-> id, keys |-> keys])
           /\ commit_overlay' = [k \in Keys |-> IF k \in keys THEN id ELSE commit_overlay[k]]
    /\ UNCHANGED <<bg_err, log_worker, logVars, enactVars, next_reindex, readers>>

-----------------------------------------------------------------------------
(* The log worker.                                                         *)

\* process_commits: take the oldest commit from the queue.
pop_commit ==
    /\ log_worker.pc = "idle"
    /\ commits # <<>>
    /\ log_worker' = [pc |-> "popped", commit |-> Head(commits)]
    /\ commits' = Tail(commits)
    /\ UNCHANGED <<record_id, commit_overlay, bg_err, logVars, enactVars, next_reindex, readers>>

\* Log::end_record: append the record to the log and extend the log overlay with its entries.
AppendRecord(record) ==
    /\ log' = Append(log, record)
    /\ overlays' = [k \in Keys |-> IF k \in record.keys THEN Len(log) + 1 ELSE overlays[k]]

\* process_commits: plan the writes of the commit and end the record.
end_record ==
    /\ log_worker.pc = "popped"
    /\ AppendRecord([commit |-> log_worker.commit.id, keys |-> log_worker.commit.keys,
                     drop |-> FALSE])
    /\ log_worker' = [log_worker EXCEPT !.pc = "logged"]
    /\ UNCHANGED <<queueVars, bg_err, enactVars, next_reindex, readers>>

\* Mutant of clean_overlay: the entry of a later commit is removed too.
clean_overlay_any ==
    /\ log_worker.pc = "logged"
    /\ ~ReadLocked
    /\ commit_overlay' = [k \in Keys |->
           IF k \in log_worker.commit.keys THEN 0 ELSE commit_overlay[k]]
    /\ next_reindex' \in {next_reindex, Len(log)}
    /\ log_worker' = [pc |-> "idle", commit |-> NoCommit]
    /\ UNCHANGED <<record_id, commits, bg_err, logVars, enactVars, readers>>

\* Mutant of clean_overlay: the entry's commit id is compared with the log's record id.
clean_overlay_record_id ==
    /\ log_worker.pc = "logged"
    /\ ~ReadLocked
    /\ commit_overlay' = [k \in Keys |->
           IF k \in log_worker.commit.keys /\ commit_overlay[k] = Len(log)
           THEN 0 ELSE commit_overlay[k]]
    /\ next_reindex' \in {next_reindex, Len(log)}
    /\ log_worker' = [pc |-> "idle", commit |-> NoCommit]
    /\ UNCHANGED <<record_id, commits, bg_err, logVars, enactVars, readers>>

\* process_commits: take the commit out of the commit overlay, unless a later commit has
\* replaced its entry; start a reindex when the plan asked for one.
clean_overlay ==
    /\ log_worker.pc = "logged"
    /\ ~ReadLocked
    /\ commit_overlay' = [k \in Keys |->
           IF k \in log_worker.commit.keys /\ commit_overlay[k] = log_worker.commit.id
           THEN 0 ELSE commit_overlay[k]]
    /\ next_reindex' \in {next_reindex, Len(log)}
    /\ log_worker' = [pc |-> "idle", commit |-> NoCommit]
    /\ UNCHANGED <<record_id, commits, bg_err, logVars, enactVars, readers>>

\* process_reindex: when the column has entries to move or an index to drop they go into a
\* record of their own (which may need another reindex); otherwise there is nothing to do.
process_reindex ==
    /\ log_worker.pc = "idle"
    /\ next_reindex # 0 /\ next_reindex <= last_enacted
    /\ \/ /\ Cardinality({i \in DOMAIN log : log[i].commit = 0}) < MaxReindex
          /\ \E drop \in BOOLEAN : AppendRecord([commit |-> 0, keys |-> {}, drop |-> drop])
          /\ next_reindex' \in {next_reindex, Len(log) + 1}
       \/ /\ next_reindex' = 0
          /\ UNCHANGED logVars
    /\ UNCHANGED <<queueVars, bg_err, log_worker, enactVars, readers>>

\* An error in process_commits or process_reindex ends the worker; store_err keeps it and shuts
\* the Db down.
log_worker_error ==
    /\ log_worker.pc \in {"idle", "popped"}
    /\ log_worker' = [log_worker EXCEPT !.pc = "stopped"]
    /\ bg_err' = TRUE
    /\ UNCHANGED <<queueVars, logVars, enactVars, next_reindex, readers>>

-----------------------------------------------------------------------------
(* The commit worker: enact_logs, outside of validation mode.              *)

NextRecord == log[enacted + 1]


\* Log::read_next.
read_next ==
    /\ commit_worker.pc = "idle"
    /\ enacted < Len(log)
    /\ commit_worker' = [pc |-> "enacting", left |-> NextRecord.keys]
    /\ UNCHANGED <<queueVars, bg_err, log_worker, logVars, enacted, last_enacted, next_reindex,
                   tables, readers>>

\* Column::enact_plan: write one entry of the record to its table.
enact_plan(k) ==
    /\ commit_worker.pc = "enacting"
    /\ k \in commit_worker.left
    /\ tables' = [tables EXCEPT ![k] = NextRecord.commit]
    /\ commit_worker' = [commit_worker EXCEPT !.left = @ \ {k}]
    /\ UNCHANGED <<queueVars, bg_err, log_worker, logVars, enacted, last_enacted, next_reindex,
                   readers>>

\* Mutant of end_read: the id of the next record to be written, not of the one that was read.
end_read_next_id ==
    /\ commit_worker.pc = "enacting"
    /\ commit_worker.left = {}
    /\ enacted' = Len(log) + 1
    /\ last_enacted' = Len(log) + 1
    /\ overlays' = [k \in Keys |->
           IF k \in NextRecord.keys /\ overlays[k] = enacted + 1 THEN 0 ELSE overlays[k]]
    /\ next_reindex' = IF NextRecord.drop THEN enacted + 1 ELSE next_reindex
    /\ commit_worker' = [commit_worker EXCEPT !.pc = "idle"]
    /\ UNCHANGED <<queueVars, bg_err, log_worker, log, tables, readers>>

\* Mutant of end_read: the entry of a later record is removed too.
end_read_any ==
    /\ commit_worker.pc = "enacting"
    /\ commit_worker.left = {}
    /\ enacted' = enacted + 1
    /\ last_enacted' = enacted + 1
    /\ overlays' = [k \in Keys |-> IF k \in NextRecord.keys THEN 0 ELSE overlays[k]]
    /\ next_reindex' = IF NextRecord.drop THEN enacted + 1 ELSE next_reindex
    /\ commit_worker' = [commit_worker EXCEPT !.pc = "idle"]
    /\ UNCHANGED <<queueVars, bg_err, log_worker, log, tables, readers>>

\* enact_logs after the last entry, Log::end_read: a dropped index starts the next reindex;
\* the record's entries leave the log overlay unless a later record has replaced them.
end_read ==
    /\ commit_worker.pc = "enacting"
    /\ commit_worker.left = {}
    /\ enacted' = enacted + 1
    /\ last_enacted' = enacted + 1
    /\ overlays' = [k \in Keys |->
           IF k \in NextRecord.keys /\ overlays[k] = enacted + 1 THEN 0 ELSE overlays[k]]
    /\ next_reindex' = IF NextRecord.drop THEN enacted + 1 ELSE next_reindex
    /\ commit_worker' = [commit_worker EXCEPT !.pc = "idle"]
    /\ UNCHANGED <<queueVars, bg_err, log_worker, log, tables, readers>>

\* An error in enact_logs ends the worker, the record perhaps enacted in part.
commit_worker_error ==
    /\ commit_worker.pc # "stopped"
    /\ commit_worker' = [commit_worker EXCEPT !.pc = "stopped"]
    /\ bg_err' = TRUE
    /\ UNCHANGED <<queueVars, log_worker, logVars, enacted, last_enacted, next_reindex, tables,
                   readers>>

-----------------------------------------------------------------------------
(* Callers of get.                                                         *)

SetReader(r, pc, k, version) ==
    /\ readers' = [readers EXCEPT ![r] = [pc |-> pc, key |-> k, version |-> version]]
    /\ UNCHANGED <<queueVars, bg_err, log_worker, logVars, enactVars, next_reindex>>

\* DbInner::get: lock the commit overlay and look the key up in it.
get(r, k) ==
    /\ readers[r].pc = "idle"
    /\ \/ /\ commit_overlay[k] # 0
          /\ SetReader(r, "done", k, commit_overlay[k])
       \/ /\ commit_overlay[k] = 0
          /\ SetReader(r, "log", k, 0)

\* Column::get, LogQuery: look the key up in the log overlay.
get_log(r) ==
    LET k == readers[r].key
    IN  /\ readers[r].pc = "log"
        /\ \/ /\ overlays[k] # 0
              /\ SetReader(r, "done", k, log[overlays[k]].commit)
           \/ /\ overlays[k] = 0
              /\ SetReader(r, "table", k, 0)

\* Column::get: read the tables.
get_table(r) ==
    /\ readers[r].pc = "table"
    /\ SetReader(r, "done", readers[r].key, tables[readers[r].key])

\* get returns and unlocks the commit overlay.
get_return(r) ==
    /\ readers[r].pc = "done"
    /\ readers' = [readers EXCEPT ![r] = IdleReader]
    /\ UNCHANGED <<queueVars, bg_err, log_worker, logVars, enactVars, next_reindex>>

-----------------------------------------------------------------------------

LogWorker == pop_commit \/ end_record \/ clean_overlay \/ process_reindex
CommitWorker == read_next \/ (\E k \in Keys : enact_plan(k)) \/ end_read
Reader(r) == (\E k \in Keys : get(r, k)) \/ get_log(r) \/ get_table(r) \/ get_return(r)

Next ==
    \/ \E keys \in SUBSET Keys \ {{}} : commit_raw(keys)
    \/ LogWorker
    \/ log_worker_error
    \/ CommitWorker
    \/ commit_worker_error
    \/ \E r \in Readers : Reader(r)

Spec == Init /\ [][Next]_vars

(* Every worker runs until it stops.  clean_overlay waits for a write lock *)
(* that readers take in turn; a parking_lot RwLock does not let new        *)
(* readers pass a waiting writer, which is strong fairness.                *)
Fairness ==
    /\ WF_vars(pop_commit) /\ WF_vars(end_record) /\ SF_vars(clean_overlay)
    /\ WF_vars(CommitWorker)
    /\ \A r \in Readers : WF_vars(get_log(r) \/ get_table(r) \/ get_return(r))

FairSpec == Spec /\ Fairness

-----------------------------------------------------------------------------
(* Properties.                                                             *)

(* The type invariant: every field of DbInner, Log and the workers stays in   *)
(* its range; ids are numbers and no more records are enacted than logged.    *)
TypeOK ==
    /\ record_id \in Nat
    /\ commits \in Seq(Commit)
    /\ commit_overlay \in [Keys -> Nat]
    /\ bg_err \in BOOLEAN
    /\ log_worker \in [pc : {"idle", "popped", "logged", "stopped"}, commit : Commit]
    /\ log \in Seq(Record)
    /\ overlays \in [Keys -> Nat]
    /\ enacted \in 0 .. Len(log)
    /\ last_enacted \in Nat
    /\ next_reindex \in Nat
    /\ commit_worker \in [pc : {"idle", "enacting", "stopped"}, left : SUBSET Keys]
    /\ tables \in [Keys -> Nat]
    /\ readers \in [Readers -> [pc : {"idle", "log", "table", "done"},
                                key : Keys \cup {"none"}, version : Nat]]

\* What a lookup below the commit overlay finds, and what a whole lookup finds, at one instant.
Logged(k) == IF overlays[k] # 0 THEN log[overlays[k]].commit ELSE tables[k]
Lookup(k) == IF commit_overlay[k] # 0 THEN commit_overlay[k] ELSE Logged(k)

(* The pipeline implements the atomic store: moving a commit from the queue *)
(* to the log and from the log to the tables never changes what a lookup    *)
(* finds, a commit changes all of its keys at once, and a call of get,      *)
(* although it looks in three places while the workers run, returns what    *)
(* the store held at an instant of the call.                                *)
Store == INSTANCE AtomicStore WITH
    store <- [k \in Keys |-> Lookup(k)],
    latest <- record_id + 1,
    answer <- [r \in Readers |->
                 IF readers[r].pc = "done"
                 THEN {[key |-> readers[r].key, version |-> readers[r].version]} ELSE {}]
ImplementsAtomicStore == Store!Spec

(* A call of get answers with the newest committed version of its key, even  *)
(* when workers moved the key between the three places during the call.     *)
GetReturnsNewest ==
    \A r \in Readers :
        readers[r].pc = "done" => readers[r].version = Lookup(readers[r].key)

(* Once the queue is empty and every record enacted, neither overlay keeps   *)
(* an entry: clean_overlay and end_read, which only remove entries of their  *)
(* own id, leave nothing behind.                                             *)
OverlaysDrain ==
    /\ commits = <<>> /\ log_worker.pc = "idle"
    /\ enacted = Len(log)
    => \A k \in Keys : commit_overlay[k] = 0 /\ overlays[k] = 0

(* An entry leaves the log overlay only when the tables hold it, and no       *)
(* table entry goes back to an older version.                                *)
TablesAdvance ==
    [][\A k \in Keys :
        /\ tables'[k] >= tables[k]
        /\ overlays[k] # 0 /\ overlays'[k] = 0 => tables[k] = log[overlays[k]].commit]_vars


=============================================================================
