----------------------------- MODULE HashColumn -----------------------------
(***************************************************************************)
(* A hash column: index tables of growing size, their pages (chunks), the  *)
(* entries that point into the value tables, the reindex that moves        *)
(* entries from an old index to a larger one, the log records of all this, *)
(* lookups while it goes on, and the replay after a restart.               *)
(*                                                                         *)
(* A key is its prefix, whose first bits select the page and which the     *)
(* entry keeps, and the rest, which only the value table keeps.  A value   *)
(* is the key at its address; what it is besides, and how chains and       *)
(* headers are laid out, is in module ValueTable.  A record is planned in  *)
(* one step of the log worker and enacted in one step of the commit        *)
(* worker; module Pipeline has the steps in between.                       *)
(***************************************************************************)
EXTENDS Naturals, Sequences, FiniteSets, FiniteSetsExt, TLC

SeqExt == INSTANCE SequencesExt

CONSTANTS Prefixes,           \* prefixes of the keys, numbers of KeyBits bits
          Rests,              \* rests of the keys
          KeyBits,            \* bound: bits of a prefix, and of the largest index
          MIN_INDEX_BITS,
          Tiers,              \* size tiers of the value tables: 1, 2, ...
          Readers,            \* threads that call get
          Settings            \* sizes of a chunk and of a batch, and bounds: see below

ASSUME HashColumnAssumption ==
    /\ {KeyBits, MIN_INDEX_BITS} \subseteq Nat
    /\ Settings \subseteq [CHUNK_ENTRIES : Nat \ {0}, MAX_REINDEX_BATCH : Nat \ {0},
                           MaxLog : Nat, MaxRestarts : Nat]
    /\ MIN_INDEX_BITS <= KeyBits
    /\ Prefixes \subseteq 0 .. 2 ^ KeyBits - 1
    /\ Rests \subseteq Nat \ {0} /\ Tiers \subseteq Nat \ {0}

Keys == [prefix : Prefixes, rest : Rests]
NoKey == [prefix |-> 0, rest |-> 0]

VARIABLES
    setting,       \* one of Settings, for the whole behaviour
    mode,          \* "open"; "reindex_none", the log worker found nothing to reindex; or a thread
                   \* waits for itself: the log worker, "log_stuck", or open, "open_stuck"
    top,           \* index bits of Tables.index
    queue,         \* index bits of Reindex.queue, the oldest index first
    progress,      \* Reindex.progress
    heap,          \* heap[t]: [filled, free] of the value table, free slots in order of reuse
    next_reindex,  \* DbInner.next_reindex, as the records to be enacted until then; or Never
    fresh,         \* whether open found no log and no record has been enacted since
    committing,    \* [keys, reindex]: keys in the commit overlay of a commit that is logged but not
                   \* cleaned up, and whether its plan asked for a reindex
    log,           \* the records in the log files, oldest first
    enacted,       \* how many of them are enacted
    index_files,   \* index_files[bits]: the chunks of the index file, where there is one
    value_files,   \* [values, heap, store]: the value tables as of the last enacted record
    readers,       \* readers[r]: [pc, key] of a call of get, and the queue when it began
    restarts       \* number of restarts

tableVars == <<top, queue, progress, heap>>
vars == <<setting, mode, top, queue, progress, heap, next_reindex, fresh, committing, log, enacted,
          index_files, value_files, readers, restarts>>

CHUNK_ENTRIES == setting.CHUNK_ENTRIES
MAX_REINDEX_BATCH == setting.MAX_REINDEX_BATCH
MaxLog == setting.MaxLog            \* bound: records in the log files
MaxRestarts == setting.MaxRestarts  \* bound: number of restarts

total_chunks(bits) == 2 ^ bits
chunk_index(prefix, bits) == prefix \div 2 ^ (KeyBits - bits)

EmptyEntry == [prefix |-> 0, tier |-> 0, offset |-> 0]
EmptyChunk == [i \in 1 .. CHUNK_ENTRIES |-> EmptyEntry]
Entry(prefix, address) == [prefix |-> prefix, tier |-> address.tier, offset |-> address.offset]
Address(entry) == [tier |-> entry.tier, offset |-> entry.offset]
Never == 1000000
EmptyHeap == [t \in Tiers |-> [filled |-> 1, free |-> <<>>]]
NotCommitting == [keys |-> {}, reindex |-> FALSE]
IdleReader == [pc |-> "idle", key |-> NoKey, queue |-> <<>>]

Init ==
    /\ setting \in Settings
    /\ mode = "open"
    /\ top = MIN_INDEX_BITS /\ queue = <<>> /\ progress = 0
    /\ heap = EmptyHeap
    /\ next_reindex = 0 /\ fresh = TRUE /\ committing = NotCommitting
    /\ log = <<>> /\ enacted = 0
    /\ index_files = <<>>
    /\ value_files = [values |-> <<>>, heap |-> EmptyHeap, store |-> {}]
    /\ readers = [r \in Readers |-> IdleReader]
    /\ restarts = 0

-----------------------------------------------------------------------------
(* What the log overlay and the files hold.  A record is [chunks, values,  *)
(* drop, heap, store]: chunks, a function on <<bits, chunk>>, has whole    *)
(* chunks and the mask of the entries that were changed, values a function *)
(* on addresses, drop the index to be dropped, store a history of the keys *)
(* that the column should hold.                                            *)

LoggedChunk(bits, c) ==
    LET newer == {i \in enacted + 1 .. Len(log) : <<bits, c>> \in DOMAIN log[i].chunks}
    IN  IF newer # {} THEN log[Max(newer)].chunks[<<bits, c>>].entries
        ELSE IF bits \in DOMAIN index_files THEN index_files[bits][c]
        ELSE EmptyChunk
Value(values, address) == IF address \in DOMAIN values THEN values[address] ELSE NoKey
LoggedValue(address) ==
    LET newer == {i \in enacted + 1 .. Len(log) : address \in DOMAIN log[i].values}
    IN  Value(IF newer # {} THEN log[Max(newer)].values ELSE value_files.values, address)

\* The value tables after the first n records; the values only as far as record n has them.
ValueTables(n) == IF n = enacted THEN value_files ELSE log[n]
Stored == ValueTables(Len(log)).store

(* The record being written: [top, queue, chunks, values, heap, store,     *)
(* reindex]; reindex says whether the outcome was NeedReindex.             *)

begin_record ==
    [top |-> top, queue |-> queue, chunks |-> <<>>, values |-> <<>>, heap |-> heap,
     store |-> Stored, reindex |-> FALSE]

Chunk(w, bits, c) ==
    IF <<bits, c>> \in DOMAIN w.chunks THEN w.chunks[<<bits, c>>].entries ELSE LoggedChunk(bits, c)
ValueAt(w, address) ==
    IF address \in DOMAIN w.values THEN w.values[address] ELSE LoggedValue(address)

insert_index(w, bits, c, i, entry) ==
    LET mask == IF <<bits, c>> \in DOMAIN w.chunks THEN w.chunks[<<bits, c>>].mask ELSE {}
        chunk == [entries |-> [Chunk(w, bits, c) EXCEPT ![i] = entry], mask |-> mask \cup {i}]
    IN  [w EXCEPT !.chunks = (<<bits, c>> :> chunk) @@ @]
insert_value(w, address, key) == [w EXCEPT !.values = (address :> key) @@ @]

-----------------------------------------------------------------------------
(* The value tables, as far as the column sees them (module ValueTable).   *)

next_free(w, t) ==
    [tier |-> t, offset |-> IF w.heap[t].free # <<>> THEN Head(w.heap[t].free) ELSE w.heap[t].filled]
write_new_value_plan(w, t, key) ==
    LET w1 == insert_value(w, next_free(w, t), key)
    IN  [w1 EXCEPT !.heap[t] = IF @.free # <<>> THEN [@ EXCEPT !.free = Tail(@)]
                               ELSE [@ EXCEPT !.filled = @ + 1]]
write_remove_value_plan(w, address) ==
    LET w1 == insert_value(w, address, NoKey)
    IN  [w1 EXCEPT !.heap[address.tier].free = <<address.offset>> \o @]

-----------------------------------------------------------------------------
(* IndexTable.                                                             *)

\* Mutant: any entry with the bits of the key will do.
search_index_partial(w, bits, key) ==
    LET chunk == Chunk(w, bits, chunk_index(key.prefix, bits))
        found == {i \in 1 .. CHUNK_ENTRIES : chunk[i] # EmptyEntry /\ chunk[i].prefix = key.prefix}
    IN  IF found = {} THEN 0 ELSE Min(found)

\* find_entry and the loops over it in search_index and get_in_index: the sub-index of the first
\* entry of the chunk that has the key bits and whose value has the key; 0 if there is none.
search_index(w, bits, key) ==
    LET chunk == Chunk(w, bits, chunk_index(key.prefix, bits))
        found == {i \in 1 .. CHUNK_ENTRIES :
                     /\ chunk[i] # EmptyEntry /\ chunk[i].prefix = key.prefix
                     /\ ValueAt(w, Address(chunk[i])) = key}
    IN  IF found = {} THEN 0 ELSE Min(found)

\* plan_insert_chunk: replace an entry (sub_index) or take the first empty one.  0 stands for
\* NeedReindex: the chunk is full, or the address has too many bits for an entry.
plan_insert_chunk(w, bits, key, address, sub_index) ==
    LET chunk == Chunk(w, bits, chunk_index(key.prefix, bits))
        empty == {i \in 1 .. CHUNK_ENTRIES : chunk[i] = EmptyEntry}
    IN  IF address.offset >= CHUNK_ENTRIES * total_chunks(bits) THEN 0
        ELSE IF sub_index # 0 THEN sub_index
        ELSE IF empty = {} THEN 0 ELSE Min(empty)

write_insert_plan(w, bits, key, address, i) ==
    insert_index(w, bits, chunk_index(key.prefix, bits), i, Entry(key.prefix, address))
write_remove_plan(w, bits, key, i) ==
    insert_index(w, bits, chunk_index(key.prefix, bits), i, EmptyEntry)

-----------------------------------------------------------------------------
(* HashColumn: planning a change.                                          *)

\* Mutant: an index that is still being reindexed is forgotten.
trigger_reindex_forget(w) ==
    [w EXCEPT !.top = @ + 1, !.queue = <<w.top>>, !.reindex = TRUE]

trigger_reindex(w) ==
    [w EXCEPT !.top = @ + 1, !.queue = Append(@, w.top), !.reindex = TRUE]

\* search_all_indexes: the index that has the key, the newest index first and then the queue.
NoIndex == KeyBits + 1
search_all_indexes(w, key) ==
    LET indexes == <<w.top>> \o w.queue
        found == {n \in DOMAIN indexes : search_index(w, indexes[n], key) # 0}
    IN  IF found = {} THEN NoIndex ELSE indexes[Min(found)]

\* A full chunk starts a reindex and the whole plan again, with another slot for the value.
RECURSIVE write_plan_new(_, _, _)
write_plan_new(w, key, t) ==
    LET address == next_free(w, t)
        w1 == write_new_value_plan(w, t, key)
        i == plan_insert_chunk(w1, w1.top, key, address, 0)
    IN  IF w.top > KeyBits THEN w
        ELSE IF i # 0 THEN write_insert_plan(w1, w1.top, key, address, i)
        ELSE write_plan_new(trigger_reindex(w1), key, t)

\* write_plan_existing and write_existing_value_plan with a value: in the same tier the value is
\* replaced in place; in another one it moves, and so the index has to change.
write_plan_existing(w, key, t, bits) ==
    LET i == search_index(w, bits, key)
        old == Address(Chunk(w, bits, chunk_index(key.prefix, bits))[i])
        w1 == write_new_value_plan(write_remove_value_plan(w, old), t, key)
        address == next_free(write_remove_value_plan(w, old), t)
        at == plan_insert_chunk(w1, w1.top, key, address, IF bits = w.top THEN i ELSE 0)
    IN  IF t = old.tier THEN insert_value(w, old, key)
        ELSE IF at # 0 THEN write_insert_plan(w1, w1.top, key, address, at)
        ELSE [w1 EXCEPT !.reindex = TRUE]

\* The same without a value.
write_plan_remove(w, key, bits) ==
    LET i == search_index(w, bits, key)
        old == Address(Chunk(w, bits, chunk_index(key.prefix, bits))[i])
    IN  write_remove_plan(write_remove_value_plan(w, old), bits, key, i)

\* t is the tier of the value, or 0 to remove the key.
write_plan(w, key, t) ==
    LET bits == search_all_indexes(w, key)
        w1 == IF bits # NoIndex
              THEN IF t = 0 THEN write_plan_remove(w, key, bits)
                   ELSE write_plan_existing(w, key, t, bits)
              ELSE IF t = 0 THEN w ELSE write_plan_new(w, key, t)
    IN  [w1 EXCEPT !.store = IF t = 0 THEN @ \ {key} ELSE @ \cup {key}]

-----------------------------------------------------------------------------
(* The log worker.                                                         *)

\* start_reindex for the last record of the log, whose id is last_enacted and one for every record
\* not enacted; but the first id after open found no log is last_enacted itself.
start_reindex == next_reindex' = Len(log) - enacted - (IF fresh THEN 1 ELSE 0)

\* A reader holds commit_overlay and tables for reading during its whole call.
ReadLocked == \E r \in Readers : readers[r].pc # "idle"

AppendRecord(w, drop) ==
    log' = Append(log, [chunks |-> w.chunks, values |-> w.values, drop |-> drop, heap |-> w.heap,
                        store |-> w.store])

\* process_commits for a commit of one change.  The key is in the commit overlay from before, so
\* nobody looks for it in the tables; trigger_reindex needs the write lock of tables.
process_commits(key, t) ==
    /\ mode = "open" /\ committing = NotCommitting /\ Len(log) < MaxLog
    /\ \A r \in Readers : readers[r].key # key
    /\ \E w \in {write_plan(begin_record, key, t)} :
           /\ w.top <= KeyBits
           /\ w.top # top => ~ReadLocked
           /\ AppendRecord(w, {})
           /\ top' = w.top /\ queue' = w.queue /\ heap' = w.heap
           /\ committing' = [keys |-> {key}, reindex |-> w.reindex]
    /\ UNCHANGED <<mode, progress, next_reindex, fresh, enacted, index_files, value_files, readers,
                   restarts>>

clean_overlay ==
    /\ mode = "open" /\ committing # NotCommitting /\ ~ReadLocked
    /\ committing' = NotCommitting
    /\ IF committing.reindex THEN start_reindex ELSE UNCHANGED next_reindex
    /\ UNCHANGED <<mode, tableVars, fresh, log, enacted, index_files, value_files, readers, restarts>>

\* HashColumn::reindex: chunks of the oldest index from progress on, until the batch is full.
Entries(c) == SelectSeq(LoggedChunk(queue[1], c), LAMBDA entry : entry # EmptyEntry)
RECURSIVE reindex_batch(_, _)
reindex_batch(c, batch) ==
    IF c < total_chunks(queue[1]) /\ Len(batch) < MAX_REINDEX_BATCH
    THEN reindex_batch(c + 1, batch \o Entries(c)) ELSE [progress |-> c, batch |-> batch]

\* write_reindex_plan.  recover_key_prefix gives a key without its rest, which has_key_at finds at
\* no address, so the entry is never skipped.
RecoveredKey(entry) == [prefix |-> entry.prefix, rest |-> 0]
write_reindex_plan(w, entry) ==
    LET key == RecoveredKey(entry)
        i == plan_insert_chunk(w, w.top, key, Address(entry), 0)
    IN  IF search_index(w, w.top, key) # 0 THEN w
        ELSE IF i # 0 THEN write_insert_plan(w, w.top, key, Address(entry), i)
        ELSE trigger_reindex(w)

\* The batch up to the entry that needs another reindex: there write_reindex_plan calls itself
\* while it holds the upgradable locks that the call asks for.
RECURSIVE WriteBatch(_, _)
WriteBatch(w, batch) ==
    IF batch = <<>> \/ w.reindex THEN w
    ELSE WriteBatch(write_reindex_plan(w, Head(batch)), Tail(batch))

\* process_reindex: log a batch, with the drop of the index when it is the last one.
process_reindex ==
    /\ mode = "open" /\ committing = NotCommitting
    /\ next_reindex = 0
    /\ queue # <<>> /\ progress # total_chunks(Head(queue))
    /\ Len(log) < MaxLog
    /\ \E b \in {reindex_batch(progress, <<>>)} : \E w \in {WriteBatch(begin_record, b.batch)} :
           LET drop == IF b.progress = total_chunks(Head(queue)) THEN {Head(queue)} ELSE {}
           IN
           /\ progress' = b.progress
           /\ top' = w.top /\ queue' = w.queue
           /\ IF w.reindex
              THEN ~ReadLocked /\ w.top <= KeyBits /\ mode' = "log_stuck" /\ UNCHANGED log
              ELSE AppendRecord(w, drop) /\ UNCHANGED mode
    /\ UNCHANGED <<heap, next_reindex, fresh, committing, enacted, index_files, value_files, readers,
                   restarts>>

\* The same when HashColumn::reindex has nothing to move: first it looks, then the flag is reset.
process_reindex_none ==
    /\ mode = "open" /\ committing = NotCommitting
    /\ next_reindex = 0
    /\ queue # <<>> => progress = total_chunks(Head(queue))
    /\ mode' = "reindex_none"
    /\ UNCHANGED <<tableVars, next_reindex, fresh, committing, log, enacted, index_files, value_files,
                   readers, restarts>>
process_reindex_reset ==
    /\ mode = "reindex_none" /\ mode' = "open"
    /\ next_reindex' = Never
    /\ UNCHANGED <<tableVars, fresh, committing, log, enacted, index_files, value_files, readers,
                   restarts>>

-----------------------------------------------------------------------------
(* The commit worker and the cleanup of logs.                              *)

\* IndexTable::enact_plan for the indexes that exist, creating a file; the others are skipped.
enact_plan(files, record, indexes) ==
    LET touched == {bits \in indexes : \E c \in 0 .. total_chunks(bits) - 1 :
                                           <<bits, c>> \in DOMAIN record.chunks}
        old(bits) == IF bits \in DOMAIN files THEN files[bits]
                     ELSE [c \in 0 .. total_chunks(bits) - 1 |-> EmptyChunk]
        masked(bits, c) ==
            IF <<bits, c>> \notin DOMAIN record.chunks THEN old(bits)[c]
            ELSE LET new == record.chunks[<<bits, c>>]
                 IN  [i \in 1 .. CHUNK_ENTRIES |-> IF i \in new.mask THEN new.entries[i]
                                                  ELSE old(bits)[c][i]]
    IN  [bits \in touched |-> [c \in 0 .. total_chunks(bits) - 1 |-> masked(bits, c)]] @@ files

enact_values(files, record) ==
    [values |-> record.values @@ files.values, heap |-> record.heap, store |-> record.store]

\* drop_index: only the oldest index of the queue can be dropped.
Drops(q, record) == q # <<>> /\ record.drop = {Head(q)}
drop_index(files, q, record) ==
    IF Drops(q, record) THEN [bits \in DOMAIN files \ {Head(q)} |-> files[bits]] ELSE files

\* The set of indexes in memory.
Indexes(t, q) == {t} \cup {q[n] : n \in DOMAIN q}

\* enact_logs for one record; drop_index needs the write lock of reindex.
enact_logs ==
    /\ mode # "open_stuck" /\ enacted < Len(log)
    /\ LET record == log[enacted + 1]
       IN  /\ record.drop # {} => mode # "log_stuck"
           /\ index_files' =
                  drop_index(enact_plan(index_files, record, Indexes(top, queue)), queue, record)
           /\ queue' = IF Drops(queue, record) THEN Tail(queue) ELSE queue
           /\ progress' = IF Drops(queue, record) THEN 0 ELSE progress
           /\ next_reindex' = IF record.drop # {} THEN 0
                               ELSE IF next_reindex \in {0, Never} \/ fresh THEN next_reindex
                               ELSE next_reindex - 1
           /\ value_files' = enact_values(value_files, record)
    /\ enacted' = enacted + 1 /\ fresh' = FALSE
    /\ UNCHANGED <<mode, top, heap, committing, log, readers, restarts>>

\* clean_logs, for a log file of one record.
clean_logs ==
    /\ mode # "open_stuck" /\ enacted > 0
    /\ log' = Tail(log) /\ enacted' = enacted - 1
    /\ UNCHANGED <<mode, tableVars, next_reindex, fresh, committing, index_files, value_files,
                   readers, restarts>>

-----------------------------------------------------------------------------
(* A crash and the next open.                                              *)

\* Mutant: the smallest index file is the index.
open_index_smallest(files) ==
    LET found == DOMAIN files
        smallest == IF found = {} THEN MIN_INDEX_BITS ELSE Min(found)
    IN  [files |-> files, values |-> value_files, stuck |-> FALSE, top |-> smallest,
         queue |-> SeqExt!SetToSortSeq(found \ {smallest}, <)]

\* HashColumn::open_index: the largest index file is the index, the others are to be reindexed.
open_index(files) ==
    LET found == DOMAIN files
    IN  [files |-> files, values |-> value_files, stuck |-> FALSE,
         top |-> IF found = {} THEN MIN_INDEX_BITS ELSE Max(found),
         queue |-> SeqExt!SetToSortSeq(found \ {Max(found \cup {0})}, <)]

\* validate_plan: a table that is missing starts a reindex, and the call that follows asks for the
\* upgradable locks that _lock still holds.
validate_plan(d, record) ==
    \A x \in DOMAIN record.chunks : x[1] \in Indexes(d.top, d.queue)

\* replay_all_logs over the records first .. last.
RECURSIVE replay(_, _, _)
replay(d, first, last) ==
    LET record == log[first]
        files == enact_plan(d.files, record, Indexes(d.top, d.queue))
    IN  IF first > last THEN d
        ELSE IF ~validate_plan(d, record) THEN [d EXCEPT !.stuck = TRUE]
        ELSE replay([d EXCEPT !.files = drop_index(files, d.queue, record),
                              !.values = enact_values(@, record),
                              !.queue = IF Drops(@, record) THEN Tail(@) ELSE @],
                    first + 1, last)

\* The enacted records survive, and some of the others.
restart ==
    /\ mode # "open_stuck" /\ restarts < MaxRestarts /\ restarts' = restarts + 1
    /\ \E n \in enacted .. Len(log) : \E d \in {replay(open_index(index_files), 1, n)} :
           /\ mode' = IF d.stuck THEN "open_stuck" ELSE "open"
           /\ top' = d.top /\ queue' = d.queue
           /\ index_files' = d.files /\ value_files' = d.values
           /\ heap' = d.values.heap
           /\ log' = SubSeq(log, 1, n) /\ enacted' = n
           /\ fresh' = (n = 0)
    /\ progress' = 0 /\ next_reindex' = 0 /\ committing' = NotCommitting
    /\ readers' = [r \in Readers |-> IdleReader]

-----------------------------------------------------------------------------
(* Callers of get for a key that is not in the commit overlay.             *)

SetReader(r, reader) ==
    /\ readers' = [readers EXCEPT ![r] = reader]
    /\ UNCHANGED <<mode, tableVars, next_reindex, fresh, committing, log, enacted,
                   index_files, value_files, restarts>>

\* HashColumn::get: search the index, with tables locked.  A call that finds the key there returns,
\* and changes nothing.
get(r, key) ==
    /\ mode # "open_stuck" /\ readers[r].pc = "idle" /\ key \notin committing.keys
    /\ search_index(begin_record, top, key) = 0
    /\ SetReader(r, [pc |-> "index", key |-> key, queue |-> queue])

\* Mutant: only the oldest index of the queue is searched.
get_queue_oldest(r) ==
    /\ readers[r].pc = "index"
    /\ LET found == queue # <<>> /\ search_index(begin_record, Head(queue), readers[r].key) # 0
       IN  SetReader(r, IF found THEN IdleReader ELSE [readers[r] EXCEPT !.pc = "missing"])

\* Then lock reindex, which keeps drop_index out, and search the indexes in the queue.
get_queue(r) ==
    /\ readers[r].pc = "index"
    /\ LET found == \E n \in DOMAIN queue : search_index(begin_record, queue[n], readers[r].key) # 0
       IN  SetReader(r, IF found THEN IdleReader ELSE [readers[r] EXCEPT !.pc = "missing"])

get_return(r) ==
    /\ readers[r].pc = "missing"
    /\ SetReader(r, IdleReader)

-----------------------------------------------------------------------------

Step ==
    \/ \E key \in Keys, t \in Tiers \cup {0} : process_commits(key, t)
    \/ clean_overlay
    \/ process_reindex \/ process_reindex_none \/ process_reindex_reset
    \/ enact_logs \/ clean_logs
    \/ restart
    \/ \E r \in Readers : \/ \E key \in Keys : get(r, key)
                          \/ get_queue(r) \/ get_return(r)
Next == Step /\ UNCHANGED setting

Spec == Init /\ [][Next]_vars

-----------------------------------------------------------------------------
(* Properties.                                                             *)

(* The type invariant: the indexes in the reindex queue get larger from the     *)
(* oldest to the newest, and all are smaller than the index in use, also after  *)
(* open_index.                                                                  *)
TypeOK ==
    /\ mode \in {"open", "reindex_none", "log_stuck", "open_stuck"}
    /\ top \in MIN_INDEX_BITS .. KeyBits
    /\ \A n \in DOMAIN queue : queue[n] < top /\ (n > 1 => queue[n - 1] < queue[n])
    /\ progress \in 0 .. total_chunks(top)
    /\ next_reindex \in 0 .. MaxLog \cup {Never}
    /\ committing \in [keys : SUBSET Keys, reindex : BOOLEAN]
    /\ enacted <= Len(log) /\ Len(log) <= MaxLog
    /\ \A bits \in DOMAIN index_files : bits <= top
    /\ \A r \in Readers : /\ readers[r].pc \in {"idle", "index", "missing"}
                          /\ readers[r].key \in Keys \cup {NoKey}

(* However far a reindex has got, and after every restart, search_all_indexes   *)
(* finds every key that the column should hold.                                 *)
KeysFound ==
    mode # "open_stuck" => \A key \in Stored : search_all_indexes(begin_record, key) # NoIndex

(* It finds no other key, such as one that has been removed.                    *)
RemovedKeysGone ==
    mode # "open_stuck" => \A key \in Keys \ Stored : search_all_indexes(begin_record, key) = NoIndex

(* A slot on the free list of a value table is there once and holds no key,     *)
(* whatever entries of a reindex, old or copied, still point to it.             *)
SlotsOwned ==
    mode # "open_stuck" => \A t \in Tiers :
        LET free == heap[t].free
        IN  /\ \A n \in DOMAIN free : LoggedValue([tier |-> t, offset |-> free[n]]) = NoKey
            /\ Cardinality({free[n] : n \in DOMAIN free}) = Len(free)

(* A call of get misses a key that the column holds only if an index is dropped *)
(* between its search of tables.index and its search of reindex.queue.          *)
GetMissesOnDrop ==
    \A r \in Readers : readers[r].pc = "missing" /\ readers[r].key \in Stored
                           => readers[r].queue # queue

(* "All queries during that process check both tables" (README.md, Reindex): a  *)
(* call of get does not miss a key that the column holds.                       *)
GetFindsKey ==
    \A r \in Readers : readers[r].pc = "missing" => readers[r].key \notin Stored

(* "Check if there's another reindex on the next iteration" (enact_logs): when   *)
(* all records are enacted and an index is left to be reindexed, next_reindex   *)
(* lets the log worker go on with it.                                           *)
ReindexResumes ==
    mode = "open" /\ enacted = Len(log) /\ queue # <<>> => next_reindex # Never

(* "A background process is started that moves entries from the old table to    *)
(* the new" (README.md, Reindex): the log worker is never left waiting for a    *)
(* lock that it holds.                                                          *)
ReindexGoesOn == mode # "log_stuck"

(* "On startup if any log files exist, they are validated for corruption and    *)
(* enacted upon the tables" (README.md): the replay is never left waiting for a *)
(* lock that it holds.                                                          *)
ReplayGoesOn == mode # "open_stuck"

=============================================================================
