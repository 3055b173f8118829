----------------------------- MODULE ValueTable -----------------------------
(***************************************************************************)
(* The value tables of a hash column: slots taken from a free list,        *)
(* values in chains of slots, reference counts, the header with the two    *)
(* pointers of the table, and how all of it is logged, enacted, read while *)
(* the log worker goes on, and found again after a restart.                *)
(*                                                                         *)
(* A value is its id and its length in slots: one slot is a value of the   *)
(* fixed-size tier, more are a value of the last, multipart tier.  What a  *)
(* slot holds of a value is one part of it.  The index is one entry per    *)
(* key (module HashColumn has the rest).  A record is enacted in one step: *)
(* until its last entry is written the log overlay hides its entries       *)
(* (module Pipeline).                                                      *)
(***************************************************************************)
EXTENDS Naturals, Sequences, FiniteSets, TLC

CONSTANTS Keys,
          Columns,      \* kinds of columns: records [ref_counted, preimage, lengths, readers, commits]
                        \* of the two ColumnOptions, the lengths of values, in slots, the threads
                        \* that call get, and the bound on the number of commits
          LOCKED_REF,   \* the count that is never changed again
          Readers,      \* threads that call get
          MaxOps,       \* bound: changes in one commit
          MaxQueue,     \* bound: commits in the queue
          MaxCrashes    \* bound: number of restarts

ASSUME ValueTableAssumption ==
    /\ Columns \subseteq [ref_counted : BOOLEAN, preimage : BOOLEAN, lengths : SUBSET (1 .. 3),
                           readers : SUBSET Readers, commits : Nat]
    /\ {MaxOps, MaxQueue, MaxCrashes} \subseteq Nat
    /\ LOCKED_REF \in Nat \ {0, 1}

Tiers == {"fixed", "multi"}
Tier(length) == IF length = 1 THEN "fixed" ELSE "multi"
NoAddress == [tier |-> "none", offset |-> 0]
NoValue == [value |-> 0, length |-> 0, rc |-> 0]

VARIABLES
    column,          \* the one of Columns
    commits,         \* CommitQueue.commits: [id, ops]; an op of length 0 is a removal
    last_commit,     \* id of the last commit
    commit_overlay,  \* commit_overlay[k]: id of the commit whose value is there, 0 if none
    planning,        \* <<>>, or the commit the log worker has taken
    pointers,        \* pointers[t]: ValueTable.filled and .last_removed
    log,             \* records that are logged and not enacted
    file,            \* what is enacted: [slots, header, index, store]
    readers,         \* readers[r]: [pc, key, at, parts] of a call of get
    restarts         \* number of restarts

vars == <<column, commits, last_commit, commit_overlay, planning, pointers, log, file, readers, restarts>>

ref_counted == column.ref_counted
preimage == column.preimage

\* What a slot holds.  A slot with a next part is "multi" in the code; the last part is not.
Tombstone(next) == [kind |-> "free", key |-> "none", value |-> 0, part |-> 0, rc |-> 0, next |-> next]
Part(k, value, part, rc, next) ==
    [kind |-> IF part = 1 THEN "head" ELSE "part", key |-> IF part = 1 THEN k ELSE "none",
     value |-> value, part |-> part, rc |-> rc, next |-> next]

Empty == <<>>
Header(filled, last_removed) == [filled |-> filled, last_removed |-> last_removed]
IdleReader == [pc |-> "idle", key |-> "none", at |-> NoAddress, parts |-> <<>>]

Init ==
    /\ column \in Columns
    /\ commits = <<>> /\ last_commit = 0
    /\ commit_overlay = [k \in Keys |-> 0]
    /\ planning = <<>>
    /\ pointers = [t \in Tiers |-> Header(1, 0)]
    /\ log = <<>>
    /\ file = [slots |-> Empty, header |-> [t \in Tiers |-> Header(0, 0)],
               index |-> [k \in Keys |-> NoAddress], store |-> [k \in Keys |-> NoValue]]
    /\ readers = [r \in Readers |-> IdleReader]
    /\ restarts = 0

-----------------------------------------------------------------------------
(* The log overlay: the newest logged record that has the entry, or the    *)
(* table.  A record is [slots, header, index, store]; slots is a function  *)
(* on the <<tier, offset>> it writes, header and index on the tiers and    *)
(* keys.  store is a history of what the column should hold.               *)

Enacted(f, record) ==
    [slots |-> record.slots @@ f.slots, header |-> record.header @@ f.header,
     index |-> record.index @@ f.index, store |-> record.store]
RECURSIVE AfterRecords(_, _)
AfterRecords(f, records) ==
    IF records = <<>> THEN f ELSE AfterRecords(Enacted(f, Head(records)), Tail(records))
Logged == AfterRecords(file, log)

(* The record being written: [slots, header, index, store, pointers,       *)
(* dirty_header, logged]; logged is what the overlay and the tables hold.  *)

begin_record ==
    [slots |-> Empty, header |-> Empty, index |-> Empty, store |-> Logged.store,
     pointers |-> pointers, dirty_header |-> {}, logged |-> Logged]

Slot(w, t, i) == (w.slots @@ w.logged.slots)[<<t, i>>]
IndexEntry(w, k) == (w.index @@ w.logged.index)[k]
insert_value(w, t, i, entry) == [w EXCEPT !.slots = (<<t, i>> :> entry) @@ @]
insert_index(w, k, address) == [w EXCEPT !.index = (k :> address) @@ @]

-----------------------------------------------------------------------------
(* ValueTable: each operator returns the record after the operation.       *)

\* next_free: the slot it takes, and the record after taking it.
FreeSlot(w, t) ==
    IF w.pointers[t].last_removed # 0 THEN w.pointers[t].last_removed ELSE w.pointers[t].filled
next_free(w, t) ==
    LET last_removed == w.pointers[t].last_removed
        p == IF last_removed # 0
             THEN [w.pointers[t] EXCEPT !.last_removed = Slot(w, t, last_removed).next]
             ELSE [w.pointers[t] EXCEPT !.filled = @ + 1]
    IN  [w EXCEPT !.pointers[t] = p, !.dirty_header = @ \cup {t}]

clear_slot(w, t, i) ==
    LET w1 == insert_value(w, t, i, Tombstone(w.pointers[t].last_removed))
    IN  [w1 EXCEPT !.pointers[t].last_removed = i, !.dirty_header = @ \cup {t}]

RECURSIVE clear_chain(_, _, _)
clear_chain(w, t, i) ==
    LET entry == Slot(w, t, i)
        w1 == clear_slot(w, t, i)
    IN  IF entry.kind # "free" /\ entry.next # 0 THEN clear_chain(w1, t, entry.next) ELSE w1

\* The loop of overwrite_chain from one part on: reuse the slots of the chain that is there while
\* it lasts (follow), then take free ones; clear what is left of the old chain at the end.
RECURSIVE WriteParts(_, _, _, _, _, _, _, _)
WriteParts(w, t, i, follow, k, value, part, length) ==
    LET next_part == IF follow THEN Slot(w, t, i).next ELSE 0
        rc == IF ref_counted /\ part = 1 THEN 1 ELSE 0
    IN  IF part < length
        THEN LET next == IF next_part # 0 THEN next_part ELSE FreeSlot(w, t)
                 w1 == IF next_part # 0 THEN w ELSE next_free(w, t)
             IN  WriteParts(insert_value(w1, t, i, Part(k, value, part, rc, next)), t, next,
                            next_part # 0, k, value, part + 1, length)
        ELSE LET w1 == insert_value(w, t, i, Part(k, value, part, rc, 0))
             IN  IF next_part # 0 THEN clear_chain(w1, t, next_part) ELSE w1

\* overwrite_chain without and with a slot to start at.
write_insert_plan(w, t, k, value, length) ==
    WriteParts(next_free(w, t), t, FreeSlot(w, t), FALSE, k, value, 1, length)
write_replace_plan(w, t, i, k, value, length) ==
    WriteParts(w, t, i, TRUE, k, value, 1, length)
write_remove_plan(w, t, i) ==
    IF t = "multi" THEN clear_chain(w, t, i) ELSE clear_slot(w, t, i)

\* Mutant of write_inc_ref: the count does not stop.
write_inc_ref_unbounded(w, t, i) ==
    LET entry == Slot(w, t, i)
    IN  IF entry.kind = "free" THEN w
        ELSE insert_value(w, t, i, [entry EXCEPT !.rc = @ + 1])

\* change_ref by one, as write_inc_ref and write_dec_ref use it.
write_inc_ref(w, t, i) ==
    LET entry == Slot(w, t, i)
        counter == IF entry.rc >= LOCKED_REF - 1 THEN LOCKED_REF ELSE entry.rc + 1
    IN  IF entry.kind = "free" THEN w
        ELSE insert_value(w, t, i, [entry EXCEPT !.rc = counter])
\* write_dec_ref keeps the value while a reference is left.
KeepsValue(entry) == entry.kind # "free" /\ (entry.rc = LOCKED_REF \/ entry.rc > 1)

\* Mutant of write_dec_ref: only the first slot of the value is cleared.
write_dec_ref_head(w, t, i) ==
    LET entry == Slot(w, t, i)
    IN  IF ~KeepsValue(entry) THEN clear_slot(w, t, i)
        ELSE insert_value(w, t, i, [entry EXCEPT !.rc = IF @ = LOCKED_REF THEN @ ELSE @ - 1])

write_dec_ref(w, t, i) ==
    LET entry == Slot(w, t, i)
    IN  IF ~KeepsValue(entry) THEN write_remove_plan(w, t, i)
        ELSE insert_value(w, t, i, [entry EXCEPT !.rc = IF @ = LOCKED_REF THEN @ ELSE @ - 1])

\* The header goes into the record once, after the last operation.
complete_plan(w) ==
    [w EXCEPT !.header = [t \in w.dirty_header |-> w.pointers[t]], !.dirty_header = {}]

-----------------------------------------------------------------------------
(* HashColumn::write_plan.                                                 *)

\* has_key_at.
HasKey(w, address, k) ==
    /\ address # NoAddress
    /\ Slot(w, address.tier, address.offset).kind = "head"
    /\ Slot(w, address.tier, address.offset).key = k

\* Column::write_new_value_plan, and the insertion into the index.
write_plan_new(w, k, value, length) ==
    LET t == Tier(length)
    IN  insert_index(write_insert_plan(w, t, k, value, length), k,
                     [tier |-> t, offset |-> FreeSlot(w, t)])

\* Column::write_existing_value_plan with a value.
write_plan_existing(w, k, address, value, length) ==
    LET t == Tier(length)
    IN  IF ref_counted THEN write_inc_ref(w, address.tier, address.offset)
        ELSE IF preimage THEN w
        ELSE IF t = address.tier
        THEN write_replace_plan(w, t, address.offset, k, value, length)
        ELSE write_plan_new(write_remove_plan(w, address.tier, address.offset), k, value, length)

\* Column::write_existing_value_plan without one.
write_plan_remove(w, k, address) ==
    IF ref_counted
    THEN LET w1 == write_dec_ref(w, address.tier, address.offset)
         IN  IF KeepsValue(Slot(w, address.tier, address.offset)) THEN w1
             ELSE insert_index(w1, k, NoAddress)
    ELSE insert_index(write_remove_plan(w, address.tier, address.offset), k, NoAddress)

\* What the column should hold of the key after the operation, whatever the slots are.
Stored(old, value, length) ==
    IF length = 0
    THEN IF old.rc > 1 THEN [old EXCEPT !.rc = IF @ = LOCKED_REF THEN @ ELSE @ - 1] ELSE NoValue
    ELSE IF old = NoValue \/ (~ref_counted /\ ~preimage)
         THEN [value |-> value, length |-> length, rc |-> IF ref_counted THEN 1 ELSE 0]
    ELSE IF ref_counted THEN [old EXCEPT !.rc = IF @ = LOCKED_REF THEN @ ELSE @ + 1]
    ELSE old

write_plan(w, op) ==
    LET address == IndexEntry(w, op.key)
        w1 == IF HasKey(w, address, op.key)
              THEN IF op.length = 0 THEN write_plan_remove(w, op.key, address)
                   ELSE write_plan_existing(w, op.key, address, op.value, op.length)
              ELSE IF op.length = 0 THEN w
              ELSE write_plan_new(w, op.key, op.value, op.length)
    IN  [w1 EXCEPT !.store[op.key] = Stored(@, op.value, op.length)]

RECURSIVE WritePlans(_, _)
WritePlans(w, ops) == IF ops = <<>> THEN w ELSE WritePlans(write_plan(w, Head(ops)), Tail(ops))

-----------------------------------------------------------------------------
(* Commits, the log worker and the commit worker.                          *)

ReadLocked == \E r \in Readers : readers[r].pc # "idle"

\* Mutant of commit_raw: no removal goes into the commit overlay.
commit_raw_no_removals(ops) ==
    /\ last_commit < column.commits /\ Len(commits) < MaxQueue
    /\ ~ReadLocked
    /\ last_commit' = last_commit + 1
    /\ LET numbered == [i \in DOMAIN ops |-> ops[i] @@ [value |-> last_commit' * MaxOps + i]]
           overlaid == {ops[i].key : i \in {j \in DOMAIN ops : ops[j].length > 0}}
       IN  /\ commits' = Append(commits, [id |-> last_commit', ops |-> numbered])
           /\ commit_overlay' = [k \in Keys |-> IF k \in overlaid THEN last_commit'
                                                ELSE commit_overlay[k]]
    /\ UNCHANGED <<planning, pointers, log, file, readers, restarts>>

\* DbInner::commit_raw, IndexedChangeSet::copy_to_overlay: a dereference does not go into the
\* commit overlay.
commit_raw(ops) ==
    /\ last_commit < column.commits /\ Len(commits) < MaxQueue
    /\ ~ReadLocked
    /\ last_commit' = last_commit + 1
    /\ LET numbered == [i \in DOMAIN ops |-> ops[i] @@ [value |-> last_commit' * MaxOps + i]]
           overlaid == {ops[i].key : i \in {j \in DOMAIN ops : ~ref_counted \/ ops[j].length > 0}}
       IN  /\ commits' = Append(commits, [id |-> last_commit', ops |-> numbered])
           /\ commit_overlay' = [k \in Keys |-> IF k \in overlaid THEN last_commit'
                                                ELSE commit_overlay[k]]
    /\ UNCHANGED <<planning, pointers, log, file, readers, restarts>>

pop_commit ==
    /\ planning = <<>> /\ commits # <<>>
    /\ planning' = <<[commit |-> Head(commits), logged |-> FALSE]>>
    /\ commits' = Tail(commits)
    /\ UNCHANGED <<last_commit, commit_overlay, pointers, log, file, readers, restarts>>

\* process_commits: plan every change, complete the plan, end the record.
end_record ==
    /\ planning # <<>> /\ ~planning[1].logged
    /\ \E w \in {complete_plan(WritePlans(begin_record, planning[1].commit.ops))} :
           /\ log' = Append(log, [slots |-> w.slots, header |-> w.header, index |-> w.index,
                                  store |-> w.store])
           /\ pointers' = w.pointers
    /\ planning' = [planning EXCEPT ![1].logged = TRUE]
    /\ UNCHANGED <<commits, last_commit, commit_overlay, file, readers, restarts>>

clean_overlay ==
    /\ planning # <<>> /\ planning[1].logged
    /\ ~ReadLocked
    /\ LET commit == planning[1].commit
       IN  commit_overlay' = [k \in Keys |->
               IF commit_overlay[k] = commit.id THEN 0 ELSE commit_overlay[k]]
    /\ planning' = <<>>
    /\ UNCHANGED <<commits, last_commit, pointers, log, file, readers, restarts>>

\* enact_logs: every entry of the oldest record, then Log::end_read.
enact_plan ==
    /\ log # <<>>
    /\ file' = Enacted(file, Head(log))
    /\ log' = Tail(log)
    /\ UNCHANGED <<commits, last_commit, commit_overlay, planning, pointers, readers, restarts>>

\* Mutant of refresh_metadata: a table whose header was never written.
refresh_metadata_raw(header) == header

\* ValueTable::refresh_metadata, and open: slot 0 holds the header, so the first free slot is 1.
refresh_metadata(header) == IF header.filled = 0 THEN [header EXCEPT !.filled = 1] ELSE header

\* A crash and the replay of the records that survived it, then refresh_metadata.
restart ==
    /\ restarts < MaxCrashes /\ restarts' = restarts + 1
    /\ \E n \in 0 .. Len(log) : file' = AfterRecords(file, SubSeq(log, 1, n))
    /\ pointers' = [t \in Tiers |-> refresh_metadata(file'.header[t])]
    /\ commits' = <<>> /\ planning' = <<>> /\ log' = <<>>
    /\ commit_overlay' = [k \in Keys |-> 0]
    /\ readers' = [r \in Readers |-> IdleReader]
    /\ UNCHANGED last_commit

-----------------------------------------------------------------------------
(* Callers of get.                                                         *)

SetReader(r, reader) ==
    /\ readers' = [readers EXCEPT ![r] = reader]
    /\ UNCHANGED <<commits, last_commit, commit_overlay, planning, pointers, log, file, restarts>>

\* DbInner::get for a key that is not in the commit overlay: IndexTable::get.
get(r, k) ==
    /\ readers[r].pc = "idle" /\ commit_overlay[k] = 0
    /\ SetReader(r, [pc |-> "part", key |-> k, at |-> Logged.index[k], parts |-> <<>>])

\* for_parts: a missing entry, a tombstone or another key ends the search.
get_part(r) ==
    LET reader == readers[r]
        found == reader.at # NoAddress
        entry == Logged.slots[<<reader.at.tier, reader.at.offset>>]
    IN  /\ reader.pc = "part"
        /\ IF found /\ entry.kind # "free" /\ (reader.parts = <<>> => entry.key = reader.key)
           THEN SetReader(r, [reader EXCEPT
                    !.parts = Append(@, [value |-> entry.value, part |-> entry.part]),
                    !.at = [@ EXCEPT !.offset = entry.next],
                    !.pc = IF entry.next = 0 THEN "done" ELSE @])
           ELSE SetReader(r, [reader EXCEPT !.parts = <<>>, !.at = NoAddress, !.pc = "done"])

get_return(r) ==
    /\ readers[r].pc = "done"
    /\ SetReader(r, IdleReader)

-----------------------------------------------------------------------------

Ops == [key : Keys, length : column.lengths \cup {0}]
Changes == UNION {[1 .. n -> Ops] : n \in 1 .. MaxOps}

Step ==
    \/ \E ops \in Changes : commit_raw(ops)
    \/ pop_commit \/ end_record \/ clean_overlay
    \/ enact_plan
    \/ restart
    \/ \E r \in column.readers : (\E k \in Keys : get(r, k)) \/ get_part(r) \/ get_return(r)

Next == Step /\ UNCHANGED column

Spec == Init /\ [][Next]_vars

-----------------------------------------------------------------------------
(* Properties.                                                             *)

(* The type invariant: `filled` and `last_removed` of a value table stay in     *)
(* range, also after refresh_metadata: slot 0 is the header and never allocated, *)
(* and the free list begins below `filled`.                                     *)
TypeOK ==
    /\ {commits[i].id : i \in DOMAIN commits} \subseteq 1 .. last_commit
    /\ commit_overlay \in [Keys -> 0 .. last_commit]
    /\ Len(planning) <= 1
    /\ pointers \in [Tiers -> [filled : Nat \ {0}, last_removed : Nat]]
    /\ \A t \in Tiers : pointers[t].last_removed < pointers[t].filled
    /\ DOMAIN file.slots \subseteq Tiers \X (Nat \ {0})
    /\ restarts \in 0 .. MaxCrashes

\* The offsets of a chain of slots, from the one at i on.
RECURSIVE Chain(_, _, _)
Chain(slots, t, i) == IF i = 0 THEN <<>> ELSE <<i>> \o Chain(slots, t, slots[<<t, i>>].next)

Members(seq) == {seq[j] : j \in DOMAIN seq}

(* Every slot below `filled` is either in the free list, once, as a tombstone,  *)
(* or in the chain of exactly one key: next_free, overwrite_chain and           *)
(* clear_chain never lose a slot, free one twice or share one, and the header   *)
(* logged by complete_plan gives the same free list after a restart.            *)
SlotsAccounted ==
    \A t \in Tiers :
        LET slots == Logged.slots
            free == Chain(slots, t, pointers[t].last_removed)
            owners == {k \in Keys : Logged.index[k].tier = t}
            chain(k) == Chain(slots, t, Logged.index[k].offset)
        IN  /\ Cardinality(Members(free)) = Len(free)
            /\ \A i \in Members(free) : slots[<<t, i>>].kind = "free"
            /\ \A k \in owners : Members(chain(k)) \cap Members(free) = {}
            /\ \A j, k \in owners : j # k => Members(chain(j)) \cap Members(chain(k)) = {}
            /\ Members(free) \cup UNION {Members(chain(k)) : k \in owners}
                   = 1 .. pointers[t].filled - 1

(* Through the index, every key reads back as the value last stored for it,     *)
(* part by part, with the number of references it should have (counts stop at   *)
(* LOCKED_REF and stay there), and no other key is found.                       *)
ValuesReadBack ==
    \A k \in Keys :
        LET address == Logged.index[k]
            chain == Chain(Logged.slots, address.tier, address.offset)
            stored == Logged.store[k]
            slot(p) == Logged.slots[<<address.tier, chain[p]>>]
        IN  IF stored = NoValue THEN address = NoAddress
            ELSE /\ Len(chain) = stored.length
                 /\ slot(1).kind = "head" /\ slot(1).key = k /\ slot(1).rc = stored.rc
                 /\ \A p \in 1 .. stored.length :
                        slot(p).value = stored.value /\ slot(p).part = p

\* The parts that a call of get has put together are the parts of one value, all of them.
WholeValue(parts) == \A p \in DOMAIN parts : parts[p].value = parts[1].value /\ parts[p].part = p

(* In a column without reference counts a call of get returns the parts of one  *)
(* value, although the log worker frees and reuses the slots of the chain that  *)
(* for_parts follows.                                                           *)
ReadsWholeValue ==
    \A r \in Readers : readers[r].pc = "done" /\ ~ref_counted => WholeValue(readers[r].parts)

(* "Queries can't retrieve partially committed data" (README.md): the same in   *)
(* every column.                                                                *)
QueriesReadWhole == \A r \in Readers : readers[r].pc = "done" => WholeValue(readers[r].parts)

=============================================================================
