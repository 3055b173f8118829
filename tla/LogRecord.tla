----------------------------- MODULE LogRecord -----------------------------
(***************************************************************************)
(* The bytes of a log file (src/src/log.rs): how LogChange::flush_to_file  *)
(* lays a record out, how LogReader parses it back, and how enact_logs     *)
(* (src/src/db.rs) validates a record and then reads it a second time to   *)
(* apply it.  The length of an entry is not in the log: the reader finds   *)
(* it from the mask of an index page or from the head of a value slot, so  *)
(* one misjudged entry would make everything behind it be read wrongly.    *)
(*                                                                         *)
(* A file is a sequence of cells, one for each field the code writes, and  *)
(* one for each part of a value.  The CRC-32 of some cells is modelled by  *)
(* the cells themselves, so no two differ by accident.  Module Wal has the *)
(* life of the log files; here there is one file, which a crash may cut    *)
(* short or leave with holes of zeros.                                     *)
(***************************************************************************)
EXTENDS Integers, FiniteSets, SequencesExt

CONSTANTS
    Bodies,      \* the bodies of records: sequences of Op
    EntryCells,  \* cells of a multipart slot
    TotalEntries,\* IndexTableId::total_entries
    MaxRecords,  \* bound: records of the file
    MaxCrashes   \* bound: crashes

BEGIN_RECORD == 1
INSERT_INDEX == 2
INSERT_VALUE == 3
END_RECORD == 4
DROP_TABLE == 5
TOMBSTONE == 90
MULTIPART == 91

\* An index op carries its mask and the modified entries, a value op the
\* cells of the slot: the header for slot 0, else a head and what follows.
Op(op) ==
    /\ op.tag \in {INSERT_INDEX, INSERT_VALUE, DROP_TABLE}
    /\ op.tag = INSERT_INDEX => op.index \in 0..(TotalEntries - 1)
ASSUME BodiesAssumption == \A body \in Bodies : \A i \in DOMAIN body : Op(body[i])

VARIABLES
    written,  \* the records appended to the file: [id, body]
    file,     \* the cells of the file
    synced,   \* number of cells that are on disk
    durable,  \* number of records whose file was synced by flush_one
    mode,     \* what the database is doing with the file
    reader,   \* the LogReader
    done,     \* the records enacted in this reading of the file
    cleared,  \* what the last record enacted took out of the log overlays
    last_enacted,
    crashes

vars == <<written, file, synced, durable, mode, reader, done, cleared, last_enacted, crashes>>

-----------------------------------------------------------------------------
(* Writing.                                                                *)

Cells(s) == [i \in DOMAIN s |-> <<s[i]>>]

EncodeOp(op) ==
    IF op.tag = DROP_TABLE THEN Cells(<<op.tag, op.table>>)
    ELSE Cells(<<op.tag, op.table, op.index>> \o op.data)

crc32(cells) == FlattenSeq(cells)

\* LogChange::flush_to_file.  (The order of the ops is that of hash maps.)
flush_to_file(id, body) ==
    LET start == Cells(<<BEGIN_RECORD, id>>)
        ops == FoldLeft(LAMBDA acc, op : acc \o EncodeOp(op), start, body)
        all == ops \o Cells(<<END_RECORD>>)
    IN  Append(all, crc32(all))

\* Log::end_record.
end_record(body) ==
    /\ mode = "append" /\ Len(written) < MaxRecords
    /\ LET id == Len(written) + 1
       IN  /\ written' = Append(written, [id |-> id, body |-> body])
           /\ file' = file \o flush_to_file(id, body)
    /\ UNCHANGED <<synced, durable, mode, reader, done, cleared, last_enacted, crashes>>

\* Log::flush_one: the file is synced and given to the reader.
flush_one ==
    /\ mode = "append" /\ written # <<>>
    /\ synced' = Len(file)
    /\ durable' = Len(written)
    /\ mode' = "run"
    /\ UNCHANGED <<written, file, reader, done, cleared, last_enacted, crashes>>

-----------------------------------------------------------------------------
(* Reading.                                                                *)

NoReader == [phase |-> "none", pos |-> 0, read_bytes |-> 0, id |-> 0, crc |-> <<>>,
             cleared |-> <<>>, body |-> <<>>]

Eof(p) == p > Len(file)
ReadInt(p) == IF ~Eof(p) /\ Len(file[p]) = 1 THEN file[p][1] ELSE 0

\* The cells of a slot's data, or of a page's, found from its first cell
\* (validate_plan and enact_plan of ValueTable and IndexTable).
Ones(mask) == IF mask \in {0, 1, 2, 3} THEN (mask % 2) + (mask \div 2) ELSE 64
plan_length(tag, index, head) ==
    IF tag = INSERT_INDEX THEN 1 + Ones(head)
    ELSE IF index = 0 \/ head = TOMBSTONE THEN 2
    ELSE IF head = MULTIPART THEN EntryCells
    ELSE 1 + head

\* LogReader::next, and for an insertion the plan that reads its data: what
\* was read, and the position behind it.
Error == [tag |-> -1, table |-> 0, next |-> 0]
read_action(p) ==
    IF Eof(p) THEN Error
    ELSE LET tag == ReadInt(p)
             index == ReadInt(p + 2)
             n == plan_length(tag, index, ReadInt(p + 3))
         IN  CASE tag \in {BEGIN_RECORD, DROP_TABLE} ->
                      IF Eof(p + 1) THEN Error
                      ELSE [tag |-> tag, table |-> ReadInt(p + 1), next |-> p + 2]
               [] tag = END_RECORD ->
                      IF Eof(p + 1) THEN Error
                      ELSE [tag |-> tag, crc |-> file[p + 1], next |-> p + 2]
               [] tag \in {INSERT_INDEX, INSERT_VALUE} ->
                      IF Eof(p + 3) \/ Eof(p + 2 + n) THEN Error
                      ELSE [tag |-> tag, table |-> ReadInt(p + 1), index |-> index,
                            data |-> [i \in 1..n |-> ReadInt(p + 2 + i)], next |-> p + 3 + n]
               [] OTHER -> Error

\* validate_plan of the column: an index page outside the table is refused.
validate_plan(a) == a.tag = INSERT_INDEX => a.index < TotalEntries

OpRead(a) ==
    IF a.tag = DROP_TABLE THEN [tag |-> a.tag, table |-> a.table]
    ELSE [tag |-> a.tag, table |-> a.table, index |-> a.index, data |-> a.data]

Page(op) == <<op.tag, op.table, op.index>>

\* Mutant: the checksum's bytes are not counted.
advance_uncounted(r, a) ==
    LET bytes == a.next - r.pos
        hashed == IF a.tag = END_RECORD THEN bytes - 1 ELSE bytes
    IN  [r EXCEPT !.pos = a.next, !.read_bytes = @ + hashed,
                  !.crc = @ \o crc32(SubSeq(file, r.pos, r.pos + hashed - 1)),
                  !.cleared = IF a.tag \in {INSERT_INDEX, INSERT_VALUE}
                              THEN Append(@, Page(a)) ELSE @]

\* The reader after reading a: all cells but the checksum go into the CRC.
advance(r, a) ==
    LET bytes == a.next - r.pos
        hashed == IF a.tag = END_RECORD THEN bytes - 1 ELSE bytes
    IN  [r EXCEPT !.pos = a.next, !.read_bytes = @ + bytes,
                  !.crc = @ \o crc32(SubSeq(file, r.pos, r.pos + hashed - 1)),
                  !.cleared = IF a.tag \in {INSERT_INDEX, INSERT_VALUE}
                              THEN Append(@, Page(a)) ELSE @]

\* Mutant: the pages collected in the first reading are kept.
reset_keep_cleared(r) ==
    [NoReader EXCEPT !.phase = "enact", !.pos = r.pos - r.read_bytes + 2, !.read_bytes = 2,
                     !.id = r.id, !.cleared = r.cleared]

\* LogReader::reset, and the reader.next() that skips the header again.
reset(r) ==
    [NoReader EXCEPT !.phase = "enact", !.pos = r.pos - r.read_bytes + 2, !.read_bytes = 2,
                     !.id = r.id]

\* Mutant: the reader is not dropped with the log file.
clear_replay_logs_keep_reader ==
    /\ mode' = "cleared" /\ file' = <<>> /\ synced' = 0
    /\ UNCHANGED <<written, durable, reader, done, cleared, last_enacted, crashes>>

\* Log::clear_replay_logs.
clear_replay_logs ==
    /\ mode' = "cleared" /\ file' = <<>> /\ synced' = 0
    /\ reader' = NoReader
    /\ UNCHANGED <<written, durable, done, cleared, last_enacted, crashes>>

\* What a failed read means: replay gives the logs up, a running database
\* stops with the error.
bad_record ==
    IF mode = "replay" THEN clear_replay_logs
    ELSE /\ mode' = "corrupt" /\ reader' = NoReader
         /\ UNCHANGED <<written, file, synced, durable, done, cleared, last_enacted, crashes>>

\* Log::read_next.  A file that ends inside the entry that should be a
\* record's header counts as read to the end.
read_next ==
    /\ mode \in {"run", "replay"} /\ reader.phase = "none"
    /\ LET p == IF reader.pos = 0 THEN 1 ELSE reader.pos
           a == read_action(p)
           ends == Eof(p) \/ (a = Error /\ ReadInt(p) \in BEGIN_RECORD..DROP_TABLE)
       IN  \/ /\ ends
              /\ mode' = IF mode = "run" THEN "finished" ELSE "replayed"
              /\ UNCHANGED <<written, file, synced, durable, reader, done, cleared,
                             last_enacted, crashes>>
           \/ /\ ~ends
              /\ a.tag # BEGIN_RECORD \/ (mode = "replay" /\ a.table # last_enacted + 1)
              /\ bad_record
           \/ /\ ~ends
              /\ a.tag = BEGIN_RECORD /\ (mode = "replay" => a.table = last_enacted + 1)
              /\ reader' = [advance([NoReader EXCEPT !.pos = p], a) EXCEPT
                                !.id = a.table,
                                !.phase = IF mode = "replay" THEN "validate" ELSE "enact"]
              /\ UNCHANGED <<written, file, synced, durable, mode, done, cleared,
                             last_enacted, crashes>>

\* Mutant: the checksum is not compared.
validate_unchecked ==
    /\ reader.phase = "validate"
    /\ LET a == read_action(reader.pos)
           r == advance(reader, a)
       IN  IF a = Error \/ a.tag = BEGIN_RECORD THEN clear_replay_logs
           ELSE IF ~validate_plan(a) THEN clear_replay_logs
           ELSE /\ reader' = IF a.tag = END_RECORD THEN reset(r) ELSE r
                /\ UNCHANGED <<written, file, synced, durable, mode, done, cleared, last_enacted, crashes>>

\* enact_logs, first reading of a record, in replay only.
validate ==
    /\ reader.phase = "validate"
    /\ LET a == read_action(reader.pos)
           r == advance(reader, a)
       IN  IF a = Error \/ a.tag = BEGIN_RECORD THEN clear_replay_logs
           ELSE IF a.tag = END_RECORD
           THEN IF a.crc # r.crc THEN clear_replay_logs
                ELSE /\ reader' = reset(r)
                     /\ UNCHANGED <<written, file, synced, durable, mode, done, cleared, last_enacted, crashes>>
           ELSE IF ~validate_plan(a) THEN clear_replay_logs
           ELSE /\ reader' = r
                /\ UNCHANGED <<written, file, synced, durable, mode, done, cleared, last_enacted, crashes>>

\* enact_logs, second reading.  An error here is an error of the database.
enact ==
    /\ reader.phase = "enact"
    /\ LET a == read_action(reader.pos)
           r == advance(reader, a)
       IN  IF a = Error \/ a.tag = BEGIN_RECORD
           THEN /\ mode' = "corrupt"
                /\ reader' = NoReader
                /\ UNCHANGED <<done, cleared, last_enacted>>
           ELSE IF a.tag = END_RECORD
           THEN /\ done' = Append(done, [id |-> r.id, body |-> r.body])
                /\ cleared' = r.cleared
                /\ last_enacted' = r.id
                /\ reader' = [NoReader EXCEPT !.pos = r.pos]
                /\ UNCHANGED mode
           ELSE /\ reader' = [r EXCEPT !.body = Append(@, OpRead(a))]
                /\ UNCHANGED <<mode, done, cleared, last_enacted>>
    /\ UNCHANGED <<written, file, synced, durable, crashes>>

-----------------------------------------------------------------------------
(* Crashes and opening.                                                    *)

\* Of what was not synced, the file may lose its end, or keep its length
\* and have a hole of zeros.
Cut == {SubSeq(file, 1, n) : n \in synced..Len(file)}
Holed ==
    {[i \in DOMAIN file |-> IF i \in hole[1]..hole[2] THEN <<0>> ELSE file[i]] :
        hole \in ((synced + 1)..Len(file)) \X ((synced + 1)..Len(file))}

crash ==
    /\ crashes < MaxCrashes
    /\ mode \in {"append", "run", "replay"}
    /\ file' \in Cut \cup Holed
    /\ synced' = Len(file')
    /\ crashes' = crashes + 1
    /\ mode' = "closed" /\ reader' = NoReader
    /\ UNCHANGED <<written, durable, done, cleared, last_enacted>>

\* Mutant: the first record id is taken for the last one enacted.
open_off_by_one ==
    /\ mode = "closed"
    /\ done' = <<>> /\ cleared' = <<>>
    /\ CASE file = <<>> -> mode' = "replayed" /\ UNCHANGED last_enacted
         [] Len(file) = 1 -> mode' = "unopened" /\ UNCHANGED last_enacted
         [] OTHER -> mode' = "replay" /\ last_enacted' = ReadInt(2)
    /\ UNCHANGED <<written, file, synced, durable, reader, crashes>>

\* Log::open and open_log_file: an empty file is removed, of another one the
\* id of the first record is read (nine bytes: the first two cells).  An id
\* of zero wraps last_enacted around to u64::MAX, here -1.
open ==
    /\ mode = "closed"
    /\ done' = <<>> /\ cleared' = <<>>
    /\ CASE file = <<>> -> mode' = "replayed" /\ UNCHANGED last_enacted
         [] Len(file) = 1 -> mode' = "unopened" /\ UNCHANGED last_enacted
         [] OTHER -> mode' = "replay" /\ last_enacted' = ReadInt(2) - 1
    /\ UNCHANGED <<written, file, synced, durable, reader, crashes>>

Init ==
    /\ written = <<>> /\ file = <<>> /\ synced = 0 /\ durable = 0 /\ mode = "append"
    /\ reader = NoReader /\ done = <<>> /\ cleared = <<>> /\ last_enacted = 0 /\ crashes = 0

Next ==
    \/ \E body \in Bodies : end_record(body)
    \/ flush_one
    \/ read_next
    \/ validate
    \/ enact
    \/ crash
    \/ open

Spec == Init /\ [][Next]_vars

-----------------------------------------------------------------------------
(* Properties.                                                             *)

\* The type invariant: the reader stays inside the file.
TypeOK ==
    /\ mode \in {"append", "run", "finished", "closed", "replay", "replayed", "cleared",
                 "corrupt", "unopened"}
    /\ reader.phase \in {"none", "validate", "enact"}
    /\ reader.pos \in 0..(Len(file) + 1) /\ reader.read_bytes \in 0..Len(file)
    /\ synced \in 0..Len(file)
    /\ Len(written) <= MaxRecords /\ crashes <= MaxCrashes

\* The cells of some records.
Encoded(records) == FoldLeft(LAMBDA acc, r : acc \o flush_to_file(r.id, r.body), <<>>, records)

\* README, Durability: whatever the crash left of the file, what a reading
\* of it applies is always the first records written, each op of each as it
\* was written, and never an op of a record that is not whole.
AppliedAsWritten ==
    /\ IsPrefix(done, written)
    /\ reader.phase = "enact" =>
        /\ Len(done) < Len(written)
        /\ IsPrefix(reader.body, written[Len(done) + 1].body)

\* A reading that comes to its end has applied every record that flush_one
\* synced, after a crash as without one; and a replay that did not give the
\* file up has applied all that is in it.
NoneLost ==
    /\ mode \in {"finished", "replayed", "cleared"} => Len(done) >= durable
    /\ mode = "replayed" => /\ IsPrefix(Encoded(done), file)
                            /\ Len(file) < Len(Encoded(done)) + 2

\* The pages a record takes out of the log overlays (end_read) are the pages
\* it wrote, each once, although the reader went over the record twice.
ClearedAsWritten ==
    done # <<>> =>
        cleared = [i \in DOMAIN SelectSeq(Last(done).body, LAMBDA op : op.tag # DROP_TABLE) |->
                      Page(SelectSeq(Last(done).body, LAMBDA op : op.tag # DROP_TABLE)[i])]

\* The comment of enact_plan: what validation let through is enacted without
\* error, at opening and while running.
EnactSucceeds == mode # "corrupt"

\* README, Durability: "Database is restored to consistent state if IO is
\* interrupted at any point."
OpenSucceeds == mode # "unopened"

=============================================================================
