----------------------------- MODULE Migration -----------------------------
(***************************************************************************)
(* migrate (src/src/migration.rs), which rewrites the columns of a         *)
(* database with other options, and the metadata file that says with which *)
(* options a database was written (src/src/options.rs).                    *)
(*                                                                         *)
(* Three directories take part: the source, the destination and, inside    *)
(* the source, the temporary one that keeps a column while its files are   *)
(* replaced.  A column is an index file and a table file; a file holds an  *)
(* image, [opts, map]: what the column had when the file was its own, and  *)
(* the options it was written with.  Files of two images do not make a     *)
(* column.  The destination is a whole database: its commits are applied   *)
(* in order in the background, and a background error stops that.          *)
(***************************************************************************)
EXTENDS Integers, Sequences, FiniteSets, SequencesExt

CONSTANTS
    Keys,          \* 1..n, in the order of the iteration over a column
    Setups,        \* [from, to, data, pending, overwrite, force]: see MCMigration
    COMMIT_SIZE,
    Restarts,      \* after which ends of migrate it is called again
    MaxRuns,       \* bound: calls of migrate
    MaxFaults      \* bound: background errors of the destination

VARIABLES
    setup,           \* one of Setups, for the whole behaviour
    pc,              \* the step migrate is at, or how it ended
    c,               \* the column it works on
    at,              \* the last key it has read of that column
    commit,          \* the changes not yet committed: <<column, key, value>>
    nb_commit,
    source_options,  \* the columns of the options that the source is opened with
    queue,           \* changes committed to the destination and not yet applied
    bg_err,          \* the destination's background error
    meta,            \* meta[d]: the metadata file of a directory, [exists, lines]
    files,           \* files[d][c][f]: the image in a file
    pending,         \* pending[c]: keys of the source that are only in an older index
    runs,
    faults

vars == <<setup, pc, c, at, commit, nb_commit, source_options, queue, bg_err, meta, files, pending,
          runs, faults>>

Dirs == {"from", "to", "tmp"}
Files == {"index", "table"}
Columns == DOMAIN setup.from
EmptyValue == 0
NoItem == [value |-> EmptyValue, rc |-> 0]

-----------------------------------------------------------------------------
(* The metadata file.                                                      *)

\* ColumnOptions::as_string and from_string: the threshold is not written.
\* (uniform and compression are written and read like preimage.)
DefaultThreshold == 4096
as_string(o) ==
    [preimage |-> o.preimage, ref_counted |-> o.ref_counted, btree_index |-> o.btree_index]
from_string(s) ==
    [preimage |-> s.preimage, ref_counted |-> s.ref_counted, btree_index |-> s.btree_index,
     compression_threshold |-> DefaultThreshold]
is_valid(o) == ~(o.btree_index /\ o.preimage)

\* Db::open asserts that the options are valid.
ASSUME MigrationAssumption ==
    /\ Keys = 1..Cardinality(Keys) /\ COMMIT_SIZE \in Nat \ {0}
    /\ Restarts \subseteq {"err", "crashed", "broken"}
    /\ \A s \in Setups : /\ Len(s.from) = Len(s.data) /\ Len(s.from) = Len(s.pending)
                         /\ \A i \in DOMAIN s.from : is_valid(s.from[i])
                         /\ \A i \in DOMAIN s.to : is_valid(s.to[i])

NoMetadata == [exists |-> FALSE, lines |-> <<>>]
Lines(columns) ==
    <<[k |-> "version"], [k |-> "salt"]>>
        \o [i \in DOMAIN columns |-> [k |-> "col", v |-> as_string(columns[i])]]
\* Options::write_metadata_file.
write_metadata(d, columns) ==
    meta' = [meta EXCEPT ![d] = [exists |-> TRUE, lines |-> Lines(columns)]]

\* Options::load_metadata_file: an error without version or salt.
load_error(d) == meta[d].exists /\ Len(meta[d].lines) < 2
load_metadata(d) == [i \in 1..(Len(meta[d].lines) - 2) |-> from_string(meta[d].lines[i + 2].v)]

\* load_and_validate_metadata without create: the options are those of the file.
validates(d, columns) ==
    meta[d].exists /\ ~load_error(d) /\ load_metadata(d) = columns

-----------------------------------------------------------------------------
(* The destination.                                                        *)

NoImage == [present |-> FALSE, opts |-> <<>>, map |-> [k \in Keys |-> NoItem]]
NewImage(o) == [present |-> TRUE, opts |-> <<as_string(o)>>, map |-> [k \in Keys |-> NoItem]]

\* Column::write_existing_value_plan and write_new_value_plan for a value.
Insert(item, o, value) ==
    IF item.rc = 0 THEN [value |-> value, rc |-> 1]
    ELSE IF o.ref_counted THEN [item EXCEPT !.rc = @ + 1]
    ELSE IF o.preimage THEN item
    ELSE [item EXCEPT !.value = value]

Apply(fs, change) ==
    LET col == change[1]
        old == IF fs["to"][col]["index"].present THEN fs["to"][col]["index"]
               ELSE NewImage(setup.to[col])
        new == [old EXCEPT !.map[change[2]] = Insert(@, setup.to[col], change[3])]
    IN  [fs EXCEPT !["to"][col] = [f \in Files |-> new]]

\* Dropping the destination applies what is queued, unless it has failed.
Dropped == IF bg_err THEN files ELSE FoldLeft(Apply, files, queue)

dest_apply ==
    /\ queue # <<>> /\ ~bg_err /\ pc \in {"column", "iterate", "commit", "import"}
    /\ files' = Apply(files, Head(queue))
    /\ queue' = Tail(queue)
    /\ UNCHANGED <<setup, pc, c, at, commit, nb_commit, source_options, bg_err, meta, pending, runs,
                   faults>>

dest_error ==
    /\ faults < MaxFaults /\ pc \in {"iterate", "import"}
    /\ bg_err' = TRUE /\ faults' = faults + 1
    /\ UNCHANGED <<setup, pc, c, at, commit, nb_commit, source_options, queue, meta, files, pending,
                   runs>>

\* The log worker of the source moves a key to the newest index.
source_reindex ==
    /\ pc \in {"column", "iterate"}
    /\ \E col \in Columns : \E k \in pending[col] :
           pending' = [pending EXCEPT ![col] = @ \ {k}]
    /\ UNCHANGED <<setup, pc, c, at, commit, nb_commit, source_options, queue, bg_err, meta, files,
                   runs, faults>>

-----------------------------------------------------------------------------
(* migrate.                                                                *)

\* What a database in d reads of a column.
Readable(d, col) ==
    /\ \A f \in Files : files[d][col][f] = files[d][col]["index"]
    /\ files[d][col]["index"].present =>
           files[d][col]["index"].opts = <<as_string(load_metadata(d)[col])>>
Map(d, col) == IF Readable(d, col) THEN files[d][col]["index"].map ELSE NoImage.map

\* The first lines of migrate.
start ==
    /\ pc \in {"idle"} \cup Restarts /\ runs < MaxRuns
    /\ meta["from"].exists /\ ~load_error("from")
    /\ runs' = runs + 1
    /\ source_options' = load_metadata("from")
    /\ c' = 1 /\ at' = 0 /\ commit' = <<>> /\ nb_commit' = 0 /\ queue' = <<>> /\ bg_err' = FALSE
    /\ pc' = IF Len(load_metadata("from")) # Len(setup.to) THEN "err" ELSE "open"
    /\ UNCHANGED <<setup, meta, files, pending, faults>>

\* Db::open_or_create of the destination.
open_or_create ==
    /\ pc = "open"
    /\ IF meta["to"].exists
       THEN pc' = (IF validates("to", setup.to) THEN "column" ELSE "err") /\ UNCHANGED meta
       ELSE pc' = "column" /\ write_metadata("to", setup.to)
    /\ UNCHANGED <<setup, c, at, commit, nb_commit, source_options, queue, bg_err, files, pending,
                   runs, faults>>

to_migrate(col) ==
    col \in setup.force \/ load_metadata("from")[col] # setup.to[col]

NextColumn == IF c = Len(setup.from) THEN "final" ELSE "column"

\* The head of the loop over the columns.  iter_column_while of an ordered
\* column is unimplemented!().
column ==
    /\ pc = "column"
    /\ at' = 0
    /\ CASE to_migrate(c) ->
                /\ pc' = IF source_options[c].btree_index THEN "panic" ELSE "iterate"
                /\ UNCHANGED <<c, queue, files>>
         [] ~to_migrate(c) /\ setup.overwrite ->
                /\ pc' = NextColumn /\ c' = c + 1
                /\ UNCHANGED <<queue, files>>
         [] OTHER ->
                /\ pc' = "copy" /\ files' = Dropped /\ queue' = <<>>
                /\ UNCHANGED c
    /\ UNCHANGED <<setup, commit, nb_commit, source_options, bg_err, meta, pending, runs, faults>>

\* copy_column, a file at a time, and the destination opened again.
copy_column ==
    /\ pc = "copy"
    /\ LET left == {f \in Files : files["from"][c][f] # files["to"][c][f]}
       IN  IF left # {}
           THEN /\ \E f \in left : files' = [files EXCEPT !["to"][c][f] = files["from"][c][f]]
                /\ UNCHANGED <<pc, c, bg_err>>
           ELSE /\ bg_err' = FALSE /\ c' = c + 1
                /\ pc' = IF validates("to", setup.to) THEN NextColumn ELSE "err"
                /\ UNCHANGED files
    /\ UNCHANGED <<setup, at, commit, nb_commit, source_options, queue, meta, pending, runs, faults>>

\* One change of the callback of iter_column_while: the value goes into the
\* first change of the key, and a full batch is committed.
push(s, i, k, item) ==
    LET changes == Append(s.commit, <<c, k, IF i = 1 THEN item.value ELSE EmptyValue>>)
    IN  IF s.failed THEN s
        ELSE IF s.nb + 1 # COMMIT_SIZE THEN [s EXCEPT !.commit = changes, !.nb = @ + 1]
        ELSE IF bg_err THEN [s EXCEPT !.commit = <<>>, !.nb = @ + 1, !.failed = TRUE]
        ELSE [s EXCEPT !.commit = <<>>, !.nb = 0, !.queue = @ \o changes]

\* The next key of the iteration.  It reads the newest index, or the value
\* tables when the keys are hashes of the values; there a commit that failed
\* only ends the reading of one table.
iterate ==
    /\ pc = "iterate"
    /\ LET k == at + 1
           preimage == source_options[c].preimage
           item == IF k \in pending[c] /\ ~preimage THEN NoItem ELSE Map("from", c)[k]
           s == FoldLeft(LAMBDA acc, i : push(acc, i, k, item),
                         [commit |-> commit, nb |-> nb_commit, queue |-> queue, failed |-> FALSE],
                         [i \in 1..item.rc |-> i])
       IN  /\ commit' = s.commit /\ nb_commit' = s.nb /\ queue' = s.queue
           /\ at' \in IF s.failed /\ preimage THEN k..Cardinality(Keys) ELSE {k}
           /\ IF at' < Cardinality(Keys) /\ (s.failed => preimage) THEN UNCHANGED <<pc, c>>
              ELSE IF setup.overwrite THEN pc' = "commit" /\ UNCHANGED c
              ELSE pc' = NextColumn /\ c' = c + 1
    /\ UNCHANGED <<setup, source_options, bg_err, meta, files, pending, runs, faults>>

-----------------------------------------------------------------------------
(* The rest of the loop's body with overwrite.                             *)

\* Mutant: the count of the batch is not reset.
commit_column_count ==
    /\ pc = "commit"
    /\ IF bg_err THEN pc' = "err" /\ UNCHANGED <<commit, nb_commit, queue>>
       ELSE /\ pc' = "import" /\ queue' = queue \o commit /\ commit' = <<>> /\ UNCHANGED nb_commit
    /\ UNCHANGED <<setup, c, at, source_options, bg_err, meta, files, pending, runs, faults>>

\* dest.commit_raw(commit).
commit_column ==
    /\ pc = "commit"
    /\ IF bg_err THEN pc' = "err" /\ UNCHANGED <<commit, nb_commit, queue>>
       ELSE /\ pc' = "import" /\ queue' = queue \o commit /\ commit' = <<>> /\ nb_commit' = 0
    /\ UNCHANGED <<setup, c, at, source_options, bg_err, meta, files, pending, runs, faults>>

\* The destination is dropped, opened and dropped; the temporary directory
\* is made anew.
import ==
    /\ pc = "import"
    /\ queue' = <<>> /\ bg_err' = FALSE
    /\ IF validates("to", setup.to)
       THEN /\ pc' = "move_out"
            /\ files' = [Dropped EXCEPT !["tmp"] = [col \in Columns |-> [f \in Files |-> NoImage]]]
       ELSE pc' = "err" /\ files' = Dropped
    /\ UNCHANGED <<setup, c, at, commit, nb_commit, source_options, meta, pending, runs, faults>>

\* Mutant: the old files are deleted, not kept in the temporary directory.
move_column_delete(a, b, then) ==
    LET left == {f \in Files : files[a][c][f].present}
    IN  /\ IF left # {}
           THEN /\ \E f \in left :
                       files' = [files EXCEPT ![b][c][f] = IF b = "tmp" THEN NoImage ELSE files[a][c][f],
                                              ![a][c][f] = NoImage]
                /\ UNCHANGED pc
           ELSE pc' = then /\ UNCHANGED files
        /\ UNCHANGED <<setup, c, at, commit, nb_commit, source_options, queue, bg_err, meta,
                       pending, runs, faults>>

\* move_column, a file at a time.
move_column(a, b, then) ==
    LET left == {f \in Files : files[a][c][f].present}
    IN  /\ IF left # {}
           THEN /\ \E f \in left :
                       files' = [files EXCEPT ![b][c][f] = files[a][c][f], ![a][c][f] = NoImage]
                /\ UNCHANGED pc
           ELSE pc' = then /\ UNCHANGED files
        /\ UNCHANGED <<setup, c, at, commit, nb_commit, source_options, queue, bg_err, meta,
                       pending, runs, faults>>


\* The source's metadata gets the new options of the column.
update_metadata ==
    /\ pc = "metadata"
    /\ source_options' = [source_options EXCEPT ![c] = setup.to[c]]
    /\ write_metadata("from", source_options')
    /\ pc' = "reopen"
    /\ UNCHANGED <<setup, c, at, commit, nb_commit, queue, bg_err, files, pending, runs, faults>>

\* The temporary directory is removed and both databases opened again.
reopen ==
    /\ pc = "reopen"
    /\ files' = [files EXCEPT !["tmp"] = [col \in Columns |-> [f \in Files |-> NoImage]]]
    /\ pc' = IF validates("from", source_options) /\ validates("to", setup.to)
             THEN NextColumn ELSE "err"
    /\ c' = c + 1
    /\ UNCHANGED <<setup, at, commit, nb_commit, source_options, queue, bg_err, meta, pending, runs,
                   faults>>

-----------------------------------------------------------------------------


\* The last commit_raw, and the destination dropped on return; a background
\* error that comes after the commit loses it.
finish ==
    /\ pc = "final"
    /\ pc' = IF bg_err THEN "err" ELSE "ok"
    /\ \/ files' = IF bg_err THEN files ELSE FoldLeft(Apply, files, queue \o commit)
       \/ faults < MaxFaults /\ files' = files
    /\ faults' = IF files' = files /\ ~bg_err /\ queue \o commit # <<>> THEN faults + 1 ELSE faults
    /\ queue' = <<>> /\ commit' = <<>>
    /\ UNCHANGED <<setup, c, at, nb_commit, source_options, bg_err, meta, pending, runs>>

\* The process stops.  While the files of a column are being replaced, this
\* leaves the source in pieces: "please restore manually before restarting".
\* A metadata file that was being written is cut off after some of its lines.
crash ==
    /\ pc \notin {"idle", "ok", "err", "panic", "crashed", "broken"}
    /\ pc' = IF pc \in {"move_out", "move_in", "metadata"} THEN "broken" ELSE "crashed"
    /\ \/ UNCHANGED meta
       \/ /\ pc = "metadata"
          /\ \E n \in 0..(Len(setup.from) + 1) :
                 meta' = [meta EXCEPT !["from"].lines =
                             SubSeq(Lines([source_options EXCEPT ![c] = setup.to[c]]), 1, n)]
       \/ /\ pc = "open" /\ ~meta["to"].exists
          /\ \E n \in 0..(Len(setup.to) + 1) :
                 meta' = [meta EXCEPT !["to"] = [exists |-> TRUE,
                                                 lines |-> SubSeq(Lines(setup.to), 1, n)]]
    /\ queue' = <<>> /\ commit' = <<>>
    /\ UNCHANGED <<setup, c, at, nb_commit, source_options, bg_err, files, pending, runs, faults>>

Original(col) ==
    [NewImage(setup.from[col]) EXCEPT !.map = setup.data[col]]

Init ==
    /\ setup \in Setups
    /\ pc = "idle" /\ c = 1 /\ at = 0 /\ commit = <<>> /\ nb_commit = 0
    /\ source_options = <<>> /\ queue = <<>> /\ bg_err = FALSE
    /\ meta = [d \in Dirs |-> IF d = "from" THEN [exists |-> TRUE, lines |-> Lines(setup.from)]
                              ELSE NoMetadata]
    /\ files = [d \in Dirs |-> [col \in Columns |-> [f \in Files |->
                   IF d = "from" THEN Original(col) ELSE NoImage]]]
    /\ pending = setup.pending
    /\ runs = 0 /\ faults = 0

Next ==
    \/ start \/ open_or_create \/ column \/ copy_column \/ iterate
    \/ commit_column \/ import
    \/ pc = "move_out" /\ move_column("from", "tmp", "move_in")
    \/ pc = "move_in" /\ move_column("to", "from", "metadata")
    \/ update_metadata \/ reopen
    \/ finish
    \/ dest_apply \/ dest_error \/ source_reindex
    \/ crash

Spec == Init /\ [][Next]_vars

-----------------------------------------------------------------------------
(* Properties.                                                             *)

\* The type invariant; nb_commit counts the changes of the batch, until a
\* commit has failed.
TypeOK ==
    /\ pc \in {"idle", "open", "column", "copy", "iterate", "commit", "import", "move_out",
               "move_in", "metadata", "reopen", "final", "ok", "err", "panic", "crashed",
               "broken"}
    /\ c \in 1..(Len(setup.from) + 1) /\ at \in 0..Cardinality(Keys)
    /\ faults = 0 /\ pc \in {"column", "copy", "iterate", "commit", "import"} =>
           nb_commit = Len(commit) /\ nb_commit < COMMIT_SIZE

\* A column image has all the source had: the keys, the values and, where
\* references are counted, the references.
Same(col, image) ==
    \A k \in Keys :
        LET item == setup.data[col][k]
        IN  /\ (image.map[k].rc > 0) = (item.rc > 0)
            /\ item.rc > 0 => image.map[k].value = item.value
            /\ image.opts[1].ref_counted /\ item.rc > 0 =>
                   IF runs = 1 THEN image.map[k].rc = item.rc ELSE image.map[k].rc >= item.rc
Holds(d, col) ==
    /\ meta[d].exists /\ ~load_error(d) /\ col <= Len(load_metadata(d)) /\ Readable(d, col)
    /\ LET image == files[d][col]["index"]
       IN  IF image.present THEN Same(col, image) ELSE \A k \in Keys : setup.data[col][k].rc = 0

\* The iteration reads all of the column: nothing waits to be reindexed, or
\* the value tables are read.
ReadInFull(col) == setup.pending[col] = {} \/ setup.from[col].preimage



\* And in that moment, interrupted or not, "please restore manually before
\* restarting" can be done: the column as it was is whole, in the source and
\* the temporary directory.
Revertible ==
    faults = 0 /\ pc \in {"move_out", "move_in", "metadata", "broken"} /\ ReadInFull(c) =>
        \E d, e \in {"from", "tmp"} :
            LET image == files[d][c]["index"]
            IN  /\ image.present /\ Same(c, image)
                /\ image.opts = <<as_string(source_options[c])>>
                /\ files[e][c]["table"] = image

\* migrate_simple: after migrate(..).unwrap(), "dest.get" gives the value.
MigratedAlways ==
    pc = "ok" => LET d == IF setup.overwrite THEN "from" ELSE "to"
                 IN  \A col \in Columns : Holds(d, col)

\* A column with any valid options can be a destination.
MigrateSucceeds == pc # "err"

=============================================================================
