--------------------------- MODULE BTreeIterator ---------------------------
(***************************************************************************)
(* BTreeIterator (src/src/btree/iter.rs) while other threads commit to the *)
(* column.  A call of next merges two sources: the commit overlay, and a   *)
(* walk of the tree as the log overlays and the tables hold it.  The walk  *)
(* keeps nodes in memory, so it is only good for the tree it was started   *)
(* on: the iterator compares record ids and replays a seek at its last key *)
(* when a record of the column was logged meanwhile.                       *)
(*                                                                         *)
(* The tree is abstracted to the map it holds (module BTree shows that a   *)
(* walk returns its keys in order and that a seek goes on from the key or  *)
(* from the one after it).  A walk is the map it was opened on and the     *)
(* lowest key it may still return.                                         *)
(***************************************************************************)
EXTENDS Integers, Sequences, FiniteSetsExt

CONSTANTS
    Keys,       \* 1..n, ordered as the code orders byte strings
    Changes,    \* the changes a commit may carry: functions from keys to
                \* TRUE (write) or FALSE (remove)
    MaxCommits, \* bound: commits made while the iterator is in use
    MaxSeeks    \* bound: seeks of the iterator's user

VARIABLES
    overlay,    \* commit_overlay: key -> [id, value]
    queue,      \* the commit queue: [id, changes]
    logged,     \* the head of the queue is in the log, its overlay not cleaned
    tree,       \* key -> value: the tree through the log overlays
    rooted,     \* the tree has a root node
    record,     \* LogOverlays::last_record_id of the column
    commits,    \* number of commits made
    seeks,      \* number of seeks made
    iter,       \* the iterator
    present,    \* keys a query would have found all through the current call
    seen        \* <<key, value>> a query could have found during the call

db == <<overlay, queue, logged, tree, rooted, record, commits>>
vars == <<overlay, queue, logged, tree, rooted, record, commits, seeks, iter, present, seen>>

None == -1         \* the value of a removed key
MAX == -1          \* u64::MAX: no record of the column since the start
Start == 0         \* below every key
NoItem == [key |-> Start, value |-> None]
Unfetched == [key |-> -1, value |-> None]
End == Max(Keys) + 1

ASSUME KeysAssumption == Max(Keys) \in Nat \ {0} /\ Keys = 1..Max(Keys)
ASSUME BoundsAssumption == MaxCommits \in Nat /\ MaxSeeks \in Nat
ASSUME ChangesAssumption == Changes \subseteq UNION {[S -> BOOLEAN] : S \in SUBSET Keys}

-----------------------------------------------------------------------------
(* What a query finds: the commit overlay, then the tree.                  *)

Read(ov, t, k) ==
    IF k \in DOMAIN ov THEN ov[k].value ELSE IF k \in DOMAIN t THEN t[k] ELSE None
Visible(ov, t) == {k \in Keys : Read(ov, t, k) # None}

-----------------------------------------------------------------------------
(* Committing threads and the commit worker (db.rs).                       *)

\* BTreeChangeSet::copy_to_overlay: commit number n writes value n.
commit(ch) ==
    /\ commits < MaxCommits
    /\ LET id == commits + 1
           value == [k \in DOMAIN ch |-> IF ch[k] THEN id ELSE None]
       IN  /\ commits' = id
           /\ overlay' = [k \in DOMAIN ch \cup DOMAIN overlay |->
                            IF k \in DOMAIN ch THEN [id |-> id, value |-> value[k]] ELSE overlay[k]]
           /\ queue' = Append(queue, [id |-> id, changes |-> value])
    /\ UNCHANGED <<logged, tree, rooted, record, seeks, iter>>

\* process_commits as far as end_record.  A record that writes no value of
\* the column leaves last_record_id alone.
process_commit ==
    /\ queue # <<>> /\ ~logged
    /\ LET ch == Head(queue).changes
           gone == {k \in DOMAIN ch : ch[k] = None}
           put == DOMAIN ch \ gone
           wrote == put # {} \/ gone \cap DOMAIN tree # {} \/ ~rooted
       IN  /\ tree' = [k \in put \cup (DOMAIN tree \ gone) |-> IF k \in put THEN ch[k] ELSE tree[k]]
           /\ record' = IF wrote THEN Head(queue).id ELSE record
    /\ rooted' = TRUE
    /\ logged' = TRUE
    /\ UNCHANGED <<overlay, queue, commits, seeks, iter>>

\* BTreeChangeSet::clean_overlay: entries a later commit replaced stay.
clean_overlay ==
    /\ logged
    /\ LET c == Head(queue)
           cleaned == {k \in DOMAIN c.changes : k \in DOMAIN overlay /\ overlay[k].id = c.id}
       IN  overlay' = [k \in DOMAIN overlay \ cleaned |-> overlay[k]]
    /\ queue' = Tail(queue)
    /\ logged' = FALSE
    /\ UNCHANGED <<tree, rooted, record, commits, seeks, iter>>

-----------------------------------------------------------------------------
(* BTreeIterState over the abstract tree: [tree, record, cursor].          *)

\* Mutant: the walk skips a key each time it goes on.
walk_next_by_two(w) ==
    LET rest == {k \in DOMAIN w.tree : k >= w.cursor}
    IN  IF rest = {} THEN [walk |-> [w EXCEPT !.cursor = End], item |-> NoItem]
        ELSE LET k == Min(rest)
             IN  [walk |-> [w EXCEPT !.cursor = k + 2], item |-> [key |-> k, value |-> w.tree[k]]]

walk_next(w) ==
    LET rest == {k \in DOMAIN w.tree : k >= w.cursor}
    IN  IF rest = {} THEN [walk |-> [w EXCEPT !.cursor = End], item |-> NoItem]
        ELSE LET k == Min(rest)
             IN  [walk |-> [w EXCEPT !.cursor = k + 1], item |-> [key |-> k, value |-> w.tree[k]]]

walk_seek(w, key, after) == [w EXCEPT !.cursor = IF after THEN key + 1 ELSE key]

\* Mutant: the record id is brought up to date, the root is not read again.
reopen_id_only(w) == [w EXCEPT !.record = record]

reopen(w) == [w EXCEPT !.tree = tree, !.record = record]

-----------------------------------------------------------------------------
(* BTreeIterator.                                                          *)

NoWalk == [tree |-> <<>>, record |-> MAX, cursor |-> Start]

\* new reads the record id under the log's lock, and opens the tree later.
new ==
    /\ iter.pc = "none"
    /\ iter' = [iter EXCEPT !.pc = "opening", !.walk.record = record]
    /\ UNCHANGED <<db, seeks>>

new_open ==
    /\ iter.pc = "opening"
    /\ iter' = [iter EXCEPT !.pc = "ready", !.walk.tree = tree]
    /\ UNCHANGED <<db, seeks>>

seek_backend(key) ==
    LET w == IF record # iter.walk.record THEN reopen(iter.walk) ELSE iter.walk
    IN  walk_seek(w, key, FALSE)

\* The user may seek before, during or after an iteration.
seek(key) ==
    /\ iter.pc \in {"ready", "returned"}
    /\ seeks < MaxSeeks
    /\ seeks' = seeks + 1
    /\ iter' = [iter EXCEPT !.pc = "ready", !.from_seek = TRUE, !.last_key = key,
                            !.pending = Unfetched, !.walk = seek_backend(key), !.item = NoItem]
    /\ UNCHANGED db

\* The user calls next, until it has returned None.
call_next ==
    /\ iter.pc = "ready" \/ (iter.pc = "returned" /\ iter.item # NoItem)
    /\ iter' = [iter EXCEPT !.pc = "next", !.from = iter.last_key, !.item = NoItem,
                            !.sought = iter.pc = "ready" /\ iter.from_seek]
    /\ UNCHANGED <<db, seeks>>

\* CommitOverlay::btree_next.
btree_next ==
    LET above == {k \in DOMAIN overlay : k > iter.last_key \/ (iter.from_seek /\ k = iter.last_key)}
    IN  IF above = {} THEN NoItem ELSE [key |-> Min(above), value |-> overlay[Min(above)].value]

\* A walk of another tree than the log now has is opened again and goes on
\* after the last key, if there is one.
next_backend ==
    IF record = iter.walk.record THEN walk_next(iter.walk)
    ELSE IF iter.last_key = Start THEN walk_next(reopen(iter.walk))
    ELSE walk_next(walk_seek(reopen(iter.walk), iter.last_key, TRUE))


Pass(it, key) == [it EXCEPT !.last_key = key, !.from_seek = FALSE]
Return(it, key, value) ==
    [it EXCEPT !.pc = "returned", !.last_key = key, !.item = [key |-> key, value |-> value]]

ReturnOrPass(it, o) ==
    IF o.value = None THEN Pass(it, o.key)
    ELSE [Return(it, o.key, o.value) EXCEPT !.from_seek = FALSE]

\* Mutant: the tree's value is returned for a key that is in both.
merge_backend(it, o, b) ==
    IF o = NoItem
    THEN IF b = NoItem THEN [it EXCEPT !.pc = "returned", !.pending = NoItem]
         ELSE Return(it, b.key, b.value)
    ELSE IF b = NoItem \/ o.key < b.key THEN ReturnOrPass([it EXCEPT !.pending = b], o)
    ELSE Return(it, b.key, b.value)

merge(it, o, b) ==
    IF o = NoItem
    THEN IF b = NoItem THEN [it EXCEPT !.pc = "returned", !.pending = NoItem]
         ELSE Return(it, b.key, b.value)
    ELSE IF b = NoItem \/ o.key < b.key THEN ReturnOrPass([it EXCEPT !.pending = b], o)
    ELSE IF o.key > b.key THEN Return(it, b.key, b.value)
    ELSE ReturnOrPass(it, o)

\* Mutant: the item fetched before is kept when a record was logged since.
next_keep_pending ==
    /\ iter.pc = "next"
    /\ LET r == IF iter.pending = Unfetched THEN next_backend
                ELSE [walk |-> iter.walk, item |-> iter.pending]
       IN  iter' = merge([iter EXCEPT !.walk = r.walk, !.pending = Unfetched],
                         btree_next, r.item)
    /\ UNCHANGED <<db, seeks>>

next ==
    /\ iter.pc = "next"
    /\ LET fetched == IF record # iter.walk.record THEN Unfetched ELSE iter.pending
           r == IF fetched = Unfetched THEN next_backend
                ELSE [walk |-> iter.walk, item |-> fetched]
       IN  iter' = merge([iter EXCEPT !.walk = r.walk, !.pending = Unfetched],
                         btree_next, r.item)
    /\ UNCHANGED <<db, seeks>>

-----------------------------------------------------------------------------
Init ==
    /\ overlay = <<>> /\ queue = <<>> /\ logged = FALSE
    /\ \E S \in SUBSET Keys : tree = [k \in S |-> 0]
    /\ rooted \in BOOLEAN /\ (DOMAIN tree # {} => rooted)
    /\ record = MAX /\ commits = 0 /\ seeks = 0
    /\ iter = [pc |-> "none", walk |-> NoWalk, pending |-> Unfetched, last_key |-> Start,
               from_seek |-> FALSE, item |-> NoItem, from |-> Start, sought |-> FALSE]
    /\ present = {} /\ seen = {}

\* The history of the current call: reset when it starts.
Observe ==
    LET now == Visible(overlay', tree')
        items == {<<k, Read(overlay', tree', k)>> : k \in now}
    IN  IF iter'.pc # "next" /\ iter.pc # "next" THEN UNCHANGED <<present, seen>>
        ELSE IF iter.pc # "next" THEN present' = now /\ seen' = items
        ELSE present' = present \cap now /\ seen' = seen \cup items

Step ==
    \/ \E ch \in Changes : commit(ch)
    \/ process_commit
    \/ clean_overlay
    \/ new
    \/ new_open
    \/ \E key \in Keys : seek(key)
    \/ call_next
    \/ next

Next == Step /\ Observe

\* The thread inside next is scheduled; nobody has to commit, to process
\* commits, to seek or to call next.
Fairness == WF_vars(next /\ Observe)

Spec == Init /\ [][Next]_vars /\ Fairness

-----------------------------------------------------------------------------
(* Properties.                                                             *)

Item == [key : Keys, value : 0..MaxCommits]
Maps == UNION {[S -> 0..MaxCommits] : S \in SUBSET Keys}
Walk == [tree : Maps, record : {MAX} \cup 1..MaxCommits, cursor : Start..End]
Iter == [pc : {"none", "opening", "ready", "next", "returned"}, walk : Walk,
         pending : {Unfetched, NoItem} \cup Item, last_key : Start..Max(Keys),
         from_seek : BOOLEAN, item : {NoItem} \cup Item, from : Start..Max(Keys),
         sought : BOOLEAN]

\* The type invariant: the cursor, the last key and the items of the iterator
\* are positions and keys of the column.
TypeOK ==
    /\ iter \in Iter
    /\ DOMAIN overlay \subseteq Keys /\ Len(queue) <= MaxCommits
    /\ present \subseteq Keys

Returned == iter.pc = "returned"

\* The comment of iter.rs: the iterator replays a seek at its latest accessed
\* key when a commit happened.  So a walk that goes on without one is a walk
\* of the tree the log has now, never of nodes that were replaced or freed.
WalkIsCurrent == iter.pc \notin {"none", "opening"} /\ record = iter.walk.record => iter.walk.tree = tree

\* test_btree_iter: whatever is committed, logged or cleaned between two
\* calls and while a removed key is passed over, no key above the last one
\* that a query would have found all along is passed over.
NoneMissed ==
    Returned => \A k \in present : k > iter.from =>
        iter.item # NoItem /\ iter.item.key <= k

\* An iteration never goes back, and what it returns is a key and value that
\* a query could have found during the call, not what the walk remembered.
ReturnsVisible ==
    Returned /\ iter.item # NoItem =>
        /\ <<iter.item.key, iter.item.value>> \in seen
        /\ iter.item.key >= iter.from


\* test_indexed_btree_inner: after a seek, next returns the key sought, if a
\* query would find it all through the call.
SeekReturnsKey ==
    Returned /\ iter.sought /\ iter.from \in present => iter.item # NoItem /\ iter.item.key = iter.from

\* test_btree_iter_inner: the iteration goes on above the last key returned.
NoneRepeated == Returned /\ iter.item # NoItem /\ ~iter.sought => iter.item.key # iter.from

=============================================================================
