------------------------------- MODULE BTree -------------------------------
(***************************************************************************)
(* The B-tree of an ordered column: src/src/btree.  A commit's changes to  *)
(* the column are sorted and applied to the tree in one pass               *)
(* (write_sorted_changes, Node::change) that splits full nodes on the way  *)
(* up, borrows from or merges with a sibling when a removal leaves a node  *)
(* short, and grows or drops the root.  Nodes and values live in slots of  *)
(* the column's value tables; a node whose encoding outgrows or underflows *)
(* its size tier moves to another slot and its parent must follow.         *)
(*                                                                         *)
(* Slots are abstracted to addresses <<tier, offset>> with the lowest free *)
(* offset taken first (module ValueTable has the real free list).  A node  *)
(* in memory is its separators and children, as sequences, and the flag    *)
(* `changed`; a leaf has no children.  Positions count from 0, as in the   *)
(* code.                                                                   *)
(***************************************************************************)
EXTENDS Integers, FiniteSets, SequencesExt

CONSTANTS
    ORDER,       \* most separators of a node (8 in the code), even
    Keys,        \* the keys, a set of naturals: their order is the byte order
    Values,      \* the values of the column
    NodeTier,    \* size tier of a node, by its number of separators
    ValueTier,   \* size tier of a value
    ChangeLists, \* the change lists a commit may carry for this column
    RefCounted   \* ColumnOptions::ref_counted

ASSUME OrderAssumption == ORDER \in Nat \ {0} /\ ORDER % 2 = 0
ASSUME KeysAssumption == Keys \subseteq Nat /\ IsFiniteSet(Keys)
ASSUME TierAssumption ==
    /\ NodeTier \in [0..ORDER -> Nat]
    /\ ValueTier \in [Values -> Nat]

VARIABLES
    tables,    \* address -> [content, rc]: the column's value tables
    committed  \* key -> value: what the commits so far add up to

vars == <<tables, committed>>

None == "none"
NULL_ADDRESS == <<0, 0>>
HEADER_ADDRESS == <<0, 1>>

Change == [key : Keys, value : Values \cup {None}]
ASSUME ChangeListsAssumption == ChangeLists \subseteq Seq(Change)

-----------------------------------------------------------------------------
(* Value tables, as the tree uses them (Column::write_*_value_plan).       *)

Tier(content) ==
    CASE content.kind = "header" -> 0
      [] content.kind = "value" -> ValueTier[content.value]
      [] content.kind = "node" -> NodeTier[Len(content.separators)]

next_free(t, tier) ==
    CHOOSE a \in {<<tier, i>> : i \in 1..(Cardinality(DOMAIN t) + 1)} :
        /\ a \notin DOMAIN t
        /\ \A i \in 1..(a[2] - 1) : <<tier, i>> \in DOMAIN t

\* Every write returns the tables and the address to remember, NULL_ADDRESS
\* when the one the caller has is still right.
write_new_value_plan(t, content) ==
    LET At(a) == [t |-> t @@ (a :> [content |-> content, rc |-> 1]), a |-> a]
    IN  At(next_free(t, Tier(content)))

write_remove_plan(t, a) ==
    IF RefCounted /\ t[a].rc > 1
    THEN [t EXCEPT ![a].rc = @ - 1]
    ELSE [b \in DOMAIN t \ {a} |-> t[b]]

write_existing_value_plan(t, a, content) ==
    IF RefCounted THEN [t |-> [t EXCEPT ![a].rc = @ + 1], a |-> NULL_ADDRESS]
    ELSE IF Tier(content) = a[1]
         THEN [t |-> [t EXCEPT ![a].content = content], a |-> NULL_ADDRESS]
         ELSE write_new_value_plan(write_remove_plan(t, a), content)

-----------------------------------------------------------------------------
(* Nodes.                                                                  *)

Node(separators, children) ==
    [separators |-> separators, children |-> children, changed |-> TRUE]

from_encoded(content) ==
    [separators |-> content.separators, children |-> content.children, changed |-> FALSE]

Encoded(n) == [kind |-> "node", separators |-> n.separators, children |-> n.children]

number_separator(n) == Len(n.separators)
has_separator(n, i) == number_separator(n) > i
middle == ORDER \div 2
has_child(n, i) == i < Len(n.children)

\* The first separator not below the key, and whether it is the key.
position(n, key) ==
    LET i == Min({j \in 1..number_separator(n) : key <= n.separators[j].key}
                     \cup {number_separator(n) + 1}) - 1
    IN  [at |-> has_separator(n, i) /\ n.separators[i + 1].key = key, i |-> i]

fetch_child(t, n, i) == from_encoded(t[n.children[i + 1]].content)

fetch_root(t, root) == IF root = NULL_ADDRESS THEN Node(<<>>, <<>>) ELSE from_encoded(t[root].content)

write_node_plan(t, n, id) ==
    IF ~n.changed THEN [t |-> t, a |-> NULL_ADDRESS]
    ELSE IF id = NULL_ADDRESS THEN write_new_value_plan(t, Encoded(n))
    ELSE write_existing_value_plan(t, id, Encoded(n))

\* A child that did not change is not written; the parent changes when the
\* child moved.
write_child(t, n, i, child) ==
    LET Written(w) ==
            [t |-> w.t,
             n |-> IF w.a = NULL_ADDRESS THEN n
                   ELSE [n EXCEPT !.children[i + 1] = w.a, !.changed = TRUE]]
    IN  Written(write_node_plan(t, child, n.children[i + 1]))

\* Mutant: the new address of a value that moved is dropped.
create_separator_stale(t, key, value, existing) ==
    LET content == [kind |-> "value", value |-> value]
        w == IF existing = NULL_ADDRESS
             THEN write_new_value_plan(t, content)
             ELSE write_existing_value_plan(t, existing, content)
    IN  [t |-> w.t,
         separator |-> [key |-> key, addr |-> IF existing = NULL_ADDRESS THEN w.a ELSE existing]]

create_separator(t, key, value, existing) ==
    LET content == [kind |-> "value", value |-> value]
        Written(w) ==
            [t |-> w.t,
             separator |-> [key |-> key, addr |-> IF w.a = NULL_ADDRESS THEN existing ELSE w.a]]
    IN  Written(IF existing = NULL_ADDRESS THEN write_new_value_plan(t, content)
                ELSE write_existing_value_plan(t, existing, content))

need_rebalance(n) == ~has_separator(n, middle - 1)

-----------------------------------------------------------------------------
(* Results: [t, n, changes, split, short].  `split` is NoSplit or the      *)
(* separator and right node's address to insert above; `short` tells the   *)
(* parent to rebalance.                                                    *)

NoSplit == <<>>
Result(t, n, cs, sp, short) == [t |-> t, n |-> n, changes |-> cs, split |-> sp, short |-> short]

\* The three cases of Node::insert and insert_node on a full node, and
\* Node::split: of the ORDER + 1 separators the first ORDER/2 stay, the next
\* one goes up, the others go to a new right node.
split(t, n, cs) ==
    LET right == Node(SubSeq(n.separators, middle + 2, ORDER + 1),
                      SubSeq(n.children, middle + 2, Len(n.children)))
        left == Node(SubSeq(n.separators, 1, middle),
                     IF n.children = <<>> THEN <<>> ELSE SubSeq(n.children, 1, middle + 1))
        Written(w) == Result(w.t, left, cs, <<n.separators[middle + 1], w.a>>, FALSE)
    IN  Written(write_node_plan(t, right, NULL_ADDRESS))

\* Inserts a separator at i, and the child to its right if there is one
\* (shift_from, set_separator, set_child).
insert_separator(t, n, i, separator, child, cs) ==
    LET full == has_separator(n, ORDER - 1)
        m == Node(InsertAt(n.separators, i + 1, separator),
                  IF child = NULL_ADDRESS THEN n.children ELSE InsertAt(n.children, i + 2, child))
    IN  IF full THEN split(t, m, cs) ELSE Result(t, m, cs, NoSplit, FALSE)

insert_node(t, n, at, separator, right, cs) == insert_separator(t, n, at, separator, right, cs)

balance_from_left(t, n, at) ==
    LET left == fetch_child(t, n, at - 1)
        right == fetch_child(t, n, at)
        newLeft == Node(Front(left.separators), SubSeq(left.children, 1, Len(left.children) - 1))
        newRight == Node(<<n.separators[at]>> \o right.separators,
                         IF left.children = <<>> THEN <<>>
                         ELSE <<Last(left.children)>> \o right.children)
        m == [n EXCEPT !.separators[at] = Last(left.separators), !.changed = TRUE]
        Written(w) == write_child(w.t, w.n, at, newRight)
    IN  Written(write_child(t, m, at - 1, newLeft))

balance_from_right(t, n, at) ==
    LET left == fetch_child(t, n, at)
        right == fetch_child(t, n, at + 1)
        newLeft == Node(Append(left.separators, n.separators[at + 1]),
                        IF right.children = <<>> THEN <<>>
                        ELSE Append(left.children, Head(right.children)))
        newRight == Node(Tail(right.separators),
                         IF right.children = <<>> THEN <<>> ELSE Tail(right.children))
        m == [n EXCEPT !.separators[at + 1] = Head(right.separators), !.changed = TRUE]
        Written(w) == write_child(w.t, w.n, at + 1, newRight)
    IN  Written(write_child(t, m, at, newLeft))

\* Merges the children at and at + 1 into the left one.  The right node's
\* slot is freed, then the emptied right node is written to a new slot that
\* nothing will point to, unless it was empty to begin with.
merge(t, n, at) ==
    LET left == fetch_child(t, n, at)
        right == fetch_child(t, n, at + 1)
        newLeft == Node(left.separators \o <<n.separators[at + 1]>> \o right.separators,
                        left.children \o right.children)
        emptied == [Node(<<>>, <<>>) EXCEPT
                        !.changed = right.separators # <<>> \/ right.children # <<>>]
        freed == write_remove_plan(t, n.children[at + 2])
        Written(w) ==
            [t |-> write_node_plan(w.t, emptied, NULL_ADDRESS).t,
             n |-> Node(RemoveAt(n.separators, at + 1), RemoveAt(w.n.children, at + 2))]
    IN  Written(write_child(freed, n, at, newLeft))

rebalance(t, n, at) ==
    IF at > 0 /\ has_separator(fetch_child(t, n, at - 1), middle)
    THEN balance_from_left(t, n, at)
    ELSE IF at < number_separator(n) /\ has_separator(fetch_child(t, n, at + 1), middle)
    THEN balance_from_right(t, n, at)
    ELSE merge(t, n, IF at = number_separator(n) THEN at - 1 ELSE at)

\* A node whose child was rebalanced may be short itself.
Rebalanced(b, cs) == Result(b.t, b.n, cs, NoSplit, need_rebalance(b.n))

-----------------------------------------------------------------------------
(* One pass of a sorted change list over a node and the nodes below.       *)

RECURSIVE change(_, _, _, _, _)
RECURSIVE remove_last(_, _, _)

\* What Node::insert and Node::remove do when the key is not in the node
\* but may be below it.
change_child(t, n, depth, i, cs) ==
    LET Written(w, r) ==
            IF r.split # NoSplit
            THEN insert_node(w.t, w.n, i, r.split[1], r.split[2], r.changes)
            ELSE IF r.short THEN Rebalanced(rebalance(w.t, w.n, i), r.changes)
            ELSE Result(w.t, w.n, r.changes, NoSplit, FALSE)
        Changed(r) == Written(write_child(r.t, n, i, r.n), r)
    IN  Changed(change(t, fetch_child(t, n, i), [n |-> n, i |-> i], depth - 1, cs))

insert(t, n, depth, cs) ==
    LET p == position(n, cs[1].key)
        Separator(existing) == create_separator(t, cs[1].key, cs[1].value, existing)
        Replaced(s) == Result(s.t, Node([n.separators EXCEPT ![p.i + 1] = s.separator], n.children),
                              cs, NoSplit, FALSE)
        Inserted(s) == insert_separator(s.t, n, p.i, s.separator, NULL_ADDRESS, cs)
    IN  IF p.at THEN Replaced(Separator(n.separators[p.i + 1].addr))
        ELSE IF depth # 0 THEN change_child(t, n, depth, p.i, cs)
        ELSE Inserted(Separator(NULL_ADDRESS))

\* A key of an inner node is replaced by the largest key below its left.
remove(t, n, depth, cs) ==
    LET p == position(n, cs[1].key)
        freed == write_remove_plan(t, n.separators[p.i + 1].addr)
        leaf == Node(RemoveAt(n.separators, p.i + 1), n.children)
        Replaced(r, w) == Node([n.separators EXCEPT ![p.i + 1] = r.separator], w.n.children)
        Written(w, r) == Rebalanced(IF r.short THEN rebalance(w.t, Replaced(r, w), p.i)
                                    ELSE [t |-> w.t, n |-> Replaced(r, w)], cs)
        Removed(r) == Written(write_child(r.t, n, p.i, r.n), r)
    IN  IF ~p.at
        THEN IF depth = 0 THEN Result(t, n, cs, NoSplit, FALSE)
             ELSE change_child(t, n, depth, p.i, cs)
        ELSE IF depth = 0 THEN Result(freed, leaf, cs, NoSplit, need_rebalance(leaf))
        ELSE Removed(remove_last(freed, fetch_child(freed, n, p.i), depth - 1))

remove_last(t, n, depth) ==
    LET i == number_separator(n) - 1
        leaf == Node(Front(n.separators), n.children)
        Removed(b, separator, short) ==
            [t |-> b.t, n |-> b.n, separator |-> separator, short |-> short /\ need_rebalance(b.n)]
        Written(w, r) ==
            Removed(IF r.short THEN rebalance(w.t, w.n, i + 1) ELSE w, r.separator, r.short)
        Below(r) == Written(write_child(r.t, n, i + 1, r.n), r)
    IN  IF depth = 0 THEN Removed([t |-> t, n |-> leaf], Last(n.separators), TRUE)
        ELSE Below(remove_last(t, fetch_child(t, n, i + 1), depth - 1))

\* Mutant: the last gap of the parent, which is open above, counts too.
same_node_last(n, parent, key) ==
    LET p == position(n, key)
        q == position(parent.n, key)
    IN  p.at \/ has_separator(n, p.i) \/ (~q.at /\ q.i = parent.i)

\* The next change is handled here, without going back to the root, when
\* its key falls inside this node or in the same gap of the parent.
same_node(n, parent, key) ==
    LET p == position(n, key)
        q == position(parent.n, key)
    IN  \/ p.at \/ has_separator(n, p.i)
        \/ ~q.at /\ q.i = parent.i /\ has_separator(parent.n, q.i)

NoParent == [n |-> Node(<<>>, <<>>), i |-> -1]

change(t, n, parent, depth, cs) ==
    IF Len(cs) > 1 /\ cs[1].key = cs[2].key THEN change(t, n, parent, depth, Tail(cs))
    ELSE LET Done(r) ==
                 IF /\ r.split = NoSplit /\ ~r.short /\ Len(r.changes) > 1
                    /\ parent # NoParent
                    /\ same_node(r.n, parent, r.changes[2].key)
                 THEN change(r.t, r.n, parent, depth, Tail(r.changes))
                 ELSE r
         IN  Done(IF cs[1].value # None THEN insert(t, n, depth, cs) ELSE remove(t, n, depth, cs))

-----------------------------------------------------------------------------
(* The tree: BTree and BTreeChangeSet.                                     *)

btree_header(t) == t[HEADER_ADDRESS].content

Or(a, b) == IF a # NULL_ADDRESS THEN a ELSE b

\* A split root gets a new root above it.
add_level(r, b) ==
    LET w == write_node_plan(r.t, r.n, b.root)
    IN  [t |-> w.t, root |-> NULL_ADDRESS, depth |-> b.depth + 1,
         n |-> Node(<<r.split[1]>>, <<Or(w.a, b.root), r.split[2]>>)]

need_remove_root(n) == number_separator(n) = 0 /\ has_child(n, 0)

\* Mutant: the depth is not decremented.
remove_root_deep(r, b) ==
    [t |-> IF b.root = NULL_ADDRESS THEN r.t ELSE write_remove_plan(r.t, b.root),
     root |-> r.n.children[1], depth |-> b.depth, n |-> fetch_child(r.t, r.n, 0)]

\* A root left with a single child is freed and the child becomes the root.
remove_root(r, b) ==
    [t |-> IF b.root = NULL_ADDRESS THEN r.t ELSE write_remove_plan(r.t, b.root),
     root |-> r.n.children[1], depth |-> b.depth - 1, n |-> fetch_child(r.t, r.n, 0)]

\* b: [t, root, depth, n], n the root node in memory.
RECURSIVE write_sorted_changes(_, _)
write_sorted_changes(b, cs) ==
    LET Root(r) == IF r.split # NoSplit THEN add_level(r, b)
                   ELSE IF r.short /\ need_remove_root(r.n) THEN remove_root(r, b)
                   ELSE [b EXCEPT !.t = r.t, !.n = r.n]
        Changed(r) == write_sorted_changes(Root(r), Tail(r.changes))
        Written(w) == [t |-> w.t, root |-> Or(w.a, b.root), depth |-> b.depth]
    IN  IF cs = <<>> THEN Written(write_node_plan(b.t, b.n, b.root))
        ELSE Changed(change(b.t, b.n, NoParent, b.depth, cs))

Ascending(S) ==
    [i \in 1..Cardinality(S) |-> CHOOSE k \in S : Cardinality({j \in S : j < k}) = i - 1]

\* Mutant: an unstable sort (sort_unstable_by_key) swaps changes to one key.
sort_by_key_unstable(cs) ==
    FoldLeft(LAMBDA acc, k : acc \o Reverse(SelectSeq(cs, LAMBDA c : c.key = k)),
             <<>>, Ascending(Keys))

\* sort_by_key is stable: the last of several changes to a key stays last.
sort_by_key(cs) ==
    FoldLeft(LAMBDA acc, k : acc \o SelectSeq(cs, LAMBDA c : c.key = k),
             <<>>, Ascending(Keys))

\* BTreeChangeSet::write_plan.  The header is rewritten when it changed.
ApplyChanges(t, cs) ==
    LET old == btree_header(t)
        Written(b, new) ==
            IF new = old THEN b.t ELSE write_existing_value_plan(b.t, HEADER_ADDRESS, new).t
        Changed(b) == Written(b, [kind |-> "header", root |-> b.root, depth |-> b.depth])
    IN  Changed(write_sorted_changes([t |-> t, root |-> old.root, depth |-> old.depth,
                                      n |-> fetch_root(t, old.root)], sort_by_key(cs)))

\* What a commit means: its changes in order, the last one to a key wins.
Effect(map, c) ==
    IF c.value = None THEN [k \in DOMAIN map \ {c.key} |-> map[k]] ELSE (c.key :> c.value) @@ map

write_plan(cs) ==
    /\ tables' = ApplyChanges(tables, cs)
    /\ committed' = FoldLeft(Effect, committed, cs)

\* BTreeTable::open of a new column.
Init ==
    /\ tables = HEADER_ADDRESS :>
            [content |-> [kind |-> "header", root |-> NULL_ADDRESS, depth |-> 0], rc |-> 1]
    /\ committed = <<>>

Next == \E cs \in ChangeLists : write_plan(cs)

Spec == Init /\ [][Next]_vars

-----------------------------------------------------------------------------
(* Queries: Node::get, and the walk of BTreeIterState.                     *)

RECURSIVE get_node(_, _, _)
get_node(t, n, key) ==
    LET p == position(n, key)
    IN  IF p.at THEN n.separators[p.i + 1].addr
        ELSE IF has_child(n, p.i) THEN get_node(t, fetch_child(t, n, p.i), key)
        ELSE NULL_ADDRESS

get(t, key) ==
    LET a == get_node(t, fetch_root(t, btree_header(t).root), key)
    IN  IF a = NULL_ADDRESS THEN None ELSE t[a].content.value

\* An iteration's state: a stack of nodes with a position in each, and
\* whether the separator at that position comes next or the child before it.
NewIter == [stack |-> <<>>, next_separator |-> FALSE]

RECURSIVE descend(_, _)
descend(t, stack) ==
    LET top == Last(stack)
    IN  IF has_child(top.n, top.ix)
        THEN descend(t, Append(stack, [ix |-> 0, n |-> fetch_child(t, top.n, top.ix)]))
        ELSE stack

\* BTreeIterState::next, repeated until it returns None: the keys returned.
RECURSIVE iter_keys(_, _)
iter_keys(t, s) ==
    LET root == [ix |-> 0, n |-> fetch_root(t, btree_header(t).root)]
        stack == IF s.next_separator THEN s.stack
                 ELSE descend(t, IF s.stack = <<>> THEN <<root>> ELSE s.stack)
        top == Last(stack)
    IN  IF stack = <<>> THEN <<>>
        ELSE IF has_separator(top.n, top.ix)
        THEN <<top.n.separators[top.ix + 1].key>> \o
             iter_keys(t, [stack |-> [stack EXCEPT ![Len(stack)].ix = @ + 1],
                           next_separator |-> FALSE])
        ELSE iter_keys(t, [stack |-> Front(stack), next_separator |-> TRUE])

\* Node::seek stops at the header's depth, where Node::get stops at a leaf.
RECURSIVE seek_node(_, _, _, _, _)
seek_node(t, n, key, depth, stack) ==
    LET p == position(n, key)
        path == Append(stack, [ix |-> p.i, n |-> n])
    IN  IF ~p.at /\ depth # 0 /\ has_child(n, p.i)
        THEN seek_node(t, fetch_child(t, n, p.i), key, depth - 1, path)
        ELSE [found |-> p.at, stack |-> path]

seek(t, key, after) ==
    LET h == btree_header(t)
        r == seek_node(t, fetch_root(t, h.root), key, h.depth, <<>>)
    IN  IF r.found /\ after
        THEN [stack |-> [r.stack EXCEPT ![Len(r.stack)].ix = @ + 1], next_separator |-> FALSE]
        ELSE [stack |-> r.stack, next_separator |-> TRUE]

-----------------------------------------------------------------------------
(* Properties.                                                             *)

\* The nodes of some subtrees with their depth, parents first.
RECURSIVE Nodes(_, _, _)
Nodes(t, roots, d) ==
    IF roots = <<>> THEN <<>>
    ELSE LET n == from_encoded(t[Head(roots)].content)
         IN  <<[addr |-> Head(roots), depth |-> d, n |-> n]>> \o
             Nodes(t, n.children, d + 1) \o Nodes(t, Tail(roots), d)

Tree ==
    LET root == btree_header(tables).root
    IN  IF root = NULL_ADDRESS THEN <<>> ELSE Nodes(tables, <<root>>, 0)

\* The slots the tree points to, one entry for each pointer: <<i, 0>> to
\* node i and <<i, j>> to the value of its separator j.
PointersOf(nodes) ==
    [p \in {q \in (DOMAIN nodes) \X (0..ORDER) : q[2] <= Len(nodes[q[1]].n.separators)} |->
        IF p[2] = 0 THEN nodes[p[1]].addr ELSE nodes[p[1]].n.separators[p[2]].addr]
Pointers == PointersOf(Tree)

\* What the tests of db.rs assert after a commit: a query of each key reads
\* the last value committed to it, or nothing after a removal.
GetReadsCommitted ==
    \A k \in Keys : get(tables, k) = IF k \in DOMAIN committed THEN committed[k] ELSE None

\* Node::is_balanced of the tests, and what Node::seek relies on: every node
\* but the root is at least half full, and the leaves are exactly the nodes
\* at the depth the header records.
Balanced ==
    \A x \in Range(Tree) :
        /\ number_separator(x.n) <= ORDER
        /\ x.depth > 0 => number_separator(x.n) >= middle
        /\ Len(x.n.children) = IF x.depth = btree_header(tables).depth THEN 0
                               ELSE number_separator(x.n) + 1

\* No slot is the target of two pointers, no pointer is left to a freed slot
\* or to the header, and every slot holds contents of its tier, whatever
\* nodes split, merged or moved.
NoSharedSlots ==
    LET ps == Pointers
    IN  /\ Range(ps) \subseteq DOMAIN tables \ {HEADER_ADDRESS}
        /\ IsInjective(ps)
        /\ \A a \in DOMAIN tables : tables[a].rc > 0 /\ Tier(tables[a].content) = a[1]

\* An iteration from the start returns the keys in order, each once, and one
\* that seeks a key goes on from the key itself, or from the one after it.
WalkInOrder ==
    /\ iter_keys(tables, NewIter) = Ascending(DOMAIN committed)
    /\ \A key \in Keys :
        /\ iter_keys(tables, seek(tables, key, FALSE)) =
                Ascending({k \in DOMAIN committed : k >= key})
        /\ iter_keys(tables, seek(tables, key, TRUE)) =
                Ascending({k \in DOMAIN committed : k > key})

\* Every slot in use holds the header, a node or a value of the tree.
NoLostSlots == DOMAIN tables = Range(Pointers) \cup {HEADER_ADDRESS}

\* A view for TLC: states that differ in addresses and in lost slots only
\* behave alike, as long as no slot is shared; whether one is, is part of it.
Shape ==
    LET Entry(sep) == <<sep.key, IF sep.addr \in DOMAIN tables THEN tables[sep.addr] ELSE None>>
        Level(x) == <<x.depth, [j \in DOMAIN x.n.separators |-> Entry(x.n.separators[j])]>>
        Levels(nodes) == [i \in DOMAIN nodes |-> Level(nodes[i])]
    IN  <<Levels(Tree),
          btree_header(tables).depth, committed, NoSharedSlots>>

=============================================================================
