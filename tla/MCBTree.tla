------------------------------ MODULE MCBTree ------------------------------
(* Instances of BTree: nodes of at most two separators, so that nine keys  *)
(* make trees of three levels whose inner nodes borrow and merge.          *)
EXTENDS BTree

\* A node moves to another tier when it has two separators, and one of the
\* two values is large.
MCNodeTier == [n \in 0..ORDER |-> IF n = ORDER THEN 1 ELSE 0]
MCValueTier == [v \in Values |-> IF v = "large" THEN 1 ELSE 0]

\* The middle key takes both values, the others one.
ValueOf(k) == IF k = 4 THEN Values ELSE {"small"}
OneChange == UNION {[key : {k}, value : ValueOf(k) \cup {None}] : k \in Keys}

\* One or two changes: of neighbouring keys, to the same key, or far apart
\* and out of order.
MCChangeLists ==
    {<<c>> : c \in OneChange} \cup
    {l \in {<<c, d>> : c \in OneChange, d \in OneChange} : l[2].key \in l[1].key..(l[1].key + 1) \/ (l[2].key = 3 /\ l[1].key > 6)}

=============================================================================
