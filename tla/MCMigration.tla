---------------------------- MODULE MCMigration ----------------------------
(***************************************************************************)
(* Module Migration for TLC: sources of two columns, and what they are     *)
(* migrated to.                                                            *)
(***************************************************************************)
EXTENDS Migration, TLC

Plain == [preimage |-> FALSE, ref_counted |-> FALSE, btree_index |-> FALSE,
          compression_threshold |-> DefaultThreshold]
Counted == [Plain EXCEPT !.ref_counted = TRUE]
Preimage == [Plain EXCEPT !.preimage = TRUE]
Ordered == [Plain EXCEPT !.btree_index = TRUE]
Threshold == [Plain EXCEPT !.compression_threshold = 1]

Data(rcs) == [k \in Keys |-> IF rcs[k] = 0 THEN NoItem ELSE [value |-> 10 + k, rc |-> rcs[k]]]
Once == Data(<<1, 1, 1, 1>>)
Some == Data(<<1, 0, 1, 0>>)
Many == Data(<<2, 1, 3, 1>>)
None == <<{}, {}>>

Setup(from, to, data, waiting, overwrite, force) ==
    [from |-> from, to |-> to, data |-> data, pending |-> waiting, overwrite |-> overwrite,
     force |-> force]

MCSetups ==
    {Setup(<<Plain, Counted>>, to, <<Once, Many>>, None, overwrite, force) :
        to \in {<<Counted, Counted>>}, overwrite \in BOOLEAN, force \in {{}, {1, 2}}}
    \cup {Setup(<<Plain, Plain>>, <<Counted, Counted>>, <<Some, Once>>, None, overwrite, {}) :
             overwrite \in BOOLEAN}
    \cup {Setup(<<Plain, Ordered>>, <<Counted, Ordered>>, <<Once, Some>>, None, overwrite, {}) :
             overwrite \in BOOLEAN}
    \cup {Setup(<<Preimage, Counted>>, <<Counted, Counted>>, <<Once, Many>>, <<{2}, {}>>, TRUE, {}),
          Setup(<<Plain, Ordered>>, <<Plain, Plain>>, <<Once, Some>>, None, FALSE, {}),
          Setup(<<Plain, Plain>>, <<Plain>>, <<Once, Once>>, None, FALSE, {}),
          Setup(<<Plain, Plain>>, <<Threshold, Plain>>, <<Once, Once>>, None, TRUE, {}),
          Setup(<<Plain, Counted>>, <<Counted, Counted>>, <<Once, Many>>, <<{2}, {}>>, FALSE, {})}

\* What MigratedComplete leaves out: references counted no more, an index
\* that is being reindexed, and background errors of the destination.
Uncounted == {Setup(<<Counted>>, <<Plain>>, <<Many>>, <<{}>>, FALSE, {})}
Reindexing == {Setup(<<Plain>>, <<Plain>>, <<Once>>, <<{2}>>, FALSE, {1})}
TwoPlain == {Setup(<<Plain, Plain>>, <<Plain, Plain>>, <<Once, Once>>, None, FALSE, {1})}
ToThreshold == {Setup(<<Plain, Plain>>, <<Threshold, Plain>>, <<Once, Once>>, None, FALSE, {})}

=============================================================================
