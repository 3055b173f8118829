---------------------------- MODULE MCHashColumn ----------------------------
(***************************************************************************)
(* Module HashColumn for TLC: the settings of the runs.                    *)
(***************************************************************************)
EXTENDS HashColumn

Small(n) ==
    [CHUNK_ENTRIES |-> 1, MAX_REINDEX_BATCH |-> 1, MaxLog |-> 2, MaxRestarts |-> n]

\* Chunks and batches of one entry, or of two.
MCSettings ==
    {Small(1),
     [CHUNK_ENTRIES |-> 2, MAX_REINDEX_BATCH |-> 2, MaxLog |-> 2, MaxRestarts |-> 1]}

NoRestart == {Small(0)}
OneRestart == {Small(1)}

=============================================================================
