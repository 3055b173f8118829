---------------------------- MODULE MCValueTable ----------------------------
(***************************************************************************)
(* Module ValueTable for TLC: the columns of the runs.                     *)
(***************************************************************************)
EXTENDS ValueTable

Plain == [ref_counted |-> FALSE, preimage |-> FALSE, lengths |-> {1, 2, 3}, readers |-> Readers,
          commits |-> 2]
Counted == [ref_counted |-> TRUE, preimage |-> TRUE, lengths |-> {2}, readers |-> {}, commits |-> 3]

\* A column whose values are replaced, and one with reference counts.
MCColumns == {Plain, Counted}

\* Reference counts, and a reader.
CountedAndRead == {[Counted EXCEPT !.readers = Readers, !.commits = 2]}

=============================================================================
