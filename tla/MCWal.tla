------------------------------- MODULE MCWal -------------------------------
(***************************************************************************)
(* Module Wal for TLC: the settings of the runs.                           *)
(***************************************************************************)
EXTENDS Wal

\* A power loss with every fsync in place, or two process crashes without any.
MCSettings == {[sync |-> TRUE, crash |-> "power", crashes |-> 1],
               [sync |-> FALSE, crash |-> "process", crashes |-> 2]}

\* Two process crashes with every fsync in place.
ProcessCrashes == {[sync |-> TRUE, crash |-> "process", crashes |-> 2]}

\* One crash, or none.
OneProcessCrash == {[sync |-> TRUE, crash |-> "process", crashes |-> 1]}
OnePowerLoss == {[sync |-> TRUE, crash |-> "power", crashes |-> 1]}
NoCrash == {[sync |-> TRUE, crash |-> "power", crashes |-> 0]}

=============================================================================
