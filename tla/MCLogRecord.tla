---------------------------- MODULE MCLogRecord ----------------------------
(* Records whose data looks like log entries, so that a reader that lost   *)
(* its place would find something to read.                                 *)
EXTENDS LogRecord

Index(mask, entries) ==
    [tag |-> INSERT_INDEX, table |-> 1, index |-> TotalEntries - 1, data |-> <<mask>> \o entries]
Value(slot, data) == [tag |-> INSERT_VALUE, table |-> 4, index |-> slot, data |-> data]
Drop == [tag |-> DROP_TABLE, table |-> 4]

MCBodies == {
    <<Index(3, <<4, 1>>), Value(1, <<2, 4, 5>>)>>,
    <<Value(2, <<TOMBSTONE, 4>>), Value(0, <<4, 1>>), Drop>>,
    <<Index(2, <<0>>), Value(1, <<MULTIPART, 3, 4>>)>>,
    <<>> }

=============================================================================
