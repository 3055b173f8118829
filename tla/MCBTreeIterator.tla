-------------------------- MODULE MCBTreeIterator --------------------------
(* Commits that write or remove one key, or write one and remove another.  *)
EXTENDS BTreeIterator, TLC

MCChanges ==
    UNION {[{k} -> BOOLEAN] : k \in Keys} \cup
    {(k :> FALSE) @@ (k + 1 :> TRUE) : k \in Keys \ {Max(Keys)}}

=============================================================================
