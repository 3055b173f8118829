----------------------------- MODULE AtomicStore -----------------------------
(***************************************************************************)
(* What Db promises its callers while it is open: a store in which commit  *)
(* replaces the values of all of its keys in one step, and get returns the *)
(* value the store holds.  No queue, no log, no overlay.                   *)
(*                                                                         *)
(* A value is identified by the commit that wrote it (its version); 0 is   *)
(* the value a key has before any commit.                                  *)
(***************************************************************************)
EXTENDS Naturals

CONSTANTS Keys,       \* keys of the store
          Readers,    \* threads that call get
          MaxCommits  \* number of commits (a bound for model checking)

VARIABLES store,      \* store[k]: the version of k
          latest,     \* version written by the last commit
          answer      \* answer[r]: the key and version the call of r returns, {} before that

vars == <<store, latest, answer>>

Init ==
    /\ store = [k \in Keys |-> 0]
    /\ latest = 1
    /\ answer = [r \in Readers |-> {}]

\* commit: every key of the transaction changes in the same step.
Commit(keys) ==
    /\ latest <= MaxCommits
    /\ latest' = latest + 1
    /\ store' = [k \in Keys |-> IF k \in keys THEN latest' ELSE store[k]]
    /\ UNCHANGED answer

\* get: the answer is what the store holds at one instant of the call.
Get(r, k) ==
    /\ answer[r] = {}
    /\ answer' = [answer EXCEPT ![r] = {[key |-> k, version |-> store[k]]}]
    /\ UNCHANGED <<store, latest>>

Return(r) ==
    /\ answer[r] # {}
    /\ answer' = [answer EXCEPT ![r] = {}]
    /\ UNCHANGED <<store, latest>>

Next ==
    \/ \E keys \in SUBSET Keys \ {{}} : Commit(keys)
    \/ \E r \in Readers : Return(r) \/ \E k \in Keys : Get(r, k)

Spec == Init /\ [][Next]_vars

=============================================================================
