------------------------ MODULE BTreeIteratorProofs ------------------------
(***************************************************************************)
(* Proofs about BTreeIterator, for every number of keys and commits and    *)
(* every set of changes: the walk is of the tree the log has, no key is    *)
(* passed over, and what next returns could be read during the call.       *)
(***************************************************************************)
EXTENDS BTreeIteratorSteps

\* What next has of the tree (r), of the overlay (o), and of both.
OfTree(r) ==
    /\ r.walk \in Walk /\ r.walk.tree = tree /\ r.walk.record = record
    /\ \/ r.item = NoItem /\ \A k \in DOMAIN tree : k <= iter.last_key
       \/ /\ r.item \in Item /\ r.item # NoItem /\ r.item.key \in Keys
          /\ r.item.key \in DOMAIN tree /\ r.item.value = tree[r.item.key]
          /\ r.item.value \in 0..MaxCommits /\ r.item.value # None
          /\ Above(r.item.key)
          /\ r.walk.cursor = r.item.key + 1
          /\ \A k \in DOMAIN tree : k > iter.last_key => r.item.key <= k
OfOverlay(o) ==
    \/ o = NoItem /\ \A k \in DOMAIN overlay : ~Above(k)
    \/ /\ o # NoItem /\ o.key \in DOMAIN overlay /\ o.key \in Keys
       /\ o.value = overlay[o.key].value /\ o.value \in {None} \cup 1..MaxCommits
       /\ Above(o.key)
       /\ \A k \in DOMAIN overlay : Above(k) => o.key <= k
Covered(o, b) ==
    \A k \in present : k \in Visible(overlay, tree) /\ k > iter.from =>
       /\ k \in Nat
       /\ \/ k \in DOMAIN overlay /\ overlay[k].value # None /\ o # NoItem /\ o.key <= k
          \/ k \notin DOMAIN overlay /\ k \in DOMAIN tree /\ b # NoItem /\ b.key <= k
\* The iterator that next merges the candidates into.
Fetched(it, r) ==
    /\ it \in Iter /\ it.walk = r.walk /\ it.pending = Unfetched /\ it.pc = "next"
    /\ it.last_key = iter.last_key /\ it.item = iter.item /\ it.from = iter.from

\* next has what the lemmas about its two sources say.
LEMMA CandidatesOfNext ==
  ASSUME IInv, iter.pc = "next", NEW r, r = Fetch
  PROVE  OfTree(r) /\ OfOverlay(btree_next) /\ Covered(btree_next, r.item)
PROOF
<1>1. OfTree(r)
  <2>1. \A k \in DOMAIN tree : tree[k] \in 0..MaxCommits /\ tree[k] # None
    BY MapFacts DEF IInv, DbInv
  <2> QED
    BY <2>1, FetchFacts, ItemFacts DEF IInv, OfTree
<1>2. OfOverlay(btree_next)
  BY OverlayFacts DEF IInv, DbInv, OfOverlay
<1>3. Covered(btree_next, r.item)
  <2>1. present \subseteq Nat
    BY KeyFacts DEF IInv, TypeOK
  <2> QED
    BY <2>1, CandidateFacts DEF Covered
<1> QED
  BY <1>1, <1>2, <1>3

\* The tree has the lower key.
LEMMA TreeFirst ==
  ASSUME IInv, iter.pc = "next", UNCHANGED db, Observe,
         NEW r, NEW o, NEW it, OfTree(r), OfOverlay(o), Covered(o, r.item), Fetched(it, r),
         r.item # NoItem, o = NoItem \/ o.key > r.item.key,
         iter' = Return(it, r.item.key, r.item.value)
  PROVE  IInv'
PROOF
<1> DEFINE b == r.item
<1>1. /\ b.key \in Keys /\ b.key \in Nat /\ b.key \in DOMAIN tree /\ b.value = tree[b.key]
      /\ b.value \in 0..MaxCommits /\ b.value # None /\ Above(b.key)
      /\ r.walk.cursor = b.key + 1 /\ r.walk.tree = tree /\ r.walk.record = record
  BY KeyFacts DEF OfTree
<1>2. /\ iter' \in Iter /\ iter'.pc = "returned" /\ iter'.last_key = b.key
      /\ iter'.item = [key |-> b.key, value |-> b.value]
      /\ iter'.walk = r.walk /\ iter'.pending = Unfetched /\ iter'.from = iter.from
  <2>1. it \in Iter /\ it.walk = r.walk /\ it.pending = Unfetched /\ it.from = iter.from
    BY DEF Fetched
  <2>2. iter' = Return(it, b.key, b.value)
    BY Zenon
  <2> HIDE DEF b
  <2> QED
    BY <1>1, <2>1, <2>2, ReturnFacts
<1>3. WalkInv'
  BY <1>1, <1>2, MovedWalk, Zenon DEF IInv
<1>4. o = NoItem \/ (o.key \in Nat /\ o.key > b.key /\ \A k \in DOMAIN overlay : Above(k) => o.key <= k)
  BY KeyFacts DEF OfOverlay
<1>5. b.key \notin DOMAIN overlay
  BY <1>1, <1>4 DEF OfOverlay
<1>6. Read(overlay, tree, b.key) = b.value
  BY <1>1, <1>5 DEF Read
<1>7. \A k \in present : k \in Visible(overlay, tree) /\ k > iter.from => b.key <= k
  BY <1>1, <1>4 DEF Covered
<1> HIDE DEF b
<1> QED
  BY <1>1, <1>2, <1>3, <1>6, <1>7, ReturnKeepsIInv, SMTT(20)

\* The overlay has the lower key, or both have the same; i is the iterator
\* after the tree's item was put back, or dropped when it has the same key.
LEMMA OverlayFirst ==
  ASSUME IInv, iter.pc = "next", UNCHANGED db, Observe,
         NEW r, NEW o, NEW it, NEW i,
         OfTree(r), OfOverlay(o), Covered(o, r.item), Fetched(it, r), o # NoItem,
         \/ (r.item = NoItem \/ o.key < r.item.key) /\ i = [it EXCEPT !.pending = r.item]
         \/ r.item # NoItem /\ o.key = r.item.key /\ i = it,
         iter' = ReturnOrPass(i, o)
  PROVE  IInv'
PROOF
<1> DEFINE p == i.pending
<1>1. /\ o.key \in Keys /\ o.key \in Nat /\ o.key \in DOMAIN overlay
      /\ o.value = overlay[o.key].value /\ o.value \in {None} \cup 1..MaxCommits /\ Above(o.key)
  BY KeyFacts DEF OfOverlay
<1>2. r.walk.tree = tree /\ r.walk.record = record /\ r.item \in {NoItem} \cup Item
  BY DEF OfTree
<1>3. /\ i \in Iter /\ i.walk = r.walk /\ i.pc = "next"
      /\ i.item = iter.item /\ i.from = iter.from
      /\ \/ (r.item = NoItem \/ o.key < r.item.key) /\ p = r.item
         \/ r.item # NoItem /\ o.key = r.item.key /\ p = Unfetched
  BY <1>2 DEF Fetched, Iter
<1>4. \A k \in present : k \in Visible(overlay, tree) /\ k > iter.from =>
         o.key <= k /\ (o.value = None => o.key < k)
  <2> SUFFICES ASSUME NEW k \in present, k \in Visible(overlay, tree), k > iter.from
               PROVE  o.key <= k /\ (o.value = None => o.key < k)
    OBVIOUS
  <2>1. k \in Nat
    BY DEF Covered
  <2>2. CASE k \in DOMAIN overlay /\ overlay[k].value # None /\ o.key <= k
    BY <1>1, <2>1, <2>2
  <2>3. CASE k \notin DOMAIN overlay /\ r.item # NoItem /\ r.item.key <= k
    <3>1. r.item.key \in Nat /\ o.key <= r.item.key
      BY <1>1, <1>2, <1>3, <2>3, ItemFacts, SMTT(20)
    <3> QED
      BY <1>1, <2>1, <2>3, <3>1, SMTT(20)
  <2> QED
    BY <2>2, <2>3 DEF Covered
<1>5. \/ p = Unfetched /\ r.walk.cursor = o.key + 1
      \/ p = NoItem /\ \A k \in DOMAIN tree : k <= o.key
      \/ /\ p \in Item /\ p.key \in DOMAIN tree /\ p.value = tree[p.key] /\ p.key > o.key
         /\ r.walk.cursor = p.key + 1
         /\ \A k \in DOMAIN tree : k > o.key => p.key <= k
  <2>1. o.key >= iter.last_key /\ iter.last_key \in Nat
    BY <1>1, AboveFacts DEF IInv, TypeOK, Iter, Start
  <2>2. DOMAIN tree \subseteq Nat
    BY MapFacts, KeyFacts DEF IInv, DbInv
  <2>3. CASE r.item # NoItem /\ o.key = r.item.key /\ p = Unfetched
    BY <2>3 DEF OfTree
  <2>4. CASE r.item = NoItem /\ p = NoItem
    BY <1>1, <2>1, <2>2, <2>4, ItemFacts, SMTT(20) DEF OfTree
  <2>5. CASE r.item # NoItem /\ o.key < r.item.key /\ p = r.item
    <3>1. /\ p \in Item /\ p.key \in Nat /\ p.key \in DOMAIN tree /\ p.value = tree[p.key]
          /\ r.walk.cursor = p.key + 1
          /\ \A k \in DOMAIN tree : k > iter.last_key => p.key <= k
      BY <2>5, ItemFacts DEF OfTree
    <3> QED
      BY <1>1, <2>1, <2>2, <2>5, <3>1, SMTT(20)
  <2> QED
    BY <1>3, <2>3, <2>4, <2>5, SMTT(20)
<1> HIDE DEF p
<1>6. /\ iter' \in Iter /\ iter'.last_key = o.key
      /\ iter'.walk = r.walk /\ iter'.pending = p /\ iter'.from = iter.from
      /\ o.value = None => iter'.pc = "next" /\ iter'.item = iter.item
      /\ o.value # None => iter'.pc = "returned" /\ iter'.item = [key |-> o.key, value |-> o.value]
  BY <1>1, <1>3, ReturnOrPassFacts, SMTT(20) DEF p
<1>7. WalkInv'
  BY <1>1, <1>2, <1>5, <1>6, MovedWalk, SMTT(20) DEF IInv
<1>8. CASE o.value = None
  BY <1>1, <1>4, <1>6, <1>7, <1>8, PassKeepsIInv, SMTT(20)
<1>9. CASE o.value # None
  <2>1. Read(overlay, tree, o.key) = o.value
    BY <1>1 DEF Read
  <2> QED
    BY <1>1, <1>4, <1>6, <1>7, <1>9, <2>1, ReturnKeepsIInv, SMTT(20)
<1> QED
  BY <1>8, <1>9

\* The cases of next: which source has the lower key.
LEMMA NextCallKeepsIInv ==
  ASSUME IInv, next, Observe
  PROVE  IInv'
PROOF
<1> DEFINE r == Fetch
           o == btree_next
           it == [iter EXCEPT !.walk = r.walk, !.pending = Unfetched]
<1>1. iter.pc = "next" /\ UNCHANGED db /\ iter' = merge(it, o, r.item)
  BY DEF next, Fetch
<1>2. OfTree(r) /\ OfOverlay(o) /\ Covered(o, r.item)
  BY <1>1, CandidatesOfNext
<1>3. r = Fetch /\ o = btree_next
  OBVIOUS
<1> HIDE DEF r, o
<1>4. Fetched(it, r)
  <2> DEFINE j == [iter EXCEPT !.walk = r.walk]
  <2>1. it = [j EXCEPT !.pending = Unfetched]
    OBVIOUS
  <2>2. r.walk \in Walk /\ iter \in Iter
    BY <1>2 DEF OfTree, IInv, TypeOK
  <2> HIDE DEF it
  <2>3. /\ j \in Iter /\ j.walk = r.walk /\ j.pc = "next"
        /\ j.last_key = iter.last_key /\ j.item = iter.item /\ j.from = iter.from
    BY <1>1, <2>2 DEF Iter
  <2> HIDE DEF j
  <2> QED
    BY <2>1, <2>3 DEF Iter, Fetched
<1> HIDE DEF it
<1>5. CASE o = NoItem /\ r.item = NoItem
  <2> DEFINE j == [it EXCEPT !.pc = "returned"]
  <2>1. iter' = [j EXCEPT !.pending = NoItem]
    BY <1>1, <1>5 DEF merge
  <2>2. /\ j \in Iter /\ j.walk = r.walk /\ j.pc = "returned" /\ j.last_key = iter.last_key
        /\ j.item = iter.item /\ j.from = iter.from
    BY <1>4 DEF Iter, Fetched
  <2> HIDE DEF j
  <2>3. /\ iter' \in Iter /\ iter'.pc = "returned" /\ iter'.walk = r.walk /\ iter'.pending = NoItem
        /\ iter'.last_key = iter.last_key /\ iter'.item = iter.item /\ iter'.from = iter.from
    BY <2>1, <2>2 DEF Iter
  <2> QED
    BY <1>1, <1>3, <1>5, <2>3, ReturnNoneKeepsIInv
<1>6. /\ o # NoItem => o.key \in Nat
      /\ r.item # NoItem => r.item.key \in Nat
  BY <1>2, KeyFacts DEF OfTree, OfOverlay
<1>7. CASE r.item # NoItem /\ (o = NoItem \/ o.key > r.item.key)
  <2>1. iter' = Return(it, r.item.key, r.item.value)
    BY <1>1, <1>6, <1>7 DEF merge
  <2> QED
    BY <1>1, <1>2, <1>4, <1>7, <2>1, TreeFirst, SMTT(20)
<1>8. CASE o # NoItem /\ (r.item = NoItem \/ o.key < r.item.key)
  <2>1. iter' = ReturnOrPass([it EXCEPT !.pending = r.item], o)
    BY <1>1, <1>8 DEF merge
  <2> QED
    BY <1>1, <1>2, <1>4, <1>8, <2>1, OverlayFirst, SMTT(20)
<1>9. CASE o # NoItem /\ r.item # NoItem /\ o.key = r.item.key
  <2>1. iter' = ReturnOrPass(it, o)
    BY <1>1, <1>6, <1>9 DEF merge
  <2> QED
    BY <1>1, <1>2, <1>4, <1>9, <2>1, OverlayFirst, SMTT(20)
<1> QED
  BY <1>5, <1>6, <1>7, <1>8, <1>9, SMTT(20)

\* The inductive step.
LEMMA NextIInv == IInv /\ [Next]_vars => IInv'
PROOF
<1> SUFFICES ASSUME IInv, [Next]_vars PROVE IInv'
  BY SMTT(20)
<1>1. CASE UNCHANGED vars
  BY <1>1, SMTT(20) DEF vars, IInv, TypeOK, DbInv, WalkInv, CallInv, NoneMissed, ReturnsVisible, Returned,
              Position, Fresh
<1>2. ASSUME NEW ch \in Changes, commit(ch), Observe PROVE IInv'
  BY <1>2, CommitStep, DbKeepsIInv, SMTT(20) DEF commit, IInv
<1>3. CASE process_commit /\ Observe
  BY <1>3, ProcessStep, DbKeepsIInv DEF process_commit, IInv
<1>4. CASE clean_overlay /\ Observe
  BY <1>4, CleanStep, DbKeepsIInv, Zenon DEF clean_overlay, IInv
<1>5. CASE (new \/ new_open) /\ Observe
  BY <1>5, NewKeepsIInv
<1>6. ASSUME NEW key \in Keys, seek(key), Observe PROVE IInv'
  BY <1>6, SeekKeepsIInv
<1>7. CASE call_next /\ Observe
  BY <1>7, CallKeepsIInv
<1>8. CASE next /\ Observe
  BY <1>8, NextCallKeepsIInv
<1> QED
  BY <1>1, <1>2, <1>3, <1>4, <1>5, <1>6, <1>7, <1>8, SMTT(20) DEF Next, Step

\* IInv holds in every reachable state.
THEOREM Invariance == Spec => []IInv
  BY InitIInv, NextIInv, PTL DEF Spec

\* The iterator's cursor, last key and items stay positions and keys of the column.
THEOREM TypeCorrect == Spec => []TypeOK
PROOF
<1>1. IInv => TypeOK
  BY DEF IInv
<1> QED
  BY <1>1, Invariance, PTL

\* A walk that next or seek goes on with is a walk of the tree the log has now:
\* comparing record ids is enough to see that nodes were replaced.
THEOREM WalksAreCurrent == Spec => []WalkIsCurrent
PROOF
<1>1. IInv => WalkIsCurrent
  BY DEF IInv, WalkInv, WalkIsCurrent
<1> QED
  BY <1>1, Invariance, PTL

\* next passes over no key that a query would have found all through the call,
\* however many commits are made, logged and cleaned while removed keys are
\* passed over.
THEOREM NoKeyMissed == Spec => []NoneMissed
PROOF
<1>1. IInv => NoneMissed
  BY DEF IInv
<1> QED
  BY <1>1, Invariance, PTL

\* What next returns is a key and value that a query could have found during
\* the call, and the iteration does not go back.
THEOREM ReturnsAreVisible == Spec => []ReturnsVisible
PROOF
<1>1. IInv => ReturnsVisible
  BY DEF IInv
<1> QED
  BY <1>1, Invariance, PTL

=============================================================================
