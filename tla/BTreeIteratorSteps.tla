------------------------- MODULE BTreeIteratorSteps -------------------------
(***************************************************************************)
(* Every action of BTreeIterator keeps the inductive invariant: the steps  *)
(* of the database, of new and of seek, and the outcomes of next.          *)
(***************************************************************************)
EXTENDS BTreeIteratorFacts

\* The history: during a call, present only shrinks and seen only grows.
LEMMA ObserveFacts ==
  ASSUME Observe
  PROVE  /\ present \subseteq Keys => present' \subseteq Keys
         /\ iter.pc = "next" => /\ present' = present \cap Visible(overlay', tree')
                                /\ \A k \in Visible(overlay', tree') :
                                       <<k, Read(overlay', tree', k)>> \in seen'
         /\ iter.pc # "next" /\ iter'.pc # "next" => present' = present /\ seen' = seen
PROOF
<1>1. Visible(overlay', tree') \subseteq Keys
  BY DEF Visible
<1> QED
  BY <1>1 DEF Observe

QueueBound == Len(queue) <= MaxCommits /\ DOMAIN overlay \subseteq Keys

\* The queue is no longer than the number of commits.
LEMMA QueueFacts == DbInv => QueueBound
PROOF
<1> SUFFICES ASSUME DbInv PROVE QueueBound
  OBVIOUS
<1> USE DEF QueueBound
<1>1. queue \in Seq(Queued) /\ Len(queue) \in Nat
  BY DEF DbInv
<1>2. CASE Len(queue) = 0
  BY <1>2, BoundsAssumption DEF DbInv
<1>3. CASE Len(queue) # 0
  <2>1. 1 \in 1..Len(queue)
    BY <1>1, <1>3
  <2>2. queue[1] \in Queued
    BY <1>1, <2>1
  <2>3. queue[1].id \in 1..MaxCommits
    BY <2>2 DEF Queued
  <2>4. queue[1].id = commits - Len(queue) + 1 /\ commits \in 0..MaxCommits
    BY <2>1 DEF DbInv
  <2> QED
    BY <1>1, <2>3, <2>4, BoundsAssumption DEF DbInv
<1> QED
  BY <1>2, <1>3

\* A step of the iterator does not touch the database.
LEMMA SameDb ==
  ASSUME IInv, UNCHANGED db
  PROVE  DbInv'
  BY DEF IInv, DbInv, db

\* A step of the database: a walk is current afterwards only if it was
\* before and the tree did not change.
LEMMA DbKeepsIInv ==
  ASSUME IInv, DbStep, iter' = iter, Observe
  PROVE  IInv'
PROOF
<1>1. DbInv' /\ record <= record' /\ (record' = record => tree' = tree)
  BY DEF DbStep
<1>2. /\ record \in Int /\ record' \in Int /\ iter.walk.record \in Int
      /\ iter.walk.record <= record
  BY <1>1, SMTT(30) DEF IInv, DbInv, WalkInv, TypeOK, Iter, Walk, MAX
<1>3. TypeOK'
  <2>1. QueueBound'
    BY <1>1, QueueFacts, PTL
  <2> QED
    BY <2>1, ObserveFacts DEF IInv, TypeOK, QueueBound
<1>4. WalkInv'
  <2>1. iter.walk.record <= record'
    BY <1>1, <1>2
  <2>2. Fresh(iter)'
    BY DEF IInv, WalkInv, Fresh
  <2>3. ASSUME iter.pc \notin {"none", "opening"}, record' = iter.walk.record
        PROVE  iter.walk.tree = tree' /\ Position(iter)'
    <3>1. record' = record /\ tree' = tree
      BY <1>1, <1>2, <2>3
    <3> QED
      BY <2>3, <3>1 DEF IInv, WalkInv, Position
  <2> QED
    BY <2>1, <2>2, <2>3 DEF IInv, WalkInv
<1>5. CallInv'
  BY ObserveFacts DEF IInv, CallInv
<1>6. NoneMissed' /\ ReturnsVisible'
  BY ObserveFacts DEF IInv, NoneMissed, ReturnsVisible, Returned
<1> QED
  BY <1>1, <1>3, <1>4, <1>5, <1>6 DEF IInv

\* new reads the record, new_open the tree: a record logged in between makes
\* the walk one of an older record.
LEMMA NewKeepsIInv ==
  ASSUME IInv, new \/ new_open, Observe
  PROVE  IInv'
PROOF
<1> USE KeyFacts, ItemFacts
<1>1. UNCHANGED db /\ DbInv'
  <2>1. UNCHANGED db
    BY DEF new, new_open
  <2> QED
    BY <2>1, SameDb
<1>2. /\ iter.pc \in {"none", "opening"} /\ iter \in Iter /\ iter.walk \in Walk
      /\ tree \in Maps /\ record \in {MAX} \cup 1..MaxCommits /\ record \in Int
      /\ iter.walk.record <= record
      /\ iter.walk.cursor = Start /\ iter.last_key = Start /\ iter.pending = Unfetched
      /\ ~iter.from_seek
  BY DEF new, new_open, IInv, TypeOK, Iter, DbInv, MAX, WalkInv, Fresh
<1> DEFINE w == IF iter.pc = "none" THEN [iter.walk EXCEPT !.record = record]
                ELSE [iter.walk EXCEPT !.tree = tree]
           pc == IF iter.pc = "none" THEN "opening" ELSE "ready"
<1>3. /\ w \in Walk /\ w.record <= record /\ w.cursor = Start
      /\ pc = "ready" => w.tree = tree
  BY <1>2 DEF Walk
<1>4. iter' = [iter EXCEPT !.pc = pc, !.walk = w]
  BY <1>2, Zenon DEF new, new_open, Iter
<1>5. pc \in {"opening", "ready"}
  OBVIOUS
<1> HIDE DEF w, pc
<1>6. /\ iter' \in Iter /\ iter'.pc = pc /\ iter'.walk = w
      /\ iter'.last_key = Start /\ iter'.pending = Unfetched /\ ~iter'.from_seek
  <2> DEFINE j == [iter EXCEPT !.pc = pc]
  <2>1. /\ j \in Iter /\ j.pc = pc /\ j.last_key = Start /\ j.pending = Unfetched
        /\ ~j.from_seek
    BY <1>2, <1>5 DEF Iter
  <2>2. iter' = [j EXCEPT !.walk = w]
    BY <1>4
  <2> HIDE DEF j
  <2> QED
    BY <1>3, <2>1, <2>2 DEF Iter
<1>7. TypeOK'
  BY <1>1, <1>6, ObserveFacts DEF IInv, TypeOK, db
<1>8. WalkInv'
  <2>1. tree' = tree /\ record' = record
    BY <1>1 DEF db
  <2>2. Fresh(iter)'
    BY <1>3, <1>6 DEF Fresh
  <2>3. iter'.pc = "ready" => iter'.walk.tree = tree' /\ Position(iter)'
    BY <1>2, <1>3, <1>6, <2>1, MapFacts, SMTT(20) DEF Position
  <2> QED
    BY <1>3, <1>5, <1>6, <2>1, <2>2, <2>3, SMTT(20) DEF WalkInv
<1>9. CallInv' /\ NoneMissed' /\ ReturnsVisible'
  BY <1>5, <1>6 DEF CallInv, NoneMissed, ReturnsVisible, Returned
<1> QED
  BY <1>1, <1>7, <1>8, <1>9 DEF IInv


\* seek leaves a walk of the current tree that starts at the key.
LEMMA SeekKeepsIInv ==
  ASSUME IInv, NEW key \in Keys, seek(key), Observe
  PROVE  IInv'
PROOF
<1> USE KeyFacts, ItemFacts
<1>1. UNCHANGED db /\ DbInv' /\ tree' = tree /\ record' = record
  <2>1. UNCHANGED db
    BY DEF seek
  <2> QED
    BY <2>1, SameDb DEF db
<1>2. /\ iter.pc \in {"ready", "returned"} /\ iter \in Iter /\ iter.walk \in Walk
      /\ tree \in Maps /\ record \in Int
      /\ record = iter.walk.record => iter.walk.tree = tree
  BY SMTT(20) DEF seek, IInv, TypeOK, Iter, DbInv, MAX, WalkInv
<1> DEFINE w == seek_backend(key)
<1>3. w \in Walk /\ w.tree = tree /\ w.record = record /\ w.cursor = key
  <2> DEFINE v == IF record # iter.walk.record THEN reopen(iter.walk) ELSE iter.walk
  <2>1. v \in Walk /\ v.tree = tree /\ v.record = record
    BY <1>2, ReopenFacts DEF IInv
  <2>2. w = walk_seek(v, key, FALSE)
    BY DEF seek_backend
  <2> HIDE DEF v
  <2>3. key \in Start..End /\ key + 1 \in Start..End
    BY DEF Start, End
  <2>4. /\ walk_seek(v, key, FALSE) \in Walk /\ walk_seek(v, key, FALSE).tree = v.tree
        /\ walk_seek(v, key, FALSE).record = v.record /\ walk_seek(v, key, FALSE).cursor = key
    BY <2>1, <2>3, WalkSeekFacts, Zenon
  <2> QED
    BY <2>1, <2>2, <2>4, Zenon
<1> HIDE DEF w
<1> DEFINE j1 == [iter EXCEPT !.pc = "ready"]
           j2 == [j1 EXCEPT !.from_seek = TRUE]
           j3 == [j2 EXCEPT !.last_key = key]
           j4 == [j3 EXCEPT !.pending = Unfetched]
           j5 == [j4 EXCEPT !.walk = w]
<1>4. iter' = [j5 EXCEPT !.item = NoItem]
  BY DEF seek, w
<1>5. j1 \in Iter /\ j1.pc = "ready"
  BY <1>2 DEF Iter
<1> HIDE DEF j1
<1>6. j2 \in Iter /\ j2.pc = "ready" /\ j2.from_seek
  BY <1>5, Zenon DEF Iter
<1> HIDE DEF j2
<1>7. j3 \in Iter /\ j3.pc = "ready" /\ j3.from_seek /\ j3.last_key = key
  BY <1>6 DEF Iter
<1> HIDE DEF j3
<1>8. j4 \in Iter /\ j4.pc = "ready" /\ j4.from_seek /\ j4.last_key = key /\ j4.pending = Unfetched
  BY <1>7 DEF Iter
<1> HIDE DEF j4
<1>9. /\ j5 \in Iter /\ j5.pc = "ready" /\ j5.from_seek /\ j5.last_key = key
      /\ j5.pending = Unfetched /\ j5.walk = w
  BY <1>3, <1>8 DEF Iter
<1> HIDE DEF j5
<1>10. /\ iter' \in Iter /\ iter'.pc = "ready" /\ iter'.from_seek /\ iter'.last_key = key
       /\ iter'.pending = Unfetched /\ iter'.walk = w
  BY <1>4, <1>9 DEF Iter
<1>11. TypeOK'
  BY <1>1, <1>10, ObserveFacts, SMTT(20) DEF IInv, TypeOK, db
<1>12. Position(iter)'
  BY <1>1, <1>2, <1>3, <1>10, MapFacts, SMTT(20) DEF Position
<1>13. WalkInv'
  BY <1>1, <1>2, <1>3, <1>10, <1>12, SMTT(20) DEF WalkInv, Fresh, Start
<1>14. CallInv' /\ NoneMissed' /\ ReturnsVisible'
  BY <1>10 DEF CallInv, NoneMissed, ReturnsVisible, Returned
<1> QED
  BY <1>1, <1>11, <1>13, <1>14, SMTT(20) DEF IInv

\* A call of next starts the history anew.
LEMMA CallKeepsIInv ==
  ASSUME IInv, call_next, Observe
  PROVE  IInv'
PROOF
<1> USE KeyFacts, ItemFacts
<1>1. UNCHANGED db /\ DbInv' /\ tree' = tree /\ record' = record
  <2>1. UNCHANGED db
    BY DEF call_next
  <2> QED
    BY <2>1, SameDb DEF db
<1>2. /\ iter.pc \in {"ready", "returned"} /\ iter \in Iter /\ iter.last_key \in Start..Max(Keys)
      /\ iter.last_key = Start => iter.walk.cursor = Start /\ iter.pending = Unfetched /\ ~iter.from_seek
      /\ iter.walk.record <= record
      /\ record = iter.walk.record => iter.walk.tree = tree /\ Position(iter)
  BY DEF call_next, IInv, TypeOK, Iter, WalkInv, Fresh
<1> DEFINE sought == iter.pc = "ready" /\ iter.from_seek
           j1 == [iter EXCEPT !.pc = "next"]
           j2 == [j1 EXCEPT !.from = iter.last_key]
           j3 == [j2 EXCEPT !.item = NoItem]
<1>3. iter' = [j3 EXCEPT !.sought = sought]
  BY DEF call_next
<1>4. sought \in BOOLEAN
  OBVIOUS
<1> HIDE DEF sought
<1>5. /\ j1 \in Iter /\ j1.pc = "next" /\ j1.last_key = iter.last_key /\ j1.walk = iter.walk
      /\ j1.pending = iter.pending /\ j1.from_seek = iter.from_seek
  BY <1>2 DEF Iter
<1> HIDE DEF j1
<1>6. /\ j2 \in Iter /\ j2.pc = "next" /\ j2.last_key = iter.last_key /\ j2.walk = iter.walk
      /\ j2.pending = iter.pending /\ j2.from_seek = iter.from_seek /\ j2.from = iter.last_key
  BY <1>2, <1>5 DEF Iter
<1> HIDE DEF j2
<1>7. /\ j3 \in Iter /\ j3.pc = "next" /\ j3.last_key = iter.last_key /\ j3.walk = iter.walk
      /\ j3.pending = iter.pending /\ j3.from_seek = iter.from_seek /\ j3.from = iter.last_key
      /\ j3.item = NoItem
  BY <1>6 DEF Iter
<1> HIDE DEF j3
<1>8. /\ iter' \in Iter /\ iter'.pc = "next" /\ iter'.last_key = iter.last_key
      /\ iter'.walk = iter.walk /\ iter'.pending = iter.pending
      /\ iter'.from_seek = iter.from_seek /\ iter'.from = iter.last_key /\ iter'.item = NoItem
  BY <1>3, <1>4, <1>7, SMTT(20) DEF Iter
<1>9. TypeOK'
  BY <1>1, <1>8, ObserveFacts, SMTT(20) DEF IInv, TypeOK, db
<1>10. WalkInv'
  <2>1. Position(iter) => Position(iter)'
    BY <1>1, <1>8 DEF Position
  <2> QED
    BY <1>1, <1>2, <1>8, <2>1, SMTT(20) DEF WalkInv, Fresh
<1>11. CallInv'
  BY <1>2, <1>8 DEF CallInv, Start
<1>12. NoneMissed' /\ ReturnsVisible'
  BY <1>8 DEF NoneMissed, ReturnsVisible, Returned
<1> QED
  BY <1>1, <1>9, <1>10, <1>11, <1>12, SMTT(20) DEF IInv


\* What holds after next when its new walk stands after its new last key.
LEMMA MovedWalk ==
  ASSUME NEW key \in Keys, DbInv, UNCHANGED db,
         iter' \in Iter, iter'.pc \in {"next", "returned"}, iter'.last_key = key,
         iter'.walk.tree = tree, iter'.walk.record = record,
         \/ iter'.pending = Unfetched /\ iter'.walk.cursor = key + 1
         \/ iter'.pending = NoItem /\ \A k \in DOMAIN tree : k <= key
         \/ /\ iter'.pending \in Item
            /\ iter'.pending.key \in DOMAIN tree
            /\ iter'.pending.value = tree[iter'.pending.key]
            /\ iter'.pending.key > key
            /\ iter'.walk.cursor = iter'.pending.key + 1
            /\ \A k \in DOMAIN tree : k > key => iter'.pending.key <= k
  PROVE  WalkInv'
PROOF
<1> USE KeyFacts, ItemFacts
<1>1. tree' = tree /\ record' = record /\ record \in Int
  BY DEF db, DbInv, MAX
<1>2. tree \in Maps /\ DOMAIN tree \subseteq Keys
  BY MapFacts DEF DbInv
<1>3. Position(iter)'
  BY <1>1, <1>2 DEF Position
<1>4. Fresh(iter)'
  BY DEF Fresh, Start
<1> QED
  BY <1>1, <1>3, <1>4, SMTT(20) DEF WalkInv

\* A key that was there all along is not below both candidates.
LEMMA CandidateFacts ==
  ASSUME IInv, iter.pc = "next", NEW r, r = Fetch,
         NEW k \in present, k \in Visible(overlay, tree), k > iter.from
  PROVE  \/ /\ k \in DOMAIN overlay /\ overlay[k].value # None
            /\ btree_next # NoItem /\ btree_next.key <= k
         \/ /\ k \notin DOMAIN overlay /\ k \in DOMAIN tree
            /\ r.item # NoItem /\ r.item.key <= k
PROOF
<1> USE KeyFacts
<1>1. k > iter.last_key /\ k \in Keys /\ iter.last_key \in Nat
  BY DEF IInv, CallInv, TypeOK, Iter, Start
<1>2. CASE k \in DOMAIN overlay
  <2>1. overlay[k].value # None
    BY <1>2 DEF Visible, Read
  <2>2. Above(k)
    BY <1>1 DEF Above
  <2> QED
    BY <1>2, <2>1, <2>2, OverlayFacts, SMTT(20) DEF IInv
<1>3. CASE k \notin DOMAIN overlay
  <2>1. k \in DOMAIN tree
    BY <1>3 DEF Visible, Read
  <2>2. ~(k <= iter.last_key)
    BY <1>1
  <2> QED
    BY <1>1, <1>3, <2>1, <2>2, FetchFacts, ItemFacts, SMTT(20) DEF IInv
<1> QED
  BY <1>2, <1>3

\* The key that next moves to: it is not below where the call began.
LEMMA AboveFacts ==
  ASSUME IInv, iter.pc = "next", NEW k \in Keys, Above(k)
  PROVE  k >= iter.from /\ k >= iter.last_key
  BY KeyFacts DEF Above, IInv, CallInv, TypeOK, Iter, Start

\* next returns nothing: neither source has a key above the last one.
LEMMA ReturnNoneKeepsIInv ==
  ASSUME IInv, iter.pc = "next", UNCHANGED db, Observe, NEW r, r = Fetch,
         btree_next = NoItem, r.item = NoItem,
         iter' \in Iter, iter'.pc = "returned", iter'.walk = r.walk, iter'.pending = NoItem,
         iter'.last_key = iter.last_key, iter'.item = iter.item, iter'.from = iter.from
  PROVE  IInv'
PROOF
<1> USE KeyFacts, ItemFacts
<1>1. DbInv' /\ tree' = tree /\ record' = record /\ overlay' = overlay /\ record \in Int
  BY SameDb, SMTT(20) DEF db, IInv, DbInv, MAX
<1>2. TypeOK'
  BY ObserveFacts DEF IInv, TypeOK, db
<1>3. iter'.item = NoItem
  BY DEF IInv, CallInv
<1>4. /\ r.walk.tree = tree /\ r.walk.record = record
      /\ \A k \in DOMAIN tree : k <= iter.last_key
  BY FetchFacts DEF IInv
<1>5. WalkInv'
  <2>1. Position(iter)'
    BY <1>1, <1>4, SMTT(20) DEF Position
  <2>2. Fresh(iter)'
    BY <1>3 DEF Fresh
  <2> QED
    BY <1>1, <1>4, <2>1, <2>2, SMTT(20) DEF WalkInv
<1>6. NoneMissed'
  <2>1. \A k \in present' : k \in present /\ k \in Visible(overlay, tree)
    BY <1>1, ObserveFacts, SMTT(20)
  <2>2. \A k \in present' : ~(k > iter.from)
    BY <2>1, CandidateFacts
  <2> QED
    BY <2>2, SMTT(20) DEF NoneMissed
<1>7. CallInv' /\ ReturnsVisible'
  BY <1>3, SMTT(20) DEF CallInv, ReturnsVisible
<1> QED
  BY <1>1, <1>2, <1>5, <1>6, <1>7, SMTT(20) DEF IInv

\* next returns the lower candidate.
LEMMA ReturnKeepsIInv ==
  ASSUME IInv, iter.pc = "next", UNCHANGED db, Observe, NEW key \in Keys, NEW value,
         Above(key), value # None, Read(overlay, tree, key) = value,
         \A k \in present : k \in Visible(overlay, tree) /\ k > iter.from => key <= k,
         iter' \in Iter, iter'.pc = "returned", iter'.from = iter.from,
         iter'.item = [key |-> key, value |-> value], WalkInv'
  PROVE  IInv'
PROOF
<1> USE KeyFacts, ItemFacts
<1>1. DbInv' /\ tree' = tree /\ overlay' = overlay
  BY SameDb, SMTT(20) DEF db
<1>2. TypeOK'
  BY ObserveFacts, SMTT(20) DEF IInv, TypeOK, db
<1>3. iter'.item # NoItem /\ iter'.item.key = key /\ iter'.item.value = value
  BY SMTT(20) DEF NoItem
<1>4. NoneMissed'
  <2>1. \A k \in present' : k \in present /\ k \in Visible(overlay, tree)
    BY <1>1, ObserveFacts, SMTT(20)
  <2> QED
    BY <1>3, <2>1, SMTT(20) DEF NoneMissed
<1>5. ReturnsVisible'
  <2>1. key \in Visible(overlay', tree') /\ Read(overlay', tree', key) = value
    BY <1>1, SMTT(20) DEF Visible
  <2>2. <<key, value>> \in seen'
    BY <2>1, ObserveFacts
  <2> QED
    BY <1>3, <2>2, AboveFacts, SMTT(20) DEF ReturnsVisible
<1>6. CallInv'
  BY DEF CallInv
<1> QED
  BY <1>1, <1>2, <1>4, <1>5, <1>6, SMTT(20) DEF IInv

\* next passes a removed key over.
LEMMA PassKeepsIInv ==
  ASSUME IInv, iter.pc = "next", UNCHANGED db, Observe, NEW key \in Keys, Above(key),
         \A k \in present : k \in Visible(overlay, tree) /\ k > iter.from => key < k,
         iter' \in Iter, iter'.pc = "next", iter'.from = iter.from, iter'.item = iter.item,
         iter'.last_key = key, WalkInv'
  PROVE  IInv'
PROOF
<1> USE KeyFacts
<1>1. DbInv' /\ tree' = tree /\ overlay' = overlay
  BY SameDb DEF db
<1>2. TypeOK'
  BY ObserveFacts DEF IInv, TypeOK, db
<1>3. CallInv'
  <2>1. \A k \in present' : k \in present /\ k \in Visible(overlay, tree)
    BY <1>1, ObserveFacts, SMTT(20)
  <2>2. iter.item = NoItem /\ iter.from <= key
    BY AboveFacts, SMTT(20) DEF IInv, CallInv, TypeOK, Iter, Start
  <2> QED
    BY <2>1, <2>2, SMTT(20) DEF CallInv
<1>4. NoneMissed' /\ ReturnsVisible'
  BY DEF NoneMissed, ReturnsVisible, Returned
<1> QED
  BY <1>1, <1>2, <1>3, <1>4, SMTT(20) DEF IInv

=============================================================================
