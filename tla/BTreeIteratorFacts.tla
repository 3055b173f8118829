------------------------- MODULE BTreeIteratorFacts -------------------------
(***************************************************************************)
(* The inductive invariant of BTreeIterator and the facts its proof rests  *)
(* on: what the operators return, and what the steps of the database and   *)
(* of the merge may do to an iterator.                                     *)
(***************************************************************************)
EXTENDS BTreeIterator, WellFoundedInduction, TLAPS

\* What a commit in the queue writes: None is a removal.
Written == UNION {[S -> {None} \cup 1..MaxCommits] : S \in SUBSET Keys}
Queued == [id : 1..MaxCommits, changes : Written]

\* The ids in the queue are the last ones given out, in order, and the column's
\* last record is older than every commit that is not in the log yet.
DbInv ==
    /\ tree \in Maps
    /\ commits \in 0..MaxCommits
    /\ record \in {MAX} \cup 1..MaxCommits
    /\ queue \in Seq(Queued)
    /\ \A i \in 1..Len(queue) : queue[i].id = commits - Len(queue) + i
    /\ logged => queue # <<>>
    /\ record <= commits - Len(queue) + (IF logged THEN 1 ELSE 0)
    /\ DOMAIN overlay \subseteq Keys
    /\ \A k \in DOMAIN overlay : overlay[k].value \in {None} \cup 1..MaxCommits

\* Where a walk of the current tree stands: it has not gone past a key above
\* the last one, and it does not go back to the last one, except after a seek.
Position(it) ==
    /\ it.pending = Unfetched =>
        /\ \A k \in DOMAIN tree : k > it.last_key => k >= it.walk.cursor
        /\ \A k \in Keys : k >= it.walk.cursor =>
                              k > it.last_key \/ (it.from_seek /\ k = it.last_key)
    /\ it.pending = NoItem => \A k \in DOMAIN tree : k <= it.last_key
    /\ it.pending \in Item =>
        /\ it.pending.key \in DOMAIN tree
        /\ it.pending.value = tree[it.pending.key]
        /\ it.pending.key > it.last_key
        /\ it.walk.cursor = it.pending.key + 1
        /\ \A k \in DOMAIN tree : k > it.last_key => k >= it.pending.key

\* An iterator that has returned nothing yet has not moved.
Fresh(it) ==
    it.last_key = Start =>
        \/ it.pc = "returned" /\ it.item = NoItem
        \/ it.walk.cursor = Start /\ it.pending = Unfetched /\ ~it.from_seek

WalkInv ==
    /\ iter.walk.record <= record
    /\ Fresh(iter)
    /\ iter.pc \in {"none", "opening"} =>
           iter.walk.cursor = Start /\ iter.last_key = Start /\ iter.pending = Unfetched
    /\ iter.pc \notin {"none", "opening"} /\ record = iter.walk.record =>
           iter.walk.tree = tree /\ Position(iter)

\* While next passes removed keys over, it passes no key that was there all along.
CallInv ==
    iter.pc = "next" =>
        /\ iter.item = NoItem
        /\ iter.from <= iter.last_key
        /\ \A k \in present : k > iter.from => k > iter.last_key

IInv == TypeOK /\ DbInv /\ WalkInv /\ CallInv /\ NoneMissed /\ ReturnsVisible

-----------------------------------------------------------------------------
(* Facts about the operators.                                              *)

\* Keys are positive numbers, below End.
LEMMA KeyFacts ==
  /\ Max(Keys) \in Nat \ {0}
  /\ \A k \in Keys : k \in Nat /\ k > Start /\ k \in Start..Max(Keys) /\ k < End
  /\ Start \in Start..Max(Keys) /\ Start..Max(Keys) \subseteq Start..End
  BY KeysAssumption DEF Start, End

\* A set of numbers that is not empty has a least one (walk_next and
\* CommitOverlay::btree_next take it).
LEMMA MinFacts ==
  ASSUME NEW S \in SUBSET Nat, S # {}
  PROVE  /\ Min(S) \in S
         /\ \A k \in S : Min(S) <= k
PROOF
<1> DEFINE R == OpToRel(<, Nat)
<1>1. IsWellFoundedOn(R, Nat)
  BY NatLessThanWellFounded, Zenon
<1>2. \A a, b \in Nat : a < b => <<a, b>> \in R
  BY DEF OpToRel
<1> HIDE DEF R
<1>3. \E x \in S : \A y \in S : ~ (<<y, x>> \in R)
  BY <1>1, WFMin, Zenon
<1>4. PICK x \in S : \A y \in S : ~ (<<y, x>> \in R)
  BY <1>3
<1>5. \A y \in S : ~ (y < x)
  <2> TAKE y \in S
  <2>1. y \in Nat /\ x \in Nat
    OBVIOUS
  <2> QED
    BY <1>2, <1>4, <2>1, Zenon
<1>6. \A y \in S : x =< y
  BY <1>5
<1> QED
  BY <1>6, Zenon DEF Min

\* A map of the tree has some of the keys, and values.
LEMMA MapFacts ==
  ASSUME NEW f \in Maps
  PROVE  DOMAIN f \subseteq Keys /\ \A k \in DOMAIN f : f[k] \in 0..MaxCommits /\ f[k] # None
  BY BoundsAssumption DEF Maps, None

\* A function from some keys to values is a tree.
LEMMA MapIntro ==
  ASSUME NEW S \in SUBSET Keys, NEW f \in [S -> 0..MaxCommits]
  PROVE  f \in Maps
  BY DEF Maps

\* A commit writes keys of the column: values or removals.
LEMMA WrittenFacts ==
  ASSUME NEW f \in Written
  PROVE  DOMAIN f \subseteq Keys /\ \A k \in DOMAIN f : f[k] \in {None} \cup 1..MaxCommits
  BY DEF Written

\* The two marks of the iterator are no items.
LEMMA ItemFacts ==
  /\ NoItem # Unfetched
  /\ NoItem \notin Item /\ Unfetched \notin Item
  /\ \A x \in Item : x.key \in Keys /\ x.key \in Nat
  BY KeyFacts DEF NoItem, Unfetched, Item, Start, None

-----------------------------------------------------------------------------
(* The database.                                                           *)

\* The invariant holds at the start.
LEMMA InitIInv == Init => IInv
PROOF
<1> SUFFICES ASSUME Init PROVE IInv
  OBVIOUS
<1> USE KeyFacts, ItemFacts, BoundsAssumption
<1>1. tree \in Maps
  <2>1. PICK S \in SUBSET Keys : tree = [k \in S |-> 0]
    BY DEF Init
  <2> QED
    BY <2>1, MapIntro
<1>2. NoWalk \in Walk
  <2>1. <<>> \in [{} -> 0..MaxCommits]
    OBVIOUS
  <2>2. <<>> \in Maps
    BY <2>1, MapIntro, Zenon
  <2> QED
    BY <2>2 DEF NoWalk, Walk, MAX
<1>3. iter \in Iter
  BY <1>2 DEF Init, Iter
<1>4. TypeOK
  BY <1>3 DEF Init, TypeOK
<1>5. DbInv
  BY <1>1 DEF Init, DbInv, MAX
<1>6. WalkInv
  BY DEF Init, WalkInv, Fresh, NoWalk, MAX
<1> QED
  BY <1>4, <1>5, <1>6 DEF Init, IInv, CallInv, NoneMissed, ReturnsVisible, Returned

\* What a step of the database may do to what an iterator relies on: the tree
\* only changes together with the column's record, which only grows.
DbStep == DbInv' /\ record <= record' /\ (record' = record => tree' = tree)

\* commit only changes the overlay and the queue.
LEMMA CommitStep ==
  ASSUME DbInv, NEW ch \in Changes, commit(ch)
  PROVE  DbStep
PROOF
<1> DEFINE id == commits + 1
<1> DEFINE value == [k \in DOMAIN ch |-> IF ch[k] THEN id ELSE None]
<1>1. DOMAIN ch \subseteq Keys
  BY ChangesAssumption
<1>2. id \in 1..MaxCommits
  BY BoundsAssumption DEF commit, DbInv
<1>3. value \in Written
  <2>1. value \in [DOMAIN ch -> {None} \cup 1..MaxCommits]
    BY <1>2
  <2> QED
    BY <1>1, <2>1 DEF Written
<1>4. /\ commits' = id /\ queue' = Append(queue, [id |-> id, changes |-> value])
      /\ overlay' = [k \in DOMAIN ch \cup DOMAIN overlay |->
                        IF k \in DOMAIN ch THEN [id |-> id, value |-> value[k]] ELSE overlay[k]]
      /\ UNCHANGED <<logged, tree, record>>
  BY DEF commit
<1>5. \A k \in DOMAIN ch : value[k] \in {None} \cup 1..MaxCommits
  BY <1>2
<1> HIDE DEF id, value
<1>6. DOMAIN overlay' \subseteq Keys /\ \A k \in DOMAIN overlay' : overlay'[k].value \in {None} \cup 1..MaxCommits
  BY <1>1, <1>4, <1>5 DEF DbInv
<1>7. queue' \in Seq(Queued)
  <2>1. [id |-> id, changes |-> value] \in Queued
    BY <1>2, <1>3 DEF Queued
  <2> QED
    BY <1>4, <2>1 DEF DbInv
<1>8. /\ Len(queue') = Len(queue) + 1 /\ Len(queue) \in Nat
      /\ \A i \in 1..Len(queue) : queue'[i] = queue[i]
      /\ queue'[Len(queue) + 1].id = id
  BY <1>2, <1>3, <1>4 DEF DbInv
<1>9. \A i \in 1..Len(queue') : queue'[i].id = commits' - Len(queue') + i
  <2> SUFFICES ASSUME NEW i \in 1..Len(queue') PROVE queue'[i].id = commits' - Len(queue') + i
    OBVIOUS
  <2>1. CASE i = Len(queue) + 1
    BY <1>2, <1>4, <1>8, <2>1 DEF id, DbInv
  <2>2. CASE i # Len(queue) + 1
    <3>1. i \in 1..Len(queue)
      BY <1>8, <2>2
    <3> QED
      BY <1>4, <1>8, <3>1 DEF id, DbInv
  <2> QED
    BY <2>1, <2>2
<1>10. record' <= commits' - Len(queue') + (IF logged' THEN 1 ELSE 0)
  BY <1>4, <1>8 DEF id, DbInv, MAX
<1>11. logged' => queue' # <<>>
  BY <1>8
<1>12. record <= record
  BY DEF DbInv, MAX
<1>13. tree' \in Maps /\ commits' \in 0..MaxCommits /\ record' \in {MAX} \cup 1..MaxCommits
  BY <1>2, <1>4 DEF DbInv
<1>14. DbInv'
  BY <1>6, <1>7, <1>9, <1>10, <1>11, <1>13, SMTT(30) DEF DbInv
<1> QED
  BY <1>4, <1>12, <1>14 DEF DbStep

\* process_commit changes the tree only when it sets a new record id.
LEMMA ProcessStep ==
  ASSUME DbInv, process_commit
  PROVE  DbStep
PROOF
<1> DEFINE ch == Head(queue).changes
<1> DEFINE gone == {k \in DOMAIN ch : ch[k] = None}
<1> DEFINE put == DOMAIN ch \ gone
<1> DEFINE wrote == put # {} \/ gone \cap DOMAIN tree # {} \/ ~rooted
<1>1. /\ queue # <<>> /\ ~logged /\ logged' = TRUE /\ UNCHANGED <<overlay, queue, commits>>
      /\ tree' = [k \in put \cup (DOMAIN tree \ gone) |-> IF k \in put THEN ch[k] ELSE tree[k]]
      /\ record' = IF wrote THEN Head(queue).id ELSE record
  BY DEF process_commit
<1>2. Head(queue) \in Queued /\ Len(queue) \in Nat \ {0} /\ Head(queue) = queue[1]
  <2>1. queue \in Seq(Queued) /\ queue # <<>>
    BY <1>1 DEF DbInv
  <2>2. Len(queue) \in Nat \ {0} /\ Head(queue) = queue[1]
    BY <2>1
  <2>3. queue[1] \in Queued
    BY <2>1, <2>2
  <2> QED
    BY <2>2, <2>3, SMTT(20)
<1>3. DOMAIN ch \subseteq Keys /\ \A k \in put : ch[k] \in 0..MaxCommits
  <2>1. DOMAIN ch \subseteq Keys /\ \A k \in DOMAIN ch : ch[k] \in {None} \cup 1..MaxCommits
    BY <1>2, WrittenFacts DEF Queued
  <2> QED
    BY <2>1
<1>4. Head(queue).id = commits - Len(queue) + 1
  BY <1>2 DEF DbInv
<1>5. tree' \in Maps
  <2>1. DOMAIN tree \subseteq Keys /\ \A k \in DOMAIN tree : tree[k] \in 0..MaxCommits
    BY MapFacts, SMTT(20) DEF DbInv
  <2>2. tree' \in [put \cup (DOMAIN tree \ gone) -> 0..MaxCommits]
    BY <1>1, <1>3, <2>1
  <2>3. put \cup (DOMAIN tree \ gone) \in SUBSET Keys
    BY <1>3, <2>1
  <2> QED
    BY <2>2, <2>3, MapIntro
<1>6. record < Head(queue).id /\ Head(queue).id \in 1..MaxCommits
  BY <1>1, <1>2, <1>4, SMTT(20) DEF DbInv, MAX, Queued
<1>7. ~wrote => tree' = tree
  <2> SUFFICES ASSUME ~wrote PROVE tree' = tree
    OBVIOUS
  <2>1. put \cup (DOMAIN tree \ gone) = DOMAIN tree /\ put = {}
    OBVIOUS
  <2>2. tree = [k \in DOMAIN tree |-> tree[k]]
    BY DEF DbInv, Maps
  <2> QED
    BY <1>1, <2>1, <2>2
<1> HIDE DEF wrote
<1>8. record' \in {MAX} \cup 1..MaxCommits /\ record' <= commits - Len(queue) + 1 /\ record <= record'
  BY <1>1, <1>2, <1>4, <1>6, SMTT(20) DEF DbInv, MAX
<1>9. record' = record => tree' = tree
  BY <1>1, <1>2, <1>6, <1>7 DEF DbInv, MAX
<1>10. DbInv'
  <2>1. \A i \in 1..Len(queue') : queue'[i].id = commits' - Len(queue') + i
    BY <1>1 DEF DbInv
  <2>2. record' <= commits' - Len(queue') + (IF logged' THEN 1 ELSE 0)
    BY <1>1, <1>8
  <2>3. /\ commits' \in 0..MaxCommits /\ queue' \in Seq(Queued) /\ queue' # <<>>
        /\ DOMAIN overlay' \subseteq Keys
        /\ \A k \in DOMAIN overlay' : overlay'[k].value \in {None} \cup 1..MaxCommits
    BY <1>1 DEF DbInv
  <2>4. record' \in {MAX} \cup 1..MaxCommits
    BY <1>8
  <2> QED
    BY <1>5, <2>1, <2>2, <2>3, <2>4, Zenon DEF DbInv
<1> QED
  BY <1>8, <1>9, <1>10, Zenon DEF DbStep

\* clean_overlay changes neither the tree nor the record.
LEMMA CleanStep ==
  ASSUME DbInv, clean_overlay
  PROVE  DbStep
PROOF
<1>1. /\ logged /\ queue # <<>> /\ queue' = Tail(queue) /\ logged' = FALSE
      /\ UNCHANGED <<tree, record, commits>>
      /\ \E S \in SUBSET DOMAIN overlay : overlay' = [k \in S |-> overlay[k]]
  BY Zenon DEF clean_overlay, DbInv
<1>2. DOMAIN overlay' \subseteq Keys /\ \A k \in DOMAIN overlay' : overlay'[k].value \in {None} \cup 1..MaxCommits
  BY <1>1 DEF DbInv
<1>3. /\ queue' \in Seq(Queued)
      /\ Len(queue') = Len(queue) - 1 /\ Len(queue) \in Nat \ {0}
      /\ \A i \in 1..Len(queue') : queue'[i] = queue[i + 1]
  BY <1>1 DEF DbInv
<1>4. \A i \in 1..Len(queue') : queue'[i].id = commits' - Len(queue') + i
  <2> SUFFICES ASSUME NEW i \in 1..Len(queue') PROVE queue'[i].id = commits' - Len(queue') + i
    OBVIOUS
  <2>1. i + 1 \in 1..Len(queue) /\ queue'[i] = queue[i + 1]
    BY <1>3
  <2> QED
    BY <1>1, <1>3, <2>1 DEF DbInv
<1>5. record' <= commits' - Len(queue') + (IF logged' THEN 1 ELSE 0) /\ record <= record
  BY <1>1, <1>3 DEF DbInv, MAX
<1> QED
  BY <1>1, <1>2, <1>3, <1>4, <1>5 DEF DbStep, DbInv

-----------------------------------------------------------------------------
(* The two candidates of next.                                             *)

\* A key that an iterator may still return.
Above(k) == k > iter.last_key \/ (iter.from_seek /\ k = iter.last_key)

\* CommitOverlay::btree_next: the first key of the overlay that is above.
LEMMA OverlayFacts ==
  ASSUME TypeOK, DbInv
  PROVE  \/ btree_next = NoItem /\ \A k \in DOMAIN overlay : ~Above(k)
         \/ /\ btree_next # NoItem
            /\ btree_next.key \in DOMAIN overlay /\ btree_next.key \in Keys
            /\ btree_next.value = overlay[btree_next.key].value
            /\ Above(btree_next.key)
            /\ \A k \in DOMAIN overlay : Above(k) => btree_next.key <= k
PROOF
<1> DEFINE above == {k \in DOMAIN overlay : Above(k)}
<1>1. btree_next = IF above = {} THEN NoItem
                   ELSE [key |-> Min(above), value |-> overlay[Min(above)].value]
  BY DEF btree_next, Above
<1>2. above \in SUBSET Nat /\ above \subseteq Keys
  BY KeyFacts DEF DbInv
<1>3. CASE above = {}
  BY <1>1, <1>3
<1>4. CASE above # {}
  <2>1. Min(above) \in above /\ \A k \in above : Min(above) <= k
    BY <1>2, <1>4, MinFacts
  <2> DEFINE m == Min(above)
  <2>2. btree_next.key = m /\ btree_next.value = overlay[m].value
    BY <1>1, <1>4
  <2>3. m \in above /\ m \in Keys /\ m # Start
    BY <1>2, <2>1, KeyFacts
  <2>4. btree_next # NoItem
    BY <2>2, <2>3 DEF NoItem
  <2> HIDE DEF m
  <2>5. \A k \in DOMAIN overlay : Above(k) => m <= k
    BY <2>1 DEF m
  <2> QED
    BY <2>2, <2>3, <2>4, <2>5
<1> QED
  BY <1>3, <1>4

\* BTreeIterState::next: the first key of the walk's tree from the cursor on.
LEMMA WalkNextFacts ==
  ASSUME NEW w \in Walk, NEW r, r = walk_next(w)
  PROVE  /\ r.walk \in Walk /\ r.walk.tree = w.tree /\ r.walk.record = w.record
         /\ \/ r.item = NoItem /\ \A k \in DOMAIN w.tree : k < w.cursor
            \/ /\ r.item \in Item
               /\ r.item.key \in DOMAIN w.tree /\ r.item.value = w.tree[r.item.key]
               /\ r.item.key >= w.cursor
               /\ r.walk.cursor = r.item.key + 1
               /\ \A k \in DOMAIN w.tree : k >= w.cursor => r.item.key <= k
PROOF
<1> DEFINE rest == {k \in DOMAIN w.tree : k >= w.cursor}
<1>1. /\ w.tree \in Maps /\ w.cursor \in Start..End
      /\ w = [tree |-> w.tree, record |-> w.record, cursor |-> w.cursor]
  BY DEF Walk
<1>2. /\ DOMAIN w.tree \subseteq Keys /\ \A k \in DOMAIN w.tree : w.tree[k] \in 0..MaxCommits
      /\ rest \in SUBSET Nat /\ rest \subseteq Keys
  BY <1>1, MapFacts, KeyFacts
<1>3. CASE rest = {}
  <2>1. r = [walk |-> [w EXCEPT !.cursor = End], item |-> NoItem]
    BY <1>3 DEF walk_next
  <2>2. \A k \in DOMAIN w.tree : k < w.cursor
    BY <1>1, <1>2, <1>3, KeyFacts DEF Start, End
  <2>3. End \in Start..End
    BY KeyFacts DEF Start, End
  <2> QED
    BY <1>1, <2>1, <2>2, <2>3 DEF Walk
<1>4. CASE rest # {}
  <2> DEFINE k0 == Min(rest)
  <2>1. k0 \in rest /\ \A k \in rest : k0 <= k
    BY <1>2, <1>4, MinFacts
  <2>2. r = [walk |-> [w EXCEPT !.cursor = k0 + 1], item |-> [key |-> k0, value |-> w.tree[k0]]]
    BY <1>4 DEF walk_next
  <2> HIDE DEF k0
  <2>3. k0 \in Keys /\ k0 \in DOMAIN w.tree /\ k0 >= w.cursor /\ k0 + 1 \in Start..End
    BY <1>2, <2>1, KeyFacts DEF Start, End
  <2>4. r.walk \in Walk /\ r.walk.tree = w.tree /\ r.walk.record = w.record /\ r.walk.cursor = k0 + 1
    BY <1>1, <2>2, <2>3 DEF Walk
  <2>5. r.item \in Item /\ r.item.key = k0 /\ r.item.value = w.tree[k0]
    BY <1>2, <2>2, <2>3 DEF Item
  <2> QED
    BY <2>1, <2>3, <2>4, <2>5
<1> QED
  BY <1>3, <1>4

\* A walk that is opened again is a walk of the current tree.
LEMMA ReopenFacts ==
  ASSUME DbInv, NEW w \in Walk
  PROVE  /\ reopen(w) \in Walk
         /\ reopen(w).tree = tree /\ reopen(w).record = record /\ reopen(w).cursor = w.cursor
PROOF
<1>1. tree \in Maps /\ record \in {MAX} \cup 1..MaxCommits
  BY DEF DbInv
<1>2. DOMAIN w = {"tree", "record", "cursor"} /\ w.cursor \in Start..End
  BY DEF Walk
<1>3. reopen(w) = [[w EXCEPT !.tree = tree] EXCEPT !.record = record]
  BY DEF reopen
<1>4. /\ [w EXCEPT !.tree = tree] \in Walk
      /\ [w EXCEPT !.tree = tree].tree = tree
      /\ [w EXCEPT !.tree = tree].cursor = w.cursor
  BY <1>1 DEF Walk
<1> QED
  BY <1>1, <1>3, <1>4, Zenon DEF Walk

\* A seek moves the cursor and nothing else.
LEMMA WalkSeekFacts ==
  ASSUME NEW w \in Walk, NEW key, key \in Start..End, key + 1 \in Start..End
  PROVE  /\ walk_seek(w, key, TRUE) \in Walk /\ walk_seek(w, key, FALSE) \in Walk
         /\ walk_seek(w, key, TRUE).tree = w.tree /\ walk_seek(w, key, FALSE).tree = w.tree
         /\ walk_seek(w, key, TRUE).record = w.record /\ walk_seek(w, key, FALSE).record = w.record
         /\ walk_seek(w, key, TRUE).cursor = key + 1 /\ walk_seek(w, key, FALSE).cursor = key
  BY SMTT(20) DEF walk_seek, Walk

\* What next has of the tree: kept from the call before, or read now.
Fetch ==
    LET fetched == IF record # iter.walk.record THEN Unfetched ELSE iter.pending
    IN  IF fetched = Unfetched THEN next_backend ELSE [walk |-> iter.walk, item |-> fetched]

\* It is the first key of the tree above the last one, however long ago it was fetched.
LEMMA FetchFacts ==
  ASSUME TypeOK, DbInv, WalkInv, iter.pc = "next", NEW r, r = Fetch
  PROVE  /\ r.walk \in Walk /\ r.walk.tree = tree /\ r.walk.record = record
         /\ \/ r.item = NoItem /\ \A k \in DOMAIN tree : k <= iter.last_key
            \/ /\ r.item \in Item
               /\ r.item.key \in DOMAIN tree /\ r.item.value = tree[r.item.key]
               /\ Above(r.item.key)
               /\ r.walk.cursor = r.item.key + 1
               /\ \A k \in DOMAIN tree : k > iter.last_key => r.item.key <= k
PROOF
<1> USE KeyFacts, ItemFacts
<1>1. /\ iter.walk \in Walk /\ iter.last_key \in Start..Max(Keys) /\ iter.last_key \in Nat
      /\ iter.pending \in {Unfetched, NoItem} \cup Item
  BY DEF TypeOK, Iter, Start
<1>2. tree \in Maps /\ DOMAIN tree \subseteq Keys /\ DOMAIN tree \subseteq Nat
  BY MapFacts DEF DbInv
<1>3. record \in {MAX} \cup 1..MaxCommits
  BY SMTT(20) DEF DbInv
<1>4. CASE record = iter.walk.record /\ iter.pending # Unfetched
  <2>1. r = [walk |-> iter.walk, item |-> iter.pending]
    BY <1>4 DEF Fetch
  <2>2. iter.walk.tree = tree /\ Position(iter)
    BY <1>4, SMTT(20) DEF WalkInv
  <2> QED
    BY <1>1, <1>2, <1>4, <2>1, <2>2, SMTT(20) DEF Position, Above
<1>5. CASE record = iter.walk.record /\ iter.pending = Unfetched
  <2>1. r = walk_next(iter.walk)
    BY <1>5 DEF Fetch, next_backend
  <2>2. iter.walk.tree = tree /\ Position(iter) /\ iter.walk.cursor \in Start..End
    BY <1>1, <1>5 DEF WalkInv, Walk
  <2>3. \A k \in DOMAIN tree : k > iter.last_key => k >= iter.walk.cursor
    BY <1>5, <2>2 DEF Position
  <2>4. \A k \in Keys : k >= iter.walk.cursor => Above(k)
    BY <1>5, <2>2 DEF Position, Above
  <2> HIDE DEF Above
  <2> DEFINE none == r.item = NoItem /\ \A k \in DOMAIN tree : k < iter.walk.cursor
             some == /\ r.item \in Item
                     /\ r.item.key \in DOMAIN tree /\ r.item.value = tree[r.item.key]
                     /\ r.item.key >= iter.walk.cursor
                     /\ r.walk.cursor = r.item.key + 1
                     /\ \A k \in DOMAIN tree : k >= iter.walk.cursor => r.item.key <= k
  <2>5. r.walk \in Walk /\ r.walk.tree = tree /\ r.walk.record = record /\ (none \/ some)
    BY <1>1, <1>5, <2>1, <2>2, WalkNextFacts
  <2>6. CASE none
    BY <1>1, <1>2, <2>2, <2>3, <2>5, <2>6, SMTT(20) DEF Start, End
  <2>7. CASE some
    BY <1>2, <2>3, <2>4, <2>5, <2>7, SMTT(20)
  <2> QED
    BY <2>5, <2>6, <2>7
<1>6. CASE record # iter.walk.record
  <2> DEFINE w == IF iter.last_key = Start THEN reopen(iter.walk)
                  ELSE walk_seek(reopen(iter.walk), iter.last_key, TRUE)
  <2>1. r = walk_next(w)
    BY <1>6, Zenon DEF Fetch, next_backend
  <2>2. iter.last_key = Start => iter.walk.cursor = Start
    BY DEF WalkInv, Fresh
  <2>3. /\ w \in Walk /\ w.tree = tree /\ w.record = record
        /\ w.cursor = IF iter.last_key = Start THEN Start ELSE iter.last_key + 1
    <3>1. CASE iter.last_key = Start
      BY <1>1, <2>2, <3>1, ReopenFacts
    <3>2. CASE iter.last_key # Start
      <4>1. iter.last_key \in Start..End /\ iter.last_key + 1 \in Start..End
        BY <1>1 DEF Start, End
      <4> DEFINE v == reopen(iter.walk)
      <4>2. v \in Walk /\ v.tree = tree /\ v.record = record
        BY <1>1, ReopenFacts
      <4> HIDE DEF v
      <4>3. /\ walk_seek(v, iter.last_key, TRUE) \in Walk
            /\ walk_seek(v, iter.last_key, TRUE).tree = v.tree
            /\ walk_seek(v, iter.last_key, TRUE).record = v.record
            /\ walk_seek(v, iter.last_key, TRUE).cursor = iter.last_key + 1
        BY <4>1, <4>2, WalkSeekFacts, ZenonT(40)
      <4>4. w = walk_seek(v, iter.last_key, TRUE)
        BY <3>2 DEF v
      <4> QED
        BY <3>2, <4>2, <4>3, <4>4, Zenon
    <3> QED
      BY <3>1, <3>2, Zenon
  <2> HIDE DEF w
  <2>4. \A k \in DOMAIN tree : k > iter.last_key => k >= w.cursor
    BY <1>1, <1>2, <2>3 DEF Start
  <2>5. \A k \in Keys : k >= w.cursor => k > iter.last_key
    BY <1>1, <2>3 DEF Start
  <2>6. w.cursor \in Nat
    BY <1>1, <2>3 DEF Start
  <2>7. r.walk \in Walk /\ r.walk.tree = tree /\ r.walk.record = record
    BY <2>1, <2>3, WalkNextFacts
  <2>8. CASE r.item = NoItem /\ \A k \in DOMAIN tree : k < w.cursor
    BY <1>1, <1>2, <2>4, <2>6, <2>7, <2>8
  <2>9. CASE /\ r.item \in Item
             /\ r.item.key \in DOMAIN tree /\ r.item.value = tree[r.item.key]
             /\ r.item.key >= w.cursor
             /\ r.walk.cursor = r.item.key + 1
             /\ \A k \in DOMAIN tree : k >= w.cursor => r.item.key <= k
    BY <1>2, <2>4, <2>5, <2>7, <2>9 DEF Above
  <2> QED
    BY <2>1, <2>3, <2>8, <2>9, WalkNextFacts
<1> QED
  BY <1>4, <1>5, <1>6

-----------------------------------------------------------------------------
(* What next makes of the iterator.                                        *)

\* Returning an item moves the last key to it.
LEMMA ReturnFacts ==
  ASSUME NEW it \in Iter, NEW key \in Keys, NEW value \in 0..MaxCommits,
         NEW i, i = Return(it, key, value)
  PROVE  /\ i \in Iter /\ i.pc = "returned" /\ i.last_key = key
         /\ i.item = [key |-> key, value |-> value]
         /\ i.walk = it.walk /\ i.pending = it.pending /\ i.from = it.from
         /\ i.from_seek = it.from_seek
PROOF
<1>1. i = [[[it EXCEPT !.pc = "returned"] EXCEPT !.last_key = key]
             EXCEPT !.item = [key |-> key, value |-> value]]
  BY DEF Return
<1>2. key \in Start..Max(Keys) /\ [key |-> key, value |-> value] \in Item
  BY KeyFacts DEF Item
<1> DEFINE j == [it EXCEPT !.pc = "returned"]
           l == [j EXCEPT !.last_key = key]
<1>3. /\ j \in Iter /\ j.pc = "returned" /\ j.walk = it.walk /\ j.pending = it.pending
      /\ j.from = it.from /\ j.from_seek = it.from_seek
  BY DEF Iter
<1> HIDE DEF j
<1>4. /\ l \in Iter /\ l.pc = j.pc /\ l.walk = j.walk /\ l.pending = j.pending
      /\ l.last_key = key /\ l.from = j.from /\ l.from_seek = j.from_seek
  BY <1>2, <1>3 DEF Iter
<1> HIDE DEF l
<1>5. i = [l EXCEPT !.item = [key |-> key, value |-> value]]
  BY <1>1 DEF j, l
<1> QED
  BY <1>2, <1>3, <1>4, <1>5 DEF Iter

\* Passing over a removed key moves the last key to it as well.
LEMMA PassFacts ==
  ASSUME NEW it \in Iter, NEW key \in Keys, NEW i, i = Pass(it, key)
  PROVE  /\ i \in Iter /\ i.pc = it.pc /\ i.last_key = key /\ i.item = it.item
         /\ i.walk = it.walk /\ i.pending = it.pending /\ i.from = it.from
PROOF
<1>1. i = [[it EXCEPT !.last_key = key] EXCEPT !.from_seek = FALSE]
  BY DEF Pass
<1>2. key \in Start..Max(Keys)
  BY KeyFacts
<1> DEFINE j == [it EXCEPT !.last_key = key]
<1>3. /\ j \in Iter /\ j.pc = it.pc /\ j.last_key = key /\ j.item = it.item
      /\ j.walk = it.walk /\ j.pending = it.pending /\ j.from = it.from
  BY <1>2 DEF Iter
<1> HIDE DEF j
<1>4. i = [j EXCEPT !.from_seek = FALSE]
  BY <1>1 DEF j
<1> QED
  BY <1>3, <1>4, Zenon DEF Iter

\* An item of the overlay is returned, or passed over when it is a removal.
LEMMA ReturnOrPassFacts ==
  ASSUME NEW it \in Iter, NEW o, o.key \in Keys, o.value \in {None} \cup 1..MaxCommits,
         NEW i, i = ReturnOrPass(it, o)
  PROVE  /\ i \in Iter /\ i.last_key = o.key
         /\ i.walk = it.walk /\ i.pending = it.pending /\ i.from = it.from
         /\ o.value = None => i.pc = it.pc /\ i.item = it.item
         /\ o.value # None => i.pc = "returned" /\ i.item = [key |-> o.key, value |-> o.value]
PROOF
<1>1. CASE o.value = None
  BY <1>1, PassFacts DEF ReturnOrPass
<1>2. CASE o.value # None
  <2> DEFINE j == Return(it, o.key, o.value)
  <2>1. o.value \in 0..MaxCommits
    BY <1>2 DEF None
  <2>2. i = [j EXCEPT !.from_seek = FALSE]
    BY <1>2 DEF ReturnOrPass
  <2>3. /\ j \in Iter /\ j.pc = "returned" /\ j.last_key = o.key
        /\ j.item = [key |-> o.key, value |-> o.value]
        /\ j.walk = it.walk /\ j.pending = it.pending /\ j.from = it.from
    BY <2>1, ReturnFacts
  <2> HIDE DEF j
  <2> QED
    BY <1>2, <2>2, <2>3, Zenon DEF Iter
<1> QED
  BY <1>1, <1>2

=============================================================================
