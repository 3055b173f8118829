--------------------------- MODULE PipelineProofs ---------------------------
(***************************************************************************)
(* Proofs about Pipeline, for every set of keys and readers and every      *)
(* bound: an inductive invariant, what get returns, and that Pipeline      *)
(* implements AtomicStore.                                                 *)
(***************************************************************************)
EXTENDS Pipeline, TLAPS

Busy == log_worker.pc \in {"popped", "logged"}

\* Commit ids grow from the log worker's commit through the queue to record_id + 1.
QueueOrdered ==
    /\ Busy => log_worker.commit.id > 0
    /\ log_worker.commit.id <= record_id + 1
    /\ \A i \in DOMAIN commits :
           /\ log_worker.commit.id < commits[i].id
           /\ commits[i].id <= record_id + 1
    /\ \A i, j \in DOMAIN commits : i < j => commits[i].id < commits[j].id

\* The commit overlay covers every commit that is not yet logged ...
CommitOverlayCovers ==
    /\ \A i \in DOMAIN commits : \A k \in commits[i].keys : commit_overlay[k] >= commits[i].id
    /\ Busy => \A k \in log_worker.commit.keys : commit_overlay[k] >= log_worker.commit.id

\* ... and nothing else.
CommitOverlayTight ==
    \A k \in Keys : commit_overlay[k] # 0 =>
        \/ log_worker.pc # "idle" /\ k \in log_worker.commit.keys
               /\ commit_overlay[k] = log_worker.commit.id
        \/ \E i \in DOMAIN commits : k \in commits[i].keys /\ commit_overlay[k] = commits[i].id

\* The log overlay covers exactly the records that are not yet enacted.
LogOverlayExact ==
    /\ \A k \in Keys : overlays[k] # 0 =>
           /\ overlays[k] > enacted
           /\ overlays[k] \in DOMAIN log
           /\ k \in log[overlays[k]].keys
    /\ \A i \in DOMAIN log : i > enacted => \A k \in log[i].keys : overlays[k] >= i

\* The entries of the record being enacted that are done are in the tables.
EnactedInPart ==
    commit_worker.pc = "enacting" =>
        /\ enacted < Len(log)
        /\ commit_worker.left \subseteq NextRecord.keys
        /\ \A k \in NextRecord.keys \ commit_worker.left : tables[k] = NextRecord.commit

\* A commit that is logged but still in the commit overlay is what the levels below it hold.
LoggedIsNewest ==
    log_worker.pc = "logged" =>
        \A k \in log_worker.commit.keys : Logged(k) = log_worker.commit.id

\* What a call of get has found so far still holds, and its answer is the newest version.
ReadersCorrect ==
    \A r \in Readers :
        /\ readers[r].pc # "idle" => readers[r].key \in Keys
        /\ readers[r].pc \in {"log", "table"} => commit_overlay[readers[r].key] = 0
        /\ readers[r].pc = "table" => overlays[readers[r].key] = 0
        /\ readers[r].pc = "done" => readers[r].version = Lookup(readers[r].key)

IInv ==
    /\ TypeOK
    /\ QueueOrdered
    /\ CommitOverlayCovers
    /\ CommitOverlayTight
    /\ LogOverlayExact
    /\ EnactedInPart
    /\ LoggedIsNewest
    /\ ReadersCorrect

-----------------------------------------------------------------------------

LEMMA InitIInv == Init => IInv
<1> SUFFICES ASSUME Init PROVE IInv
  OBVIOUS
<1>1. commits \in Seq(Commit) /\ log \in Seq(Record) /\ enacted \in 0 .. Len(log)
  BY DEF Init
<1>2. bg_err \in BOOLEAN
  BY DEF Init
<1>3. /\ log_worker \in [pc : {"idle", "popped", "logged", "stopped"}, commit : Commit]
      /\ commit_worker \in [pc : {"idle", "enacting", "stopped"}, left : SUBSET Keys]
  BY DEF Init, NoCommit, Commit
<1>4. TypeOK
  BY <1>1, <1>2, <1>3 DEF Init, TypeOK, IdleReader
<1>5. QueueOrdered /\ CommitOverlayCovers /\ CommitOverlayTight
  BY DEF Init, QueueOrdered, CommitOverlayCovers, CommitOverlayTight, Busy, NoCommit
<1>6. LogOverlayExact /\ EnactedInPart /\ LoggedIsNewest /\ ReadersCorrect
  BY DEF Init, LogOverlayExact, EnactedInPart, LoggedIsNewest, ReadersCorrect, IdleReader
<1> QED
  BY <1>4, <1>5, <1>6 DEF IInv

(* What the type invariant says of the elements of the queue and of the log.                   *)
LEMMA TypeFacts ==
    ASSUME TypeOK
    PROVE  /\ DOMAIN commits = 1 .. Len(commits) /\ Len(commits) \in Nat
           /\ \A i \in DOMAIN commits : commits[i].id \in Nat /\ commits[i].keys \subseteq Keys
           /\ DOMAIN log = 1 .. Len(log) /\ Len(log) \in Nat
           /\ \A i \in DOMAIN log : log[i].commit \in Nat /\ log[i].keys \subseteq Keys
           /\ log_worker.commit.id \in Nat /\ log_worker.commit.keys \subseteq Keys
<1>1. /\ DOMAIN commits = 1 .. Len(commits) /\ Len(commits) \in Nat
      /\ DOMAIN log = 1 .. Len(log) /\ Len(log) \in Nat
      /\ \A i \in DOMAIN commits : commits[i] \in Commit
      /\ \A i \in DOMAIN log : log[i] \in Record
      /\ log_worker.commit \in Commit
  BY DEF TypeOK
<1> QED
  BY <1>1 DEF Commit, Record

(* commit_raw puts a commit with the highest id into the queue and the overlay; no reader is   *)
(* active, because it holds the write lock of the overlay.                                     *)
LEMMA CommitStep ==
    ASSUME IInv, NEW keys \in SUBSET Keys, commit_raw(keys) PROVE IInv'
<1> DEFINE id == record_id + 2
           new == [id |-> id, keys |-> keys]
<1> USE DEF IInv
<1>1. /\ new \in Commit /\ id \in Nat /\ record_id' = record_id + 1
      /\ commits' = Append(commits, new)
      /\ commit_overlay' = [k \in Keys |-> IF k \in keys THEN id ELSE commit_overlay[k]]
      /\ UNCHANGED <<bg_err, log_worker, log, overlays, enacted, last_enacted, commit_worker,
                     tables, next_reindex, readers>>
  BY DEF commit_raw, TypeOK, Commit, logVars, enactVars
<1>2. /\ commits' \in Seq(Commit) /\ Len(commits') = Len(commits) + 1
      /\ DOMAIN commits' = 1 .. Len(commits) + 1 /\ DOMAIN commits = 1 .. Len(commits)
      /\ \A i \in DOMAIN commits : commits'[i] = commits[i]
      /\ commits'[Len(commits) + 1] = new
      /\ Len(commits) \in Nat
  BY <1>1 DEF TypeOK
<1>3. /\ \A i \in DOMAIN commits : commits[i].id \in Nat /\ commits[i].keys \subseteq Keys
      /\ log_worker.commit.id \in Nat /\ log_worker.commit.keys \subseteq Keys
  BY TypeFacts
<1>4. record_id \in Nat /\ commit_overlay \in [Keys -> Nat]
  BY DEF TypeOK
<1>5. TypeOK'
  BY <1>1, <1>2 DEF TypeOK
<1>6. QueueOrdered'
  BY <1>1, <1>2, <1>3, <1>4 DEF QueueOrdered, Busy
<1>7. CommitOverlayCovers'
  BY <1>1, <1>2, <1>3, <1>4 DEF QueueOrdered, CommitOverlayCovers, Busy
<1>8. CommitOverlayTight'
  <2> SUFFICES ASSUME NEW k \in Keys, commit_overlay'[k] # 0
               PROVE  \/ log_worker.pc # "idle" /\ k \in log_worker.commit.keys
                             /\ commit_overlay'[k] = log_worker.commit.id
                      \/ \E i \in DOMAIN commits' :
                             k \in commits'[i].keys /\ commit_overlay'[k] = commits'[i].id
    BY <1>1 DEF CommitOverlayTight
  <2>1. CASE k \in keys
    BY <1>1, <1>2, <2>1
  <2>2. CASE k \notin keys
    BY <1>1, <1>2, <2>2 DEF CommitOverlayTight
  <2> QED
    BY <2>1, <2>2
<1>9. LogOverlayExact' /\ EnactedInPart' /\ LoggedIsNewest'
  BY <1>1 DEF LogOverlayExact, EnactedInPart, LoggedIsNewest, NextRecord, Logged
<1>10. ReadersCorrect'
  BY <1>1 DEF ReadersCorrect, commit_raw, ReadLocked, TypeOK
<1> QED
  BY <1>5, <1>6, <1>7, <1>8, <1>9, <1>10

(* Taking the oldest commit from the queue changes no overlay: the commit stays covered.       *)
LEMMA PopStep ==
    ASSUME IInv, pop_commit
    PROVE  IInv' /\ record_id' = record_id /\ \A k \in Keys : Lookup(k)' = Lookup(k)
<1> USE DEF IInv
<1>1. /\ log_worker.pc = "idle"
      /\ log_worker' = [pc |-> "popped", commit |-> Head(commits)]
      /\ commits' = Tail(commits)
      /\ UNCHANGED <<record_id, commit_overlay, bg_err, log, overlays, enacted, last_enacted,
                     commit_worker, tables, next_reindex, readers>>
  BY DEF pop_commit, logVars, enactVars
<1>2. /\ commits' \in Seq(Commit) /\ DOMAIN commits' = 1 .. Len(commits) - 1
      /\ DOMAIN commits = 1 .. Len(commits) /\ Len(commits) \in Nat \ {0}
      /\ \A i \in DOMAIN commits' : i + 1 \in DOMAIN commits /\ commits'[i] = commits[i + 1]
      /\ Head(commits) = commits[1] /\ Head(commits) \in Commit
  BY <1>1 DEF pop_commit, TypeOK
<1>3. /\ log_worker'.pc = "popped" /\ log_worker'.commit = commits[1]
      /\ log_worker.commit.id \in Nat
      /\ \A i \in DOMAIN commits : commits[i].id \in Nat /\ commits[i].keys \subseteq Keys
  BY <1>1, <1>2, TypeFacts
<1>4. TypeOK'
  BY <1>1, <1>2 DEF TypeOK
<1>5. QueueOrdered'
  <2>1. /\ record_id' = record_id /\ record_id \in Nat
        /\ \A i \in DOMAIN commits : commits[i].id <= record_id + 1 /\ commits[i].id > 0
    BY <1>1, <1>3 DEF QueueOrdered, TypeOK
  <2>2. 1 \in DOMAIN commits
    BY <1>2
  <2>3. \A i \in DOMAIN commits' : commits[1].id < commits'[i].id
    BY <1>2, <2>2 DEF QueueOrdered
  <2>4. \A i, j \in DOMAIN commits' : i < j => commits'[i].id < commits'[j].id
    <3> SUFFICES ASSUME NEW i \in DOMAIN commits', NEW j \in DOMAIN commits', i < j
                 PROVE  commits[i + 1].id < commits[j + 1].id
      BY <1>2
    <3>1. i + 1 \in DOMAIN commits /\ j + 1 \in DOMAIN commits /\ i + 1 < j + 1
      BY <1>2
    <3> QED
      BY <3>1 DEF QueueOrdered
  <2> QED
    BY <1>2, <1>3, <2>1, <2>2, <2>3, <2>4 DEF QueueOrdered, Busy
<1>6. CommitOverlayCovers'
  BY <1>1, <1>2, <1>3 DEF CommitOverlayCovers, Busy
<1>7. CommitOverlayTight'
  <2> SUFFICES ASSUME NEW k \in Keys, commit_overlay[k] # 0
               PROVE  \/ k \in commits[1].keys /\ commit_overlay[k] = commits[1].id
                      \/ \E i \in DOMAIN commits' :
                             k \in commits'[i].keys /\ commit_overlay[k] = commits'[i].id
    BY <1>1, <1>3 DEF CommitOverlayTight
  <2>1. PICK i \in DOMAIN commits : k \in commits[i].keys /\ commit_overlay[k] = commits[i].id
    BY <1>1 DEF CommitOverlayTight
  <2>2. CASE i = 1
    BY <2>1, <2>2
  <2>3. CASE i # 1
    <3>1. i - 1 \in DOMAIN commits' /\ commits'[i - 1] = commits[i]
      BY <1>2, <2>3
    <3> QED
      BY <2>1, <3>1
  <2> QED
    BY <2>2, <2>3
<1>8. LogOverlayExact' /\ EnactedInPart' /\ LoggedIsNewest'
  BY <1>1 DEF LogOverlayExact, EnactedInPart, LoggedIsNewest, NextRecord
<1>9. ReadersCorrect' /\ \A k \in Keys : Lookup(k)' = Lookup(k)
  BY <1>1 DEF ReadersCorrect, Lookup, Logged
<1> QED
  BY <1>1, <1>4, <1>5, <1>6, <1>7, <1>8, <1>9

(* A new record leaves the records before it alone, and the overlay covers it.                 *)
LEMMA AppendFacts ==
    ASSUME IInv, NEW record \in Record, AppendRecord(record)
    PROVE  /\ log' \in Seq(Record) /\ overlays' \in [Keys -> Nat]
           /\ Len(log') = Len(log) + 1 /\ DOMAIN log' = 1 .. Len(log) + 1
           /\ \A i \in DOMAIN log : i \in DOMAIN log' /\ log'[i] = log[i]
           /\ log'[Len(log) + 1] = record
           /\ \A k \in Keys : overlays'[k] = IF k \in record.keys THEN Len(log) + 1 ELSE overlays[k]
<1> USE DEF IInv
<1>1. Len(log) \in Nat /\ DOMAIN log = 1 .. Len(log)
  BY TypeFacts
<1>2. /\ log' = Append(log, record) /\ log \in Seq(Record)
      /\ overlays' = [k \in Keys |-> IF k \in record.keys THEN Len(log) + 1 ELSE overlays[k]]
  BY DEF AppendRecord, TypeOK
<1>3. /\ log' \in Seq(Record) /\ Len(log') = Len(log) + 1 /\ DOMAIN log' = 1 .. Len(log) + 1
      /\ \A i \in DOMAIN log : i \in DOMAIN log' /\ log'[i] = log[i]
      /\ log'[Len(log) + 1] = record
  BY <1>1, <1>2
<1>4. overlays' \in [Keys -> Nat]
  BY <1>1, <1>2 DEF TypeOK
<1> QED
  BY <1>2, <1>3, <1>4

LEMMA AppendExact ==
    ASSUME IInv, NEW record \in Record, AppendRecord(record),
           UNCHANGED <<enacted, commit_worker, tables>>
    PROVE  LogOverlayExact' /\ EnactedInPart'
<1> USE DEF IInv
<1>1. /\ Len(log) \in Nat /\ DOMAIN log = 1 .. Len(log) /\ enacted \in 0 .. Len(log)
      /\ \A i \in DOMAIN log : log[i].keys \subseteq Keys
      /\ overlays \in [Keys -> Nat] /\ record.keys \subseteq Keys
  BY TypeFacts DEF TypeOK, Record
<1>2. LogOverlayExact'
  <2>1. ASSUME NEW k \in Keys, overlays'[k] # 0
        PROVE  /\ overlays'[k] > enacted /\ overlays'[k] \in DOMAIN log'
               /\ k \in log'[overlays'[k]].keys
    BY <1>1, <2>1, AppendFacts DEF LogOverlayExact
  <2>2. ASSUME NEW i \in DOMAIN log', i > enacted, NEW k \in log'[i].keys
        PROVE  overlays'[k] >= i
    <3>1. CASE i = Len(log) + 1
      BY <1>1, <3>1, AppendFacts
    <3>2. CASE i # Len(log) + 1
      <4>1. i \in DOMAIN log /\ log'[i] = log[i] /\ k \in Keys
        BY <1>1, <2>2, <3>2, AppendFacts
      <4>2. overlays[k] >= i
        BY <2>2, <4>1 DEF LogOverlayExact
      <4> QED
        BY <1>1, <4>1, <4>2, AppendFacts
    <3> QED
      BY <3>1, <3>2
  <2> QED
    BY <2>1, <2>2 DEF LogOverlayExact
<1>3. EnactedInPart'
  <2>1. CASE commit_worker.pc = "enacting"
    <3>1. enacted < Len(log) /\ enacted + 1 \in DOMAIN log
      BY <1>1, <2>1 DEF EnactedInPart
    <3>2. NextRecord' = NextRecord /\ enacted' < Len(log')
      BY <1>1, <3>1, AppendFacts DEF NextRecord
    <3> QED
      BY <2>1, <3>2 DEF EnactedInPart
  <2>2. CASE commit_worker.pc # "enacting"
    BY <2>2 DEF EnactedInPart
  <2> QED
    BY <2>1, <2>2
<1> QED
  BY <1>2, <1>3

(* Publishing a record does not change a lookup: the commit overlay still covers its keys.     *)
LEMMA EndRecordStep ==
    ASSUME IInv, end_record
    PROVE  IInv' /\ record_id' = record_id /\ \A k \in Keys : Lookup(k)' = Lookup(k)
<1> DEFINE record == [commit |-> log_worker.commit.id, keys |-> log_worker.commit.keys,
                      drop |-> FALSE]
<1> USE DEF IInv
<1>1. /\ log_worker.pc = "popped" /\ AppendRecord(record)
      /\ log_worker' = [log_worker EXCEPT !.pc = "logged"]
      /\ UNCHANGED <<record_id, commits, commit_overlay, bg_err, enacted, last_enacted,
                     commit_worker, tables, next_reindex, readers>>
  BY DEF end_record, queueVars, enactVars
<1>2. record \in Record
  BY TypeFacts DEF Record
<1>3. /\ log_worker'.pc = "logged" /\ log_worker'.commit = log_worker.commit
      /\ log_worker' \in [pc : {"idle", "popped", "logged", "stopped"}, commit : Commit]
  BY <1>1 DEF TypeOK
<1> HIDE DEF record
<1>4. TypeOK'
  <2>1. log' \in Seq(Record) /\ overlays' \in [Keys -> Nat] /\ Len(log') = Len(log) + 1
    BY <1>1, <1>2, AppendFacts
  <2>2. enacted' \in 0 .. Len(log')
    BY <1>1, <2>1, TypeFacts DEF TypeOK
  <2> QED
    BY <1>1, <1>3, <2>1, <2>2 DEF TypeOK
<1>5. QueueOrdered' /\ CommitOverlayCovers' /\ CommitOverlayTight'
  BY <1>1, <1>3 DEF QueueOrdered, CommitOverlayCovers, CommitOverlayTight, Busy
<1>6. LogOverlayExact' /\ EnactedInPart'
  BY <1>1, <1>2, AppendExact
<1>7. \A k \in log_worker.commit.keys : k \in Keys /\ commit_overlay[k] # 0
  <2>1. /\ log_worker.commit.id \in Nat /\ log_worker.commit.id > 0
        /\ log_worker.commit.keys \subseteq Keys
    BY <1>1, TypeFacts DEF QueueOrdered, Busy
  <2>2. \A k \in log_worker.commit.keys : commit_overlay[k] >= log_worker.commit.id
    BY <1>1 DEF CommitOverlayCovers, Busy
  <2> QED
    BY <2>1, <2>2
<1>8. record.keys = log_worker.commit.keys /\ record.commit = log_worker.commit.id
  BY DEF record
<1>9. LoggedIsNewest'
  <2> SUFFICES ASSUME NEW k \in log_worker.commit.keys
               PROVE  Logged(k)' = log_worker.commit.id
    BY <1>3 DEF LoggedIsNewest
  <2>1. overlays'[k] = Len(log) + 1 /\ log'[Len(log) + 1] = record /\ Len(log) \in Nat
    BY <1>1, <1>2, <1>7, <1>8, AppendFacts, TypeFacts
  <2> QED
    BY <1>8, <2>1 DEF Logged
<1>10. \A k \in Keys : Lookup(k)' = Lookup(k)
  <2> SUFFICES ASSUME NEW k \in Keys PROVE Lookup(k)' = Lookup(k)
    OBVIOUS
  <2>1. CASE k \in log_worker.commit.keys
    BY <1>1, <1>7, <2>1 DEF Lookup
  <2>2. CASE k \notin log_worker.commit.keys
    <3>1. overlays'[k] = overlays[k]
      BY <1>1, <1>2, <1>8, <2>2, AppendFacts
    <3>2. overlays[k] # 0 => log'[overlays[k]] = log[overlays[k]]
      BY <1>1, <1>2, AppendFacts DEF LogOverlayExact
    <3> QED
      BY <1>1, <3>1, <3>2 DEF Lookup, Logged
  <2> QED
    BY <2>1, <2>2
<1>11. ReadersCorrect'
  <2> SUFFICES ASSUME NEW r \in Readers
               PROVE  /\ readers[r].pc # "idle" => readers[r].key \in Keys
                      /\ readers[r].pc \in {"log", "table"} => commit_overlay[readers[r].key] = 0
                      /\ readers[r].pc = "table" => overlays'[readers[r].key] = 0
                      /\ readers[r].pc = "done" => readers[r].version = Lookup(readers[r].key)'
    BY <1>1 DEF ReadersCorrect
  <2>1. /\ readers[r].pc # "idle" => readers[r].key \in Keys
        /\ readers[r].pc \in {"log", "table"} => commit_overlay[readers[r].key] = 0
    BY DEF ReadersCorrect
  <2>2. ASSUME readers[r].pc = "table" PROVE overlays'[readers[r].key] = 0
    <3>1. /\ readers[r].key \in Keys /\ commit_overlay[readers[r].key] = 0
          /\ overlays[readers[r].key] = 0
      BY <2>2 DEF ReadersCorrect
    <3> QED
      BY <1>1, <1>2, <1>7, <1>8, <3>1, AppendFacts
  <2>3. ASSUME readers[r].pc = "done" PROVE readers[r].version = Lookup(readers[r].key)'
    BY <1>1, <1>10, <2>1, <2>3 DEF ReadersCorrect
  <2> QED
    BY <2>1, <2>2, <2>3
<1> QED
  BY <1>1, <1>4, <1>5, <1>6, <1>9, <1>10, <1>11

(* Removing a logged commit from the commit overlay uncovers the same version in the log       *)
(* overlay or in the tables; an entry of a later commit stays.                                 *)
LEMMA CleanStep ==
    ASSUME IInv, clean_overlay
    PROVE  IInv' /\ record_id' = record_id /\ \A k \in Keys : Lookup(k)' = Lookup(k)
<1> DEFINE cur == log_worker.commit
<1> USE DEF IInv
<1>1. /\ log_worker.pc = "logged" /\ ~ReadLocked
      /\ commit_overlay' = [k \in Keys |-> IF k \in cur.keys /\ commit_overlay[k] = cur.id
                                           THEN 0 ELSE commit_overlay[k]]
      /\ next_reindex' \in {next_reindex, Len(log)}
      /\ log_worker' = [pc |-> "idle", commit |-> NoCommit]
      /\ UNCHANGED <<record_id, commits, bg_err, log, overlays, enacted, last_enacted,
                     commit_worker, tables, readers>>
  BY DEF clean_overlay, logVars, enactVars
<1>2. /\ log_worker' \in [pc : {"idle", "popped", "logged", "stopped"}, commit : Commit]
      /\ log_worker'.pc = "idle" /\ log_worker'.commit.id = 0 /\ log_worker'.commit.keys = {}
  BY <1>1 DEF NoCommit, Commit
<1>3. next_reindex' \in Nat /\ commit_overlay' \in [Keys -> Nat]
  BY <1>1, TypeFacts DEF TypeOK
<1>4. TypeOK'
  BY <1>1, <1>2, <1>3 DEF TypeOK
<1>5. /\ \A i \in DOMAIN commits : /\ commits[i].id \in Nat /\ commits[i].id > cur.id
                                    /\ commits[i].keys \subseteq Keys
      /\ cur.id \in Nat /\ record_id \in Nat
  BY TypeFacts DEF QueueOrdered, TypeOK
<1>6. QueueOrdered'
  BY <1>1, <1>2, <1>5 DEF QueueOrdered, Busy
<1>7. CommitOverlayCovers'
  BY <1>1, <1>2, <1>5 DEF CommitOverlayCovers, Busy
<1>8. CommitOverlayTight'
  BY <1>1, <1>2, <1>5 DEF CommitOverlayTight
<1>9. LogOverlayExact' /\ EnactedInPart' /\ LoggedIsNewest'
  BY <1>1, <1>2 DEF LogOverlayExact, EnactedInPart, LoggedIsNewest, NextRecord
<1>10. ReadersCorrect'
  BY <1>1 DEF ReadersCorrect, ReadLocked
<1>11. \A k \in Keys : Lookup(k)' = Lookup(k)
  <2> SUFFICES ASSUME NEW k \in Keys PROVE Lookup(k)' = Lookup(k)
    OBVIOUS
  <2>1. Logged(k)' = Logged(k)
    BY <1>1 DEF Logged
  <2>2. CASE k \in cur.keys /\ commit_overlay[k] = cur.id
    <3>1. commit_overlay[k] # 0 /\ commit_overlay'[k] = 0
      BY <1>1, <2>2 DEF QueueOrdered, Busy, TypeOK
    <3>2. Logged(k) = cur.id
      BY <1>1, <2>2 DEF LoggedIsNewest
    <3> QED
      BY <2>1, <2>2, <3>1, <3>2 DEF Lookup
  <2>3. CASE ~(k \in cur.keys /\ commit_overlay[k] = cur.id)
    BY <1>1, <2>1, <2>3 DEF Lookup
  <2> QED
    BY <2>2, <2>3
<1> QED
  BY <1>1, <1>4, <1>6, <1>7, <1>8, <1>9, <1>10, <1>11

(* A reindex record has no entry that a lookup of a key reads.                                 *)
LEMMA ReindexStep ==
    ASSUME IInv, process_reindex
    PROVE  IInv' /\ record_id' = record_id /\ \A k \in Keys : Lookup(k)' = Lookup(k)
<1> USE DEF IInv
<1>1. /\ log_worker.pc = "idle" /\ next_reindex' \in {next_reindex, Len(log) + 1, 0}
      /\ UNCHANGED <<record_id, commits, commit_overlay, bg_err, log_worker, enacted,
                     last_enacted, commit_worker, tables, readers>>
  BY DEF process_reindex, queueVars, enactVars
<1>2. next_reindex' \in Nat
  BY <1>1, TypeFacts DEF TypeOK
<1>3. QueueOrdered' /\ CommitOverlayCovers' /\ CommitOverlayTight' /\ LoggedIsNewest'
  BY <1>1 DEF QueueOrdered, CommitOverlayCovers, CommitOverlayTight, LoggedIsNewest, Busy
<1>4. CASE UNCHANGED logVars
  <2>1. UNCHANGED <<log, overlays>>
    BY <1>4 DEF logVars
  <2>2. TypeOK'
    BY <1>1, <1>2, <2>1 DEF TypeOK
  <2>3. LogOverlayExact' /\ EnactedInPart'
    BY <1>1, <2>1 DEF LogOverlayExact, EnactedInPart, NextRecord
  <2>4. ReadersCorrect' /\ \A k \in Keys : Lookup(k)' = Lookup(k)
    BY <1>1, <2>1 DEF ReadersCorrect, Lookup, Logged
  <2> QED
    BY <1>1, <1>3, <2>2, <2>3, <2>4
<1>5. ASSUME NEW drop \in BOOLEAN, AppendRecord([commit |-> 0, keys |-> {}, drop |-> drop])
      PROVE  IInv' /\ \A k \in Keys : Lookup(k)' = Lookup(k)
  <2> DEFINE record == [commit |-> 0, keys |-> {}, drop |-> drop]
  <2>1. record \in Record /\ record.keys = {} /\ AppendRecord(record)
    BY <1>5 DEF Record
  <2> HIDE DEF record
  <2>2. TypeOK'
    <3>1. log' \in Seq(Record) /\ overlays' \in [Keys -> Nat] /\ Len(log') = Len(log) + 1
      BY <2>1, AppendFacts
    <3>2. enacted' \in 0 .. Len(log')
      BY <1>1, <3>1, TypeFacts DEF TypeOK
    <3> QED
      BY <1>1, <1>2, <3>1, <3>2 DEF TypeOK
  <2>3. LogOverlayExact' /\ EnactedInPart'
    BY <1>1, <2>1, AppendExact
  <2>4. \A k \in Keys : /\ overlays'[k] = overlays[k]
                        /\ overlays[k] # 0 => log'[overlays[k]] = log[overlays[k]]
    BY <2>1, AppendFacts DEF LogOverlayExact
  <2>5. \A k \in Keys : Lookup(k)' = Lookup(k)
    BY <1>1, <2>4 DEF Lookup, Logged
  <2>6. ReadersCorrect'
    BY <1>1, <2>4, <2>5 DEF ReadersCorrect
  <2> QED
    BY <1>3, <2>2, <2>3, <2>5, <2>6
<1> QED
  BY <1>1, <1>4, <1>5 DEF process_reindex

(* A worker that stops on an error leaves its commit or its record where it is.                *)
LEMMA ErrorStep ==
    ASSUME IInv, log_worker_error \/ commit_worker_error
    PROVE  IInv' /\ record_id' = record_id /\ \A k \in Keys : Lookup(k)' = Lookup(k)
<1> USE DEF IInv
<1>1. /\ bg_err' = TRUE
      /\ \/ log_worker' = [log_worker EXCEPT !.pc = "stopped"] /\ UNCHANGED commit_worker
         \/ commit_worker' = [commit_worker EXCEPT !.pc = "stopped"] /\ UNCHANGED log_worker
      /\ UNCHANGED <<record_id, commits, commit_overlay, log, overlays, enacted, last_enacted,
                     tables, next_reindex, readers>>
  BY DEF log_worker_error, commit_worker_error, queueVars, logVars, enactVars
<1>2. bg_err' \in BOOLEAN
  BY <1>1
<1>3. /\ log_worker' \in [pc : {"idle", "popped", "logged", "stopped"}, commit : Commit]
      /\ commit_worker' \in [pc : {"idle", "enacting", "stopped"}, left : SUBSET Keys]
      /\ log_worker'.commit = log_worker.commit
      /\ log_worker'.pc \in {log_worker.pc, "stopped"}
      /\ commit_worker'.left = commit_worker.left
      /\ commit_worker'.pc \in {commit_worker.pc, "stopped"}
  BY <1>1 DEF TypeOK
<1>4. TypeOK'
  BY <1>1, <1>2, <1>3 DEF TypeOK
<1>5. QueueOrdered' /\ CommitOverlayCovers'
  BY <1>1, <1>3 DEF QueueOrdered, CommitOverlayCovers, Busy
<1>6. CommitOverlayTight' /\ LoggedIsNewest'
  BY <1>1, <1>3 DEF CommitOverlayTight, LoggedIsNewest, Logged
<1>7. LogOverlayExact' /\ EnactedInPart'
  BY <1>1, <1>3 DEF LogOverlayExact, EnactedInPart, NextRecord
<1>8. ReadersCorrect' /\ \A k \in Keys : Lookup(k)' = Lookup(k)
  BY <1>1 DEF ReadersCorrect, Lookup, Logged
<1> QED
  BY <1>1, <1>4, <1>5, <1>6, <1>7, <1>8

LEMMA ReadNextStep ==
    ASSUME IInv, read_next
    PROVE  IInv' /\ record_id' = record_id /\ \A k \in Keys : Lookup(k)' = Lookup(k)
<1> USE DEF IInv
<1>1. /\ enacted < Len(log)
      /\ commit_worker' = [pc |-> "enacting", left |-> NextRecord.keys]
      /\ UNCHANGED <<record_id, commits, commit_overlay, bg_err, log_worker, log, overlays,
                     enacted, last_enacted, next_reindex, tables, readers>>
  BY DEF read_next, queueVars, logVars
<1>2. NextRecord.keys \subseteq Keys
  BY <1>1, TypeFacts DEF TypeOK, NextRecord
<1>3. TypeOK'
  BY <1>1, <1>2 DEF TypeOK
<1>4. QueueOrdered' /\ CommitOverlayCovers' /\ CommitOverlayTight'
  BY <1>1 DEF QueueOrdered, CommitOverlayCovers, CommitOverlayTight, Busy
<1>5. LogOverlayExact' /\ EnactedInPart' /\ LoggedIsNewest'
  BY <1>1 DEF LogOverlayExact, EnactedInPart, LoggedIsNewest, NextRecord, Logged
<1>6. ReadersCorrect' /\ \A k \in Keys : Lookup(k)' = Lookup(k)
  BY <1>1 DEF ReadersCorrect, Lookup, Logged
<1> QED
  BY <1>1, <1>3, <1>4, <1>5, <1>6

(* Writing an entry to its table does not change a lookup: the log overlay covers the entry.   *)
LEMMA EnactStep ==
    ASSUME IInv, NEW e \in Keys, enact_plan(e)
    PROVE  IInv' /\ record_id' = record_id /\ \A k \in Keys : Lookup(k)' = Lookup(k)
<1> USE DEF IInv
<1>1. /\ commit_worker.pc = "enacting" /\ e \in commit_worker.left
      /\ tables' = [tables EXCEPT ![e] = NextRecord.commit]
      /\ commit_worker' = [commit_worker EXCEPT !.left = @ \ {e}]
      /\ UNCHANGED <<record_id, commits, commit_overlay, bg_err, log_worker, log, overlays,
                     enacted, last_enacted, next_reindex, readers>>
  BY DEF enact_plan, queueVars, logVars
<1>2. /\ enacted < Len(log) /\ enacted + 1 \in DOMAIN log /\ e \in NextRecord.keys
      /\ NextRecord.commit \in Nat /\ NextRecord.keys \subseteq Keys
  BY <1>1, TypeFacts DEF EnactedInPart, NextRecord, TypeOK
<1>3. overlays[e] # 0
  <2>1. enacted \in Nat /\ enacted + 1 > enacted
    BY TypeFacts DEF TypeOK
  <2>2. overlays[e] >= enacted + 1
    BY <1>2, <2>1 DEF LogOverlayExact, NextRecord
  <2> QED
    BY <2>1, <2>2
<1>4. \A k \in Keys : Logged(k)' = Logged(k)
  BY <1>1, <1>3 DEF Logged, TypeOK
<1>5. TypeOK'
  BY <1>1, <1>2 DEF TypeOK
<1>6. QueueOrdered' /\ CommitOverlayCovers' /\ CommitOverlayTight' /\ LogOverlayExact'
  BY <1>1 DEF QueueOrdered, CommitOverlayCovers, CommitOverlayTight, Busy, LogOverlayExact
<1>7. EnactedInPart'
  <2>1. /\ commit_worker'.pc = "enacting" /\ commit_worker'.left = commit_worker.left \ {e}
        /\ NextRecord' = NextRecord
    BY <1>1 DEF NextRecord, TypeOK
  <2>2. \A k \in NextRecord.keys \ commit_worker'.left : tables'[k] = NextRecord.commit
    BY <1>1, <1>2, <2>1 DEF EnactedInPart, TypeOK
  <2> QED
    BY <1>1, <1>2, <2>1, <2>2 DEF EnactedInPart
<1>8. LoggedIsNewest'
  BY <1>1, <1>4, TypeFacts DEF LoggedIsNewest
<1>9. \A k \in Keys : Lookup(k)' = Lookup(k)
  BY <1>1, <1>4 DEF Lookup
<1>10. ReadersCorrect'
  BY <1>1, <1>9 DEF ReadersCorrect
<1> QED
  BY <1>1, <1>5, <1>6, <1>7, <1>8, <1>9, <1>10

(* Taking an enacted record out of the log overlay uncovers the same version in the tables.    *)
LEMMA EndReadStep ==
    ASSUME IInv, end_read
    PROVE  IInv' /\ record_id' = record_id /\ \A k \in Keys : Lookup(k)' = Lookup(k)
<1> USE DEF IInv
<1>1. /\ commit_worker.pc = "enacting" /\ commit_worker.left = {}
      /\ enacted' = enacted + 1 /\ last_enacted' = enacted + 1
      /\ overlays' = [k \in Keys |-> IF k \in NextRecord.keys /\ overlays[k] = enacted + 1
                                     THEN 0 ELSE overlays[k]]
      /\ next_reindex' \in {enacted + 1, next_reindex}
      /\ commit_worker' = [commit_worker EXCEPT !.pc = "idle"]
      /\ UNCHANGED <<record_id, commits, commit_overlay, bg_err, log_worker, log, tables,
                     readers>>
  BY DEF end_read, queueVars
<1>2. /\ enacted < Len(log) /\ Len(log) \in Nat /\ enacted \in Nat
      /\ \A k \in NextRecord.keys : tables[k] = NextRecord.commit
  BY <1>1, TypeFacts DEF EnactedInPart, TypeOK
<1>3. overlays \in [Keys -> Nat] /\ overlays' \in [Keys -> Nat] /\ next_reindex' \in Nat
  BY <1>1, <1>2 DEF TypeOK
<1>4. TypeOK'
  <2>1. enacted' \in 0 .. Len(log)' /\ last_enacted' \in Nat
    BY <1>1, <1>2
  <2>2. commit_worker' \in [pc : {"idle", "enacting", "stopped"}, left : SUBSET Keys]
    BY <1>1 DEF TypeOK
  <2> QED
    BY <1>1, <1>3, <2>1, <2>2 DEF TypeOK
<1>5. QueueOrdered' /\ CommitOverlayCovers' /\ CommitOverlayTight'
  BY <1>1 DEF QueueOrdered, CommitOverlayCovers, CommitOverlayTight, Busy
<1>6. LogOverlayExact'
  <2>1. ASSUME NEW k \in Keys, overlays'[k] # 0
        PROVE  /\ overlays'[k] > enacted' /\ overlays'[k] \in DOMAIN log'
               /\ k \in log'[overlays'[k]].keys
    <3>1. overlays'[k] = overlays[k] /\ overlays[k] # 0
      BY <1>1, <2>1
    <3>2. overlays[k] > enacted /\ overlays[k] \in DOMAIN log /\ k \in log[overlays[k]].keys
      BY <3>1 DEF LogOverlayExact
    <3>3. overlays[k] # enacted + 1
      BY <1>1, <2>1, <3>1, <3>2 DEF NextRecord
    <3> QED
      BY <1>1, <1>2, <1>3, <3>1, <3>2, <3>3
  <2>2. ASSUME NEW i \in DOMAIN log', i > enacted', NEW k \in log'[i].keys
        PROVE  overlays'[k] >= i
    <3>1. i \in DOMAIN log /\ i > enacted + 1 /\ k \in log[i].keys /\ k \in Keys /\ i \in Nat
      BY <1>1, <1>2, <2>2, TypeFacts
    <3>2. overlays[k] >= i
      BY <1>2, <3>1 DEF LogOverlayExact
    <3> QED
      BY <1>1, <1>2, <1>3, <3>1, <3>2
  <2> QED
    BY <2>1, <2>2 DEF LogOverlayExact
<1>7. EnactedInPart'
  BY <1>1 DEF EnactedInPart, TypeOK
<1>8. \A k \in Keys : Logged(k)' = Logged(k)
  <2> SUFFICES ASSUME NEW k \in Keys PROVE Logged(k)' = Logged(k)
    OBVIOUS
  <2>1. CASE k \in NextRecord.keys /\ overlays[k] = enacted + 1
    BY <1>1, <1>2, <2>1 DEF Logged, NextRecord
  <2>2. CASE ~(k \in NextRecord.keys /\ overlays[k] = enacted + 1)
    BY <1>1, <2>2 DEF Logged
  <2> QED
    BY <2>1, <2>2
<1>9. LoggedIsNewest'
  BY <1>1, <1>8, TypeFacts DEF LoggedIsNewest
<1>10. \A k \in Keys : Lookup(k)' = Lookup(k)
  BY <1>1, <1>8 DEF Lookup
<1>11. ReadersCorrect'
  <2>1. \A k \in Keys : overlays[k] = 0 => overlays'[k] = 0
    BY <1>1
  <2> QED
    BY <1>1, <1>10, <2>1 DEF ReadersCorrect
<1> QED
  BY <1>1, <1>4, <1>5, <1>6, <1>7, <1>9, <1>10, <1>11

\* What every step of a reader leaves alone.
LEMMA ReaderFrame ==
    ASSUME NEW r \in Readers, Reader(r)
    PROVE  UNCHANGED <<record_id, commits, commit_overlay, bg_err, log_worker, log, overlays,
                       enacted, last_enacted, next_reindex, commit_worker, tables>>
  BY DEF Reader, get, get_log, get_table, get_return, SetReader, queueVars, logVars, enactVars

LEMMA ReaderStep ==
    ASSUME IInv, NEW r \in Readers, Reader(r)
    PROVE  IInv' /\ record_id' = record_id /\ \A k \in Keys : Lookup(k)' = Lookup(k)
<1> USE DEF IInv
<1>1. UNCHANGED <<record_id, commits, commit_overlay, bg_err, log_worker, log, overlays,
                  enacted, last_enacted, next_reindex, commit_worker, tables>>
  BY ReaderFrame
<1>2. \A k \in Keys : Lookup(k)' = Lookup(k) /\ Lookup(k) \in Nat
  <2>1. \A k \in Keys : Lookup(k)' = Lookup(k)
    BY <1>1 DEF Lookup, Logged
  <2>2. \A k \in Keys : overlays[k] # 0 => log[overlays[k]].commit \in Nat
    BY TypeFacts DEF LogOverlayExact
  <2> QED
    BY <2>1, <2>2 DEF Lookup, Logged, TypeOK
<1>3. PICK k \in Keys \cup {"none"}, pc \in {"idle", "log", "table", "done"}, v \in Nat :
          /\ readers' = [readers EXCEPT ![r] = [pc |-> pc, key |-> k, version |-> v]]
          /\ pc # "idle" => k \in Keys
          /\ pc \in {"log", "table"} => commit_overlay[k] = 0
          /\ pc = "table" => overlays[k] = 0
          /\ pc = "done" => v = Lookup(k)
  <2>1. CASE \E q \in Keys : get(r, q)
    <3>1. PICK q \in Keys : get(r, q)
      BY <2>1
    <3> QED
      BY <1>2, <3>1 DEF get, SetReader, Lookup
  <2>2. CASE get_log(r)
    <3>1. /\ readers[r].key \in Keys /\ commit_overlay[readers[r].key] = 0
          /\ Lookup(readers[r].key) \in Nat
      BY <1>2, <2>2 DEF get_log, ReadersCorrect
    <3>2. \/ /\ SetReader(r, "done", readers[r].key, log[overlays[readers[r].key]].commit)
             /\ log[overlays[readers[r].key]].commit = Lookup(readers[r].key)
          \/ overlays[readers[r].key] = 0 /\ SetReader(r, "table", readers[r].key, 0)
      BY <2>2, <3>1 DEF get_log, Lookup, Logged
    <3> QED
      BY <3>1, <3>2 DEF SetReader
  <2>3. CASE get_table(r)
    <3>1. /\ readers[r].key \in Keys /\ commit_overlay[readers[r].key] = 0
          /\ overlays[readers[r].key] = 0 /\ Lookup(readers[r].key) \in Nat
      BY <1>2, <2>3 DEF get_table, ReadersCorrect
    <3>2. tables[readers[r].key] = Lookup(readers[r].key)
      BY <3>1 DEF Lookup, Logged
    <3>3. SetReader(r, "done", readers[r].key, Lookup(readers[r].key))
      BY <2>3, <3>2 DEF get_table
    <3> QED
      BY <3>1, <3>3 DEF SetReader
  <2>4. CASE get_return(r)
    BY <2>4 DEF get_return, IdleReader
  <2> QED
    BY <2>1, <2>2, <2>3, <2>4 DEF Reader
<1>4. TypeOK'
  <2>1. readers' \in [Readers -> [pc : {"idle", "log", "table", "done"},
                                  key : Keys \cup {"none"}, version : Nat]]
    BY <1>3 DEF TypeOK
  <2> QED
    BY <1>1, <2>1 DEF TypeOK
<1>5. QueueOrdered' /\ CommitOverlayCovers' /\ CommitOverlayTight'
  BY <1>1 DEF QueueOrdered, CommitOverlayCovers, CommitOverlayTight, Busy
<1>6. LogOverlayExact' /\ EnactedInPart' /\ LoggedIsNewest'
  BY <1>1 DEF LogOverlayExact, EnactedInPart, LoggedIsNewest, NextRecord, Logged
<1>7. ReadersCorrect'
  <2> SUFFICES ASSUME NEW q \in Readers
               PROVE  /\ readers'[q].pc # "idle" => readers'[q].key \in Keys
                      /\ readers'[q].pc \in {"log", "table"} =>
                             commit_overlay[readers'[q].key] = 0
                      /\ readers'[q].pc = "table" => overlays[readers'[q].key] = 0
                      /\ readers'[q].pc = "done" =>
                             readers'[q].version = Lookup(readers[q].key)'
    BY <1>1 DEF ReadersCorrect
  <2>1. CASE q = r
    <3>1. readers'[q] = [pc |-> pc, key |-> k, version |-> v]
      BY <1>3, <2>1 DEF TypeOK
    <3>2. readers'[q].pc = pc /\ readers'[q].key = k /\ readers'[q].version = v
      BY <3>1
    <3>3. pc = "done" => v = Lookup(readers[q].key)'
      BY <1>1, <1>3, <3>2 DEF Lookup, Logged
    <3> QED
      BY <1>3, <3>2, <3>3
  <2>2. CASE q # r
    <3>1. readers'[q] = readers[q]
      BY <1>3, <2>2 DEF TypeOK
    <3> QED
      BY <1>1, <1>2, <3>1 DEF Lookup, Logged, ReadersCorrect
  <2> QED
    BY <2>1, <2>2
<1> QED
  BY <1>1, <1>2, <1>4, <1>5, <1>6, <1>7

-----------------------------------------------------------------------------
(* Steps of the whole system.                                                                  *)

\* Every step but a commit leaves the result of every lookup as it is.
LEMMA QuietStep ==
    ASSUME IInv,
           LogWorker \/ log_worker_error \/ CommitWorker \/ commit_worker_error
               \/ \E r \in Readers : Reader(r)
    PROVE  IInv' /\ record_id' = record_id /\ \A k \in Keys : Lookup(k)' = Lookup(k)
<1>1. CASE LogWorker
  BY <1>1, PopStep, EndRecordStep, CleanStep, ReindexStep DEF LogWorker
<1>2. CASE CommitWorker
  BY <1>2, ReadNextStep, EnactStep, EndReadStep DEF CommitWorker
<1>3. CASE log_worker_error \/ commit_worker_error
  BY <1>3, ErrorStep
<1>4. CASE \E r \in Readers : Reader(r)
  BY <1>4, ReaderStep
<1> QED
  BY <1>1, <1>2, <1>3, <1>4

LEMMA StutterStep ==
    ASSUME IInv, UNCHANGED vars
    PROVE  IInv' /\ record_id' = record_id /\ \A k \in Keys : Lookup(k)' = Lookup(k)
<1> USE DEF IInv, vars
<1>1. TypeOK'
  BY DEF TypeOK
<1>2. QueueOrdered' /\ CommitOverlayCovers' /\ CommitOverlayTight'
  BY DEF QueueOrdered, CommitOverlayCovers, CommitOverlayTight, Busy
<1>3. LogOverlayExact' /\ EnactedInPart' /\ LoggedIsNewest'
  BY DEF LogOverlayExact, EnactedInPart, LoggedIsNewest, NextRecord, Logged
<1>4. ReadersCorrect' /\ \A k \in Keys : Lookup(k)' = Lookup(k)
  BY DEF ReadersCorrect, Lookup, Logged
<1> QED
  BY <1>1, <1>2, <1>3, <1>4

(* The invariant that carries all the others: in every reachable state the two overlays cover    *)
(* exactly the commits and records that are still on their way to the tables.                   *)
THEOREM Inductive == Spec => []IInv
<1>1. Init => IInv
  BY InitIInv
<1>2. IInv /\ [Next]_vars => IInv'
  BY CommitStep, QuietStep, StutterStep DEF Next
<1> QED
  BY <1>1, <1>2, PTL DEF Spec

(* Type correctness of the pipeline, for every set of keys and readers; the commit worker never  *)
(* counts more records as enacted than the log worker has ended.                                *)
THEOREM TypeCorrect == Spec => []TypeOK
<1>1. IInv => TypeOK
  BY DEF IInv
<1> QED
  BY <1>1, Inductive, PTL

(* DbInner::get answers with the newest committed version of its key, whatever the workers do    *)
(* between its three lookups.                                                                   *)
THEOREM GetIsNewest == Spec => []GetReturnsNewest
<1>1. IInv => GetReturnsNewest
  BY DEF IInv, ReadersCorrect, GetReturnsNewest
<1> QED
  BY <1>1, Inductive, PTL

(* clean_overlay and end_read leave no entry behind: when the queue and the log are drained, both *)
(* overlays are empty.                                                                          *)
THEOREM OverlaysAreDrained == Spec => []OverlaysDrain
<1>1. IInv => OverlaysDrain
  <2> SUFFICES ASSUME IInv, commits = <<>>, log_worker.pc = "idle", enacted = Len(log),
                      NEW k \in Keys
               PROVE  commit_overlay[k] = 0 /\ overlays[k] = 0
    BY DEF OverlaysDrain
  <2>1. commit_overlay[k] = 0
    BY DEF IInv, CommitOverlayTight
  <2>2. overlays[k] = 0
    BY TypeFacts DEF IInv, LogOverlayExact
  <2> QED
    BY <2>1, <2>2
<1> QED
  BY <1>1, Inductive, PTL

-----------------------------------------------------------------------------
(* The pipeline implements the atomic store.                                                    *)

\* commit_raw is the commit of the store: all of its keys change at once.
LEMMA CommitRefines ==
    ASSUME IInv, NEW keys \in SUBSET Keys \ {{}}, commit_raw(keys)
    PROVE  Store!Commit(keys)
<1>1. /\ record_id < MaxCommits /\ record_id' = record_id + 1 /\ record_id \in Nat
      /\ commit_overlay' = [k \in Keys |-> IF k \in keys THEN record_id + 2
                                           ELSE commit_overlay[k]]
      /\ UNCHANGED <<log, overlays, tables, readers>>
  BY DEF commit_raw, logVars, enactVars, IInv, TypeOK
<1>2. (record_id + 1)' = record_id + 1 + 1 /\ record_id + 1 <= MaxCommits
  BY <1>1, BoundsAssumption
<1>3. [k \in Keys |-> Lookup(k)]' = [k \in Keys |-> IF k \in keys THEN record_id' + 1
                                                   ELSE [q \in Keys |-> Lookup(q)][k]]
  BY <1>1 DEF Lookup, Logged
<1> QED
  BY <1>1, <1>2, <1>3 DEF Store!Commit

\* A step of a reader is a get, a return or a stuttering step of the store.
LEMMA ReaderRefines ==
    ASSUME IInv, NEW r \in Readers, Reader(r)
    PROVE  Store!Return(r) \/ (\E k \in Keys : Store!Get(r, k)) \/ UNCHANGED Store!vars
<1> DEFINE Answer(q) == IF readers[q].pc = "done"
                        THEN {[key |-> readers[q].key, version |-> readers[q].version]} ELSE {}
           answer == [q \in Readers |-> Answer(q)]
<1>1. record_id' = record_id /\ [k \in Keys |-> Lookup(k)]' = [k \in Keys |-> Lookup(k)]
  BY ReaderStep
<1>2. \A q \in Readers : q # r => readers'[q] = readers[q]
  BY DEF Reader, get, get_log, get_table, get_return, SetReader, IInv, TypeOK
<1>3. IInv'
  BY ReaderStep
<1>4. CASE get_return(r)
  <2>1. readers[r].pc = "done" /\ readers'[r].pc = "idle"
    BY <1>4 DEF get_return, IdleReader, IInv, TypeOK
  <2>2. answer[r] # {} /\ answer' = [answer EXCEPT ![r] = {}]
    BY <1>2, <2>1
  <2> QED
    BY <1>1, <2>2 DEF Store!Return
<1>5. CASE ~get_return(r) /\ readers'[r].pc = "done"
  <2>1. readers[r].pc # "done"
    BY <1>5 DEF Reader, get, get_log, get_table, IInv, TypeOK
  <2>2. readers'[r].key \in Keys /\ readers'[r].version = Lookup(readers[r].key)'
    BY <1>3, <1>5 DEF IInv, ReadersCorrect
  <2>3. PICK k \in Keys : k = readers'[r].key /\ readers'[r].version = Lookup(k)
    <3>1. Lookup(readers[r].key)' = [k \in Keys |-> Lookup(k)]'[readers'[r].key]
      BY <2>2
    <3> QED
      BY <1>1, <2>2, <3>1
  <2>4. /\ answer[r] = {}
        /\ answer' = [answer EXCEPT ![r] = {[key |-> k, version |-> [q \in Keys |-> Lookup(q)][k]]}]
    BY <1>2, <1>5, <2>1, <2>3
  <2> QED
    BY <1>1, <2>4 DEF Store!Get
<1>6. CASE ~get_return(r) /\ readers'[r].pc # "done"
  <2>1. readers[r].pc # "done"
    BY <1>6 DEF Reader, get, get_log, get_table, IInv, TypeOK
  <2>2. answer' = answer
    BY <1>2, <1>6, <2>1
  <2> QED
    BY <1>1, <2>2 DEF Store!vars
<1> QED
  BY <1>4, <1>5, <1>6

\* Every other step leaves the store as it is.
LEMMA QuietRefines ==
    ASSUME IInv,
           LogWorker \/ log_worker_error \/ CommitWorker \/ commit_worker_error \/ UNCHANGED vars
    PROVE  UNCHANGED Store!vars
<1>1. readers' = readers
  BY DEF LogWorker, pop_commit, end_record, clean_overlay, process_reindex, log_worker_error,
         CommitWorker, read_next, enact_plan, end_read, commit_worker_error, vars
<1>2. record_id' = record_id /\ \A k \in Keys : Lookup(k)' = Lookup(k)
  BY QuietStep, StutterStep
<1> QED
  BY <1>1, <1>2 DEF Store!vars

(* The pipeline implements AtomicStore: a commit takes effect for every reader in the one step of *)
(* commit_raw, moving it through log and tables is invisible, and a get is atomic.               *)
THEOREM Refinement == Spec => ImplementsAtomicStore
<1>1. Init => Store!Init
  BY DEF Init, Store!Init, Lookup, Logged, IdleReader
<1>2. IInv /\ [Next]_vars => [Store!Next]_Store!vars
  <2> SUFFICES ASSUME IInv, [Next]_vars PROVE [Store!Next]_Store!vars
    OBVIOUS
  <2>1. CASE \E keys \in SUBSET Keys \ {{}} : commit_raw(keys)
    BY <2>1, CommitRefines DEF Store!Next
  <2>2. CASE \E r \in Readers : Reader(r)
    BY <2>2, ReaderRefines DEF Store!Next
  <2>3. CASE LogWorker \/ log_worker_error \/ CommitWorker \/ commit_worker_error
             \/ UNCHANGED vars
    BY <2>3, QuietRefines
  <2> QED
    BY <2>1, <2>2, <2>3 DEF Next
<1> QED
  BY <1>1, <1>2, Inductive, PTL DEF Spec, ImplementsAtomicStore, Store!Spec

-----------------------------------------------------------------------------
(* Tables only advance.  The invariant for it: commit ids grow along the log, and what is logged  *)
(* or in a table is older than every commit still waiting for its record.                        *)

Below(v) ==
    /\ log_worker.pc = "popped" => v < log_worker.commit.id
    /\ \A j \in DOMAIN commits : v < commits[j].id
    /\ v <= record_id + 1

Ascending ==
    /\ \A i \in DOMAIN log : Below(log[i].commit)
    /\ \A k \in Keys : Below(tables[k])
    /\ \A i \in DOMAIN log : log[i].commit = 0 => log[i].keys = {}
    /\ \A i, j \in DOMAIN log : i < j /\ log[j].commit # 0 => log[i].commit < log[j].commit
    /\ \A i \in DOMAIN log : i > enacted => \A k \in log[i].keys : tables[k] <= log[i].commit

\* Steps that append no record and write no table.
LEMMA BelowKept ==
    ASSUME IInv, NEW v \in Nat, Below(v), Next \/ UNCHANGED vars
    PROVE  Below(v)'
<1> USE DEF IInv
<1>1. CASE \E keys \in SUBSET Keys \ {{}} : commit_raw(keys)
  <2>1. PICK keys \in SUBSET Keys \ {{}} : commit_raw(keys)
    BY <1>1
  <2> DEFINE new == [id |-> record_id + 2, keys |-> keys]
  <2>2. /\ record_id' = record_id + 1 /\ commits' = Append(commits, new)
        /\ log_worker' = log_worker /\ new \in Commit /\ record_id \in Nat
    BY <2>1 DEF commit_raw, TypeOK, Commit
  <2>3. \A j \in DOMAIN commits' : \/ j \in DOMAIN commits /\ commits'[j] = commits[j]
                                   \/ commits'[j] = new
    <3> HIDE DEF new
    <3> QED
      BY <2>2 DEF TypeOK
  <2>4. v < new.id /\ v <= record_id' + 1
    BY <2>2 DEF Below
  <2> QED
    BY <2>2, <2>3, <2>4 DEF Below
<1>2. CASE pop_commit
  <2>1. /\ record_id' = record_id /\ log_worker'.commit = commits[1] /\ 1 \in DOMAIN commits
        /\ \A j \in DOMAIN commits' : j + 1 \in DOMAIN commits /\ commits'[j] = commits[j + 1]
    BY <1>2 DEF pop_commit, TypeOK
  <2> QED
    BY <2>1 DEF Below
<1>3. CASE end_record \/ clean_overlay \/ process_reindex \/ log_worker_error
  <2>1. /\ UNCHANGED <<record_id, commits>>
        /\ log_worker' = log_worker \/ log_worker'.pc \in {"idle", "logged", "stopped"}
    BY <1>3 DEF end_record, clean_overlay, process_reindex, log_worker_error, queueVars, TypeOK
  <2> QED
    BY <2>1 DEF Below
<1>4. CASE CommitWorker \/ commit_worker_error \/ UNCHANGED vars \/ \E r \in Readers : Reader(r)
  <2>1. UNCHANGED <<record_id, commits, log_worker>>
    BY <1>4 DEF CommitWorker, read_next, enact_plan, end_read, commit_worker_error, vars, Reader,
                get, get_log, get_table, get_return, SetReader, queueVars
  <2> QED
    BY <2>1 DEF Below
<1> QED
  BY <1>1, <1>2, <1>3, <1>4 DEF Next, LogWorker

\* What a step does to the log and the tables.
LEMMA LogAndTables ==
    ASSUME IInv, Next \/ UNCHANGED vars
    PROVE  \/ UNCHANGED <<log, enacted, tables>>
           \/ (end_record \/ process_reindex) /\ UNCHANGED <<enacted, tables>>
           \/ (\E k \in Keys : enact_plan(k)) /\ UNCHANGED <<log, enacted>>
           \/ end_read /\ UNCHANGED <<log, tables>>
  BY DEF Next, LogWorker, commit_raw, pop_commit, end_record, clean_overlay, process_reindex,
         log_worker_error, CommitWorker, read_next, enact_plan, end_read, commit_worker_error,
         vars, Reader, get, get_log, get_table, get_return, SetReader, logVars, enactVars

LEMMA AscendingStep ==
    ASSUME IInv, Ascending, Next \/ UNCHANGED vars
    PROVE  Ascending' /\ \A k \in Keys : tables'[k] >= tables[k]
<1> USE DEF IInv
<1>1. \A v \in Nat : Below(v) => Below(v)'
  BY BelowKept
<1>2. \A i \in DOMAIN log : log[i].commit \in Nat /\ Below(log[i].commit)
  BY TypeFacts DEF Ascending
<1>3. \A k \in Keys : tables[k] \in Nat /\ Below(tables[k])
  BY DEF Ascending, TypeOK
<1>4. CASE UNCHANGED <<log, tables>> /\ (enacted' = enacted \/ end_read)
  <2>1. enacted' >= enacted /\ enacted \in Nat /\ enacted' \in Nat
    BY <1>4, TypeFacts DEF end_read, TypeOK
  <2>2. /\ \A i \in DOMAIN log' : Below(log[i].commit)'
        /\ \A k \in Keys : Below(tables[k])'
    BY <1>1, <1>2, <1>3, <1>4 DEF Below
  <2>3. \A i \in DOMAIN log' : i > enacted' => \A k \in log'[i].keys : tables'[k] <= log'[i].commit
    BY <1>4, <2>1, TypeFacts DEF Ascending
  <2> QED
    BY <1>3, <1>4, <2>2, <2>3 DEF Ascending
<1>5. CASE (end_record \/ process_reindex) /\ UNCHANGED <<enacted, tables>>
  <2>1. CASE UNCHANGED log
    BY <1>4, <1>5, <2>1
  <2>2. CASE log' # log
    <3>1. PICK new \in Record :
              /\ log' = Append(log, new)
              /\ \/ log_worker.pc = "popped" /\ new.commit = log_worker.commit.id /\ new.commit # 0
                 \/ new.commit = 0 /\ new.keys = {}
      <4>1. CASE end_record
        <5> DEFINE new == [commit |-> log_worker.commit.id, keys |-> log_worker.commit.keys,
                           drop |-> FALSE]
        <5>1. new \in Record /\ log_worker.commit.id # 0
          BY <4>1, TypeFacts DEF Record, end_record, QueueOrdered, Busy
        <5>2. log' = Append(log, new) /\ log_worker.pc = "popped"
          BY <4>1 DEF end_record, AppendRecord
        <5>3. new.commit = log_worker.commit.id
          OBVIOUS
        <5> QED
          BY <5>1, <5>2, <5>3
      <4>2. CASE process_reindex
        <5>1. PICK drop \in BOOLEAN : AppendRecord([commit |-> 0, keys |-> {}, drop |-> drop])
          BY <2>2, <4>2 DEF process_reindex, logVars
        <5> DEFINE new == [commit |-> 0, keys |-> {}, drop |-> drop]
        <5>2. new \in Record /\ log' = Append(log, new)
          BY <5>1 DEF Record, AppendRecord
        <5>3. new.commit = 0 /\ new.keys = {}
          OBVIOUS
        <5> QED
          BY <5>2, <5>3
      <4> QED
        BY <1>5, <4>1, <4>2
    <3> DEFINE n == Len(log) + 1
               c == new.commit
               keys == new.keys
    <3>2. /\ DOMAIN log' = 1 .. n /\ DOMAIN log = 1 .. Len(log) /\ Len(log) \in Nat
          /\ \A i \in DOMAIN log : log'[i] = log[i]
          /\ log'[n] = new
      BY <3>1 DEF TypeOK
    <3>3. UNCHANGED <<record_id, commits>> /\ log_worker'.pc # "popped"
      <4>1. CASE end_record
        BY <4>1 DEF end_record, queueVars, TypeOK
      <4>2. CASE process_reindex
        BY <4>2 DEF process_reindex, queueVars, TypeOK
      <4> QED
        BY <1>5, <4>1, <4>2
    <3>4. ASSUME NEW i \in DOMAIN log', i \notin DOMAIN log PROVE Below(log[i].commit)'
      <4>1. c <= record_id + 1 /\ \A j \in DOMAIN commits : c < commits[j].id
        <5>1. CASE new.commit = 0
          BY <5>1, TypeFacts DEF QueueOrdered, TypeOK
        <5>2. CASE new.commit = log_worker.commit.id
          BY <5>2 DEF QueueOrdered
        <5> QED
          BY <3>1, <5>1, <5>2
      <4> QED
        BY <3>2, <3>3, <3>4, <4>1 DEF Below
    <3>5. /\ \A i \in DOMAIN log' : Below(log[i].commit)'
          /\ \A k \in Keys : Below(tables[k])'
      <4>1. \A i \in DOMAIN log : Below(log[i].commit)'
        BY <1>1, <1>2, <3>2 DEF Below
      <4>2. \A k \in Keys : Below(tables[k])'
        BY <1>1, <1>3, <1>5 DEF Below
      <4> QED
        BY <3>2, <3>4, <4>1, <4>2
    <3>6. \A i \in DOMAIN log : c # 0 => log[i].commit < c
      BY <1>2, <3>1 DEF Below
    <3>7. \A k \in keys : tables[k] <= c
      <4>1. c \in Nat /\ keys \subseteq Keys
        BY DEF Record
      <4> QED
        BY <1>3, <3>1, <4>1 DEF Below
    <3>8. \A i, j \in DOMAIN log' : i < j /\ log'[j].commit # 0 => log'[i].commit < log'[j].commit
      BY <3>2, <3>6 DEF Ascending
    <3>9. \A i \in DOMAIN log' : i > enacted' => \A k \in log'[i].keys : tables'[k] <= log'[i].commit
      BY <1>5, <3>2, <3>7 DEF Ascending
    <3>10. \A i \in DOMAIN log' : log'[i].commit = 0 => log'[i].keys = {}
      BY <3>1, <3>2 DEF Ascending
    <3> QED
      BY <1>3, <1>5, <3>5, <3>8, <3>9, <3>10 DEF Ascending
  <2> QED
    BY <2>1, <2>2
<1>6. CASE (\E k \in Keys : enact_plan(k)) /\ UNCHANGED <<log, enacted>>
  <2>1. PICK e \in Keys : enact_plan(e)
    BY <1>6
  <2> DEFINE c == NextRecord.commit
  <2>2. /\ enacted \in Nat /\ enacted + 1 \in DOMAIN log /\ e \in NextRecord.keys
        /\ tables' = [tables EXCEPT ![e] = c] /\ c \in Nat /\ c # 0
    BY <2>1, TypeFacts DEF enact_plan, EnactedInPart, NextRecord, TypeOK, Ascending
  <2>3. tables[e] <= c /\ Below(c)
    BY <2>2, <1>2 DEF Ascending, NextRecord
  <2>4. /\ \A i \in DOMAIN log' : Below(log[i].commit)'
        /\ \A k \in Keys : Below(tables[k])'
    <3>1. \A k \in Keys : tables'[k] \in Nat /\ Below(tables'[k])
      BY <1>3, <2>2, <2>3
    <3> QED
      BY <1>1, <1>2, <1>6, <3>1 DEF Below
  <2>5. \A i \in DOMAIN log : i > enacted => \A k \in log[i].keys : tables'[k] <= log[i].commit
    <3> SUFFICES ASSUME NEW i \in DOMAIN log, i > enacted, NEW k \in log[i].keys
                 PROVE  tables'[k] <= log[i].commit
      OBVIOUS
    <3>1. k \in Keys /\ i \in Nat /\ log[i].commit \in Nat /\ log[i].commit # 0
      BY TypeFacts DEF Ascending
    <3>2. CASE k = e /\ i > enacted + 1
      BY <2>2, <3>1, <3>2 DEF Ascending, NextRecord, TypeOK
    <3>3. CASE k = e /\ i = enacted + 1
      BY <2>2, <3>1, <3>3 DEF NextRecord, TypeOK
    <3>4. CASE k # e
      BY <2>2, <3>1, <3>4 DEF Ascending, TypeOK
    <3> QED
      BY <2>2, <3>1, <3>2, <3>3, <3>4
  <2>6. \A k \in Keys : tables'[k] >= tables[k]
    BY <1>3, <2>2, <2>3
  <2> QED
    BY <1>6, <2>4, <2>5, <2>6 DEF Ascending
<1> QED
  BY <1>4, <1>5, <1>6, LogAndTables

(* A table entry never goes back to an older version, and a record leaves the log overlay only    *)
(* after enact_logs has written its entries.                                                     *)
THEOREM TablesOnlyAdvance == Spec => TablesAdvance
<1> DEFINE Advance == \A k \in Keys :
               /\ tables'[k] >= tables[k]
               /\ overlays[k] # 0 /\ overlays'[k] = 0 => tables[k] = log[overlays[k]].commit
<1>1. Init => Ascending
  BY DEF Init, Ascending, Below
<1>2. IInv /\ Ascending /\ [Next]_vars => Ascending'
  BY AscendingStep
<1>3. IInv /\ Ascending /\ [Next]_vars => [Advance]_vars
  <2> SUFFICES ASSUME IInv, Ascending, Next, NEW k \in Keys, overlays[k] # 0, overlays'[k] = 0
               PROVE  tables[k] = log[overlays[k]].commit
    BY AscendingStep
  <2>1. CASE end_read
    <3>1. /\ overlays[k] = enacted + 1 /\ k \in NextRecord.keys
          /\ commit_worker.pc = "enacting" /\ commit_worker.left = {}
      BY <2>1 DEF end_read
    <3> QED
      BY <3>1 DEF IInv, EnactedInPart, NextRecord
  <2>2. CASE end_record \/ process_reindex
    <3>1. overlays'[k] = overlays[k] \/ overlays'[k] = Len(log) + 1
      BY <2>2 DEF end_record, process_reindex, AppendRecord, logVars
    <3> QED
      BY <3>1, TypeFacts DEF IInv
  <2>3. ~end_read /\ ~(end_record \/ process_reindex) => overlays' = overlays
    BY DEF Next, LogWorker, commit_raw, pop_commit, clean_overlay, log_worker_error, CommitWorker,
           read_next, enact_plan, commit_worker_error, Reader, get, get_log, get_table,
           get_return, SetReader, logVars
  <2> QED
    BY <2>1, <2>2, <2>3
<1> QED
  BY <1>1, <1>2, <1>3, Inductive, PTL DEF Spec, TablesAdvance

=============================================================================
