---------------------------- MODULE BaseIndexProofs ----------------------------
(***************************************************************************)
(* What an index of the chain promises, for every tree of blocks and any   *)
(* number of changes of the chain, shutdowns and crashes: the steps of the *)
(* thread that synchronizes, of the callbacks and of the readers keep the  *)
(* inductive invariant, and what follows from it.                          *)
(***************************************************************************)
EXTENDS IndexQueueProofs

(* A leaf that names no prover is left to Zenon. *)
USE ZenonT(30)

-----------------------------------------------------------------------------
(* Readers *)

(* The blocks below the best block are never ahead of m_muhash. *)
LEMMA BestKept ==
  ASSUME TypeOK, Position, m_synced PROVE \A b \in Blocks : b \in Chain(m_best_block_index) => Kept(b)
<1>1. CASE cbPc # "best" BY <1>1 DEF Position, Kept
<1>2. CASE cbPc = "best"
  <2>1. m_muhash = cbBlock /\ m_best_block_index = Parent(cbBlock) /\ cbBlock \in Blocks
    BY <1>2 DEF Position, TypeOK, BlocksOrNull
  <2>2. Chain(m_best_block_index) \subseteq Chain(m_muhash) BY <2>1, ParentIs
  <2> QED BY <2>2 DEF Kept
<1> QED BY <1>1, <1>2

LEMMA BlockUntilSyncedStep == ASSUME IInv, BlockUntilSyncedToCurrentChain PROVE IInv'
<1>1. /\ node = "up" /\ reader.pc = "idle" /\ m_synced /\ tip # NULL
      /\ UNCHANGED <<node, tip, known, disk, changes, m_best_block_index, m_synced, m_muhash, db,
                     syncPc, pindex, cbPc, cbBlock, failed, stops>>
  BY DEF BlockUntilSyncedToCurrentChain, indexVars, syncVars, cbVars, chainVars
<1>2. TypeOK /\ Sound(db) /\ Position /\ Queue /\ Following /\ Promised
      /\ CallbacksDoNotFail /\ tip \in Blocks
  BY <1>1 DEF IInv, Running, TypeOK, BlocksOrNull
<1>3. Sound(db)' /\ CallbacksDoNotFail' /\ Heading' = Heading /\ Position'
  BY <1>1, <1>2, PositionSame DEF Sound, Holds, CallbacksDoNotFail, Heading
<1>4. CASE tip \in Chain(m_best_block_index)
  <2>1. reader' = [pc |-> "true", block |-> tip] /\ pending' = pending
    BY <1>4 DEF BlockUntilSyncedToCurrentChain
  <2>2. TypeOK' BY <1>1, <1>2, <2>1 DEF TypeOK
  <2>3. Queue' /\ Following' BY <1>1, <1>2, <1>3, <2>1, QueueSame
  <2>4. Kept(tip) BY <1>1, <1>2, <1>4, BestKept
  <2>5. Promised' BY <1>1, <2>1, <2>4 DEF Promised, Kept
  <2> QED BY <1>1, <1>3, <2>2, <2>3, <2>5 DEF IInv, Running
<1>5. CASE tip \notin Chain(m_best_block_index)
  <2>1. PICK e, t, n : e = [type |-> "sync"] /\ t = tip /\ n = Len(pending) + 1 OBVIOUS
  <2>2. reader' = [pc |-> "wait", block |-> t] /\ pending' = Append(pending, e)
    BY <1>5, <2>1 DEF BlockUntilSyncedToCurrentChain
  <2>3. e \in Events /\ e.type = "sync" /\ pending \in Seq(Events)
    BY <1>2, <2>1 DEF Events, TypeOK
  <2>4. /\ Queue' /\ pending' \in Seq(Events)
        /\ \A i \in DOMAIN pending' :
             i \in DOMAIN pending \/ (i = Len(pending) + 1 /\ pending'[i] = e)
        /\ \A i \in DOMAIN pending : pending'[i] = pending[i]
        /\ \A s, k : Leads(s, k) => Leads(s, k)'
    BY <1>1, <1>2, <2>2, <2>3, AppendQueue
  <2>5. Following' /\ \A s, k : Fits(s, k) => Fits(s, k)'
    BY <1>1, <1>2, <1>3, <2>2, <2>3, FitsAppend
  <2>6. TypeOK' BY <1>1, <1>2, <2>1, <2>2, <2>4 DEF TypeOK
  <2>7. Leads(t, n)' /\ Fits(t, n)'
    BY <1>2, <2>1, <2>4, <2>5 DEF Queue, Following
  <2>8. \A i \in DOMAIN pending' : pending'[i].type = "sync" => i = n
    BY <1>1, <1>2, <2>1, <2>4 DEF Promised
  <2>9. Promised'
    <3>1. reader'.block = t /\ reader'.pc = "wait" /\ t # NULL BY <1>1, <2>1, <2>2
    <3>2. ASSUME NEW i \in DOMAIN pending', pending'[i].type = "sync"
          PROVE  Leads(reader.block, i)' /\ Fits(reader.block, i)'
      <4>1. i = n BY <2>8, <3>2
      <4>2. Leads(t, i)' /\ Fits(t, i)' BY <2>7, <4>1
      <4> QED BY <3>1, <4>2 DEF Leads, Fits
    <3> QED BY <1>1, <3>1, <3>2 DEF Promised
  <2> QED BY <1>1, <1>3, <2>4, <2>5, <2>6, <2>9 DEF IInv, Running
<1> QED BY <1>4, <1>5

-----------------------------------------------------------------------------
(* ThreadSync *)

LEMMA SyncState ==
  ASSUME IInv, syncPc \in {"loop", "rewind", "write", "append"}
  PROVE  /\ Running /\ TypeOK /\ Sound(db) /\ Position /\ Queue /\ Promised /\ CallbacksDoNotFail
         /\ ~m_synced /\ cbPc = "idle" /\ db \in Databases
         /\ pindex \in BlocksOrNull /\ (syncPc # "loop" => pindex \in Blocks)
<1>1. Running BY DEF IInv, TypeOK, AtRest, Running
<1>2. TypeOK /\ Sound(db) /\ Position /\ Queue /\ Promised /\ CallbacksDoNotFail BY <1>1 DEF IInv
<1> QED BY <1>1, <1>2 DEF Position, Rewinding, Chain, TypeOK, BlocksOrNull

(* A step of the sync thread leaves the queue and the reader alone. *)
LEMMA SyncKeeps ==
  ASSUME IInv, syncPc \in {"loop", "rewind", "write", "append"}, m_synced' = m_synced,
         UNCHANGED <<node, tip, known, disk, changes, pending, cbPc, cbBlock, reader, failed, stops>>,
         m_best_block_index' \in BlocksOrNull, m_muhash' \in BlocksOrNull, pindex' \in BlocksOrNull,
         syncPc' \in {"loop", "rewind", "write", "append", "done"},
         db' \in Databases, Sound(db)', Position', \A b \in Blocks : Kept(b) => Kept(b)'
  PROVE  IInv'
<1>1. Running /\ TypeOK /\ Queue /\ Promised /\ CallbacksDoNotFail /\ ~m_synced BY SyncState
<1>2. TypeOK' BY <1>1 DEF TypeOK, States
<1>3. Queue' BY <1>1, QueueSame
<1>4. Promised' BY <1>1, PromisedSame
<1>5. CallbacksDoNotFail' /\ Running' /\ ~m_synced' BY <1>1 DEF CallbacksDoNotFail, Running
<1> QED BY <1>2, <1>3, <1>4, <1>5 DEF IInv, Running

(* What a commit of the block m_muhash stands for changes. *)
LEMMA SyncCommits ==
  ASSUME TypeOK, Sound(db), Position, db' = Commit(db, m_muhash, m_muhash), m_muhash' = m_muhash
  PROVE  /\ db' \in Databases /\ Sound(db)' /\ Holds(db', m_muhash) /\ Under(db'.best, m_muhash)
         /\ db'.height = db.height /\ db'.hash = db.hash
         /\ \A b \in Blocks : Kept(b) => Kept(b)'
<1>1. db \in Databases /\ m_muhash \in BlocksOrNull /\ Holds(db, m_muhash) /\ Under(db.best, m_muhash)
  BY DEF TypeOK, Position
<1>2. PICK e : e = Commit(db, m_muhash, m_muhash) OBVIOUS
<1>3. /\ e \in Databases /\ Sound(e) /\ Holds(e, m_muhash)
      /\ e.height = db.height /\ e.hash = db.hash
      /\ e.best = IF m_muhash = NULL THEN db.best ELSE m_muhash
  BY <1>1, <1>2, CommitSound
<1>4. db' = e BY <1>2
<1>5. Sound(db)' BY <1>3, <1>4 DEF Sound, Holds
<1>6. Under(db'.best, m_muhash) BY <1>1, <1>3, <1>4, ChainType
<1>7. db'.height = db.height /\ db'.hash = db.hash BY <1>3, <1>4
<1>8. \A b \in Blocks : Kept(b) => Kept(b)' BY <1>7 DEF Kept, Chain
<1> QED BY <1>3, <1>4, <1>5, <1>6, <1>7, <1>8

LEMMA SyncInterruptedStep == ASSUME IInv, SyncInterrupted PROVE IInv'
<1>1. /\ syncPc = "loop" /\ m_best_block_index' = pindex /\ db' = Commit(db, pindex, m_muhash)
      /\ syncPc' = "done"
      /\ UNCHANGED <<node, tip, known, disk, changes, pending, m_synced, m_muhash, pindex, cbPc, cbBlock,
                     reader, failed, stops>>
  BY DEF SyncInterrupted, chainVars, cbVars
<1>2. /\ TypeOK /\ Sound(db) /\ Position /\ ~m_synced /\ cbPc = "idle" /\ pindex \in BlocksOrNull
  BY <1>1, SyncState
<1>3. m_muhash = pindex BY <1>1, <1>2 DEF Position
<1>4. /\ db' \in Databases /\ Sound(db)' /\ Holds(db', m_muhash) /\ Under(db'.best, m_muhash)
      /\ \A b \in Blocks : Kept(b) => Kept(b)'
  BY <1>1, <1>2, <1>3, SyncCommits
<1>5. Position' BY <1>1, <1>2, <1>3, <1>4 DEF Position, Holds, Under
<1> QED BY <1>1, <1>2, <1>3, <1>4, <1>5, SyncKeeps

LEMMA SyncFinishedStep == ASSUME IInv, SyncFinished PROVE IInv'
<1>1. /\ syncPc = "loop" /\ m_best_block_index' = pindex /\ db' = Commit(db, pindex, m_muhash)
      /\ syncPc' = "done" /\ m_synced' = TRUE /\ NextSyncBlock(pindex) = NULL
      /\ UNCHANGED <<node, tip, known, disk, changes, pending, m_muhash, pindex, cbPc, cbBlock,
                     reader, failed, stops>>
  BY DEF SyncFinished, chainVars, cbVars
<1>2. /\ Running /\ TypeOK /\ Sound(db) /\ Position /\ Queue /\ Promised /\ CallbacksDoNotFail
      /\ ~m_synced /\ cbPc = "idle" /\ pindex \in BlocksOrNull /\ tip \in BlocksOrNull
  BY <1>1, SyncState DEF TypeOK
<1>3. m_muhash = pindex /\ (pindex = NULL => tip # NULL) BY <1>1, <1>2 DEF Position
<1>4. /\ db' \in Databases /\ Sound(db)' /\ Holds(db', m_muhash) /\ Under(db'.best, m_muhash)
      /\ \A b \in Blocks : Kept(b) => Kept(b)'
  BY <1>1, <1>2, <1>3, SyncCommits
<1>5. Position' BY <1>1, <1>2, <1>3, <1>4 DEF Position, Holds, Under
<1>6. TypeOK' BY <1>1, <1>2, <1>4 DEF TypeOK
<1>7. Queue' /\ CallbacksDoNotFail' BY <1>1, <1>2, QueueSame DEF CallbacksDoNotFail
<1>8. Following'
  <2>1. Under(tip, pindex) BY <1>1, <1>2, NextSyncBlockIs
  <2>2. pindex # NULL BY <1>3, <2>1 DEF Under, Chain
  <2>3. Heading' = pindex /\ tip' = tip BY <1>1, <1>2 DEF Heading
  <2>4. Under(tip', Heading') BY <2>1, <2>3
  <2> QED BY <2>2, <2>3, <2>4 DEF Following, Fits, Under
<1>9. Promised'
  <2>1. PICK rb : rb = reader.block OBVIOUS
  <2>2. reader.pc = "true" => Kept(rb)'
    BY <1>2, <1>4, <2>1 DEF Promised, TypeOK, BlocksOrNull
  <2>3. reader.pc = "true" => Kept(reader.block)' BY <1>1, <2>1, <2>2 DEF Kept
  <2> QED BY <1>1, <1>2, <2>3 DEF Promised
<1> QED BY <1>1, <1>2, <1>4, <1>5, <1>6, <1>7, <1>8, <1>9 DEF IInv, Running

LEMMA SyncNextStep == ASSUME IInv, SyncNext PROVE IInv'
<1>1. PICK next : next = NextSyncBlock(pindex) OBVIOUS
<1>2. /\ syncPc = "loop" /\ next # NULL /\ Parent(next) = pindex /\ pindex' = next /\ syncPc' = "write"
      /\ UNCHANGED <<node, tip, known, disk, changes, pending, m_best_block_index, m_synced, m_muhash, db,
                     cbPc, cbBlock, reader, failed, stops>>
  BY <1>1 DEF SyncNext, chainVars, cbVars, indexVars
<1>3. /\ TypeOK /\ Sound(db) /\ Position /\ ~m_synced /\ cbPc = "idle" /\ pindex \in BlocksOrNull
      /\ tip \in BlocksOrNull /\ db \in Databases /\ m_best_block_index \in BlocksOrNull
  BY <1>2, SyncState DEF TypeOK
<1>4. next \in Blocks /\ next \in BlocksOrNull BY <1>1, <1>2, <1>3, NextSyncBlockIs DEF BlocksOrNull
<1>5. Position' BY <1>2, <1>3, <1>4 DEF Position, Holds, Under
<1>6. Sound(db)' BY <1>2, <1>3 DEF Sound, Holds
<1>7. m_muhash \in BlocksOrNull BY <1>3 DEF Position
<1> QED BY <1>2, <1>3, <1>4, <1>5, <1>6, <1>7, SyncKeeps, KeptSame

LEMMA SyncWriteStep == ASSUME IInv, SyncWrite PROVE IInv'
<1>1. /\ syncPc = "write" /\ syncPc' = "append"
      /\ UNCHANGED <<node, tip, known, disk, changes, pending, m_synced, m_muhash, pindex, cbPc, cbBlock,
                     reader, failed, stops>>
  BY DEF SyncWrite, chainVars, cbVars, indexVars
<1>2. /\ TypeOK /\ Sound(db) /\ Position /\ ~m_synced /\ cbPc = "idle" /\ pindex \in Blocks
      /\ pindex \in BlocksOrNull /\ db \in Databases /\ m_best_block_index \in BlocksOrNull
  BY <1>1, SyncState DEF TypeOK
<1>3. m_muhash = Parent(pindex) /\ m_muhash \in BlocksOrNull BY <1>1, <1>2 DEF Position
<1>4. CASE UNCHANGED <<m_best_block_index, db>>
  <2>1. Position' BY <1>1, <1>2, <1>4 DEF Position, Holds, Under, Parent
  <2>2. Sound(db)' BY <1>2, <1>4 DEF Sound, Holds
  <2> QED BY <1>1, <1>2, <1>3, <1>4, <2>1, <2>2, SyncKeeps, KeptSame
<1>5. CASE m_best_block_index' = Parent(pindex) /\ db' = Commit(db, Parent(pindex), m_muhash)
  <2>1. /\ db' \in Databases /\ Sound(db)' /\ Holds(db', m_muhash) /\ Under(db'.best, m_muhash)
        /\ \A b \in Blocks : Kept(b) => Kept(b)'
    BY <1>1, <1>2, <1>3, <1>5, SyncCommits
  <2>2. Position' BY <1>1, <1>2, <1>3, <1>5, <2>1 DEF Position, Holds, Under, Parent
  <2> QED BY <1>1, <1>2, <1>3, <1>5, <2>1, <2>2, SyncKeeps
<1> QED BY <1>4, <1>5 DEF SyncWrite, indexVars

(* CustomAppend finds the parent, and what was in the index stays there. *)
LEMMA AppendKeeps ==
  ASSUME TypeOK, Sound(db), NEW b \in Blocks, m_muhash = Parent(b),
         Holds(db, m_muhash), Under(db.best, m_muhash)
  PROVE  /\ CanAppend(b)
         /\ CustomAppend(b) =>
              /\ m_muhash' = b /\ db' \in Databases /\ Sound(db)' /\ Holds(db', b)
              /\ Under(db'.best, b) /\ \A c \in Blocks : Kept(c) => Kept(c)'
<1>1. db \in Databases /\ b \in BlocksOrNull BY DEF TypeOK, BlocksOrNull
<1>2. /\ Parent(b) \in BlocksOrNull /\ Chain(b) = {b} \cup Chain(Parent(b))
      /\ Under(Parent(b), b) /\ (b # Genesis => nHeight[Parent(b)] = nHeight[b] - 1)
      /\ (Parent(b) = NULL <=> b = Genesis)
  BY ParentIs
<1>3. CanAppend(b)
  <2> SUFFICES ASSUME b # Genesis PROVE db.height[nHeight[b] - 1].block = pprev[b] /\ pprev[b] # NULL
    BY DEF CanAppend
  <2>1. Parent(b) = pprev[b] /\ pprev[b] # NULL BY <1>2 DEF Parent
  <2>2. pprev[b] \in Chain(Parent(b)) BY <1>2, <2>1, ChainType
  <2> QED BY <1>2, <2>1, <2>2 DEF Holds
<1>4. ASSUME CustomAppend(b)
      PROVE  /\ m_muhash' = b /\ db' \in Databases /\ Sound(db)' /\ Holds(db', b)
             /\ Under(db'.best, b) /\ \A c \in Blocks : Kept(c) => Kept(c)'
  <2>1. m_muhash' = b /\ db' = [db EXCEPT !.height[nHeight[b]] = [block |-> b, val |-> b]]
    BY <1>4 DEF CustomAppend
  <2>2. PICK e : e = [db EXCEPT !.height[nHeight[b]] = [block |-> b, val |-> b]] OBVIOUS
  <2>3. /\ e \in Databases /\ Sound(e) /\ Holds(e, b) /\ e.best = db.best /\ e.hash = db.hash
        /\ \A h \in Heights : db.height[h].block # NULL => e.height[h].block # NULL
    BY <1>1, <2>2, AppendSound
  <2>4. db' = e BY <2>1, <2>2
  <2>5. Sound(db)' BY <2>3, <2>4 DEF Sound, Holds
  <2>6. Under(db'.best, b) BY <1>1, <1>2, <2>3, <2>4, UnderTransitive
  <2>7. ASSUME NEW c \in Blocks, Kept(c) PROVE Kept(c)'
    <3>1. CASE c \in Chain(m_muhash)
      <4>1. c \in Chain(b) BY <1>2, <3>1
      <4> QED BY <2>1, <4>1 DEF Kept, Chain
    <3>2. CASE db.hash[c] = c /\ db.height[nHeight[c]].block # NULL
      BY <2>3, <2>4, <3>2, HeightsOf DEF Kept
    <3> QED BY <2>7, <3>1, <3>2 DEF Kept
  <2> QED BY <2>1, <2>3, <2>4, <2>5, <2>6, <2>7
<1> QED BY <1>3, <1>4

(* Rewind: what leaves the chain is in the hash index. *)
LEMMA RewindKeeps ==
  ASSUME TypeOK, NEW d \in Databases, Sound(d), d.height = db.height,
         \A b \in Blocks : db.hash[b] = b => d.hash[b] = b,
         NEW current \in Blocks, m_muhash = current, Holds(db, current),
         NEW new \in Chain(current),
         \A a \in Chain(current) : nHeight[a] >= nHeight[new] => d.hash[a] = a,
         m_muhash' = new, db' = Commit(d, new, new)
  PROVE  /\ new \in Blocks /\ db' \in Databases /\ Sound(db)' /\ Holds(db', new)
         /\ Under(db'.best, new) /\ \A c \in Blocks : Kept(c) => Kept(c)'
<1>1. current \in BlocksOrNull /\ new \in Blocks /\ new # NULL /\ new \in BlocksOrNull
      /\ Chain(current) = Ancestors[current] /\ Chain(new) = Ancestors[new]
  BY ChainType, TreeAssumption DEF BlocksOrNull, Chain
<1>2. Holds(d, new) BY <1>1, ChainTransitive DEF Holds
<1>3. PICK e : e = Commit(d, new, new) OBVIOUS
<1>4. /\ e \in Databases /\ Sound(e) /\ Holds(e, new) /\ e.height = d.height /\ e.hash = d.hash
      /\ e.best = new
  BY <1>1, <1>2, <1>3, CommitSound
<1>5. db' = e BY <1>3
<1>6. Sound(db)' BY SMTT(30), <1>4, <1>5 DEF Sound, Holds
<1>7. Under(db'.best, new) BY <1>1, <1>4, <1>5, ChainType
<1>8. ASSUME NEW c \in Blocks, Kept(c) PROVE Kept(c)'
  <2>1. CASE c \in Chain(current) /\ nHeight[c] >= nHeight[new]
    <3>1. db'.hash[c] = c BY <1>4, <1>5, <2>1
    <3>2. db'.height[nHeight[c]].block = c /\ c # NULL
      BY <1>4, <1>5, <2>1, TreeAssumption DEF Holds
    <3> QED BY <3>1, <3>2 DEF Kept
  <2>2. CASE c \in Chain(current) /\ ~(nHeight[c] >= nHeight[new])
    <3>1. nHeight[c] <= nHeight[new] BY SMTT(40), <1>1, <2>2, TreeAssumption
    <3>2. c \in Ancestors[new] BY SMTT(40), <1>1, <2>2, <3>1, AncestorsOrdered
    <3> QED BY <1>1, <3>2 DEF Kept, Chain
  <2>3. CASE c \notin Chain(current)
    BY <1>4, <1>5, <1>8, <2>3 DEF Kept
  <2> QED BY <2>1, <2>2, <2>3
<1> QED BY <1>1, <1>4, <1>5, <1>6, <1>7, <1>8

LEMMA SyncAppendStep == ASSUME IInv, SyncAppend PROVE IInv'
<1>1. syncPc = "append" BY DEF SyncAppend
<1>2. /\ TypeOK /\ Sound(db) /\ Position /\ ~m_synced /\ cbPc = "idle" /\ pindex \in Blocks
      /\ pindex \in BlocksOrNull /\ db \in Databases /\ m_best_block_index \in BlocksOrNull
  BY <1>1, SyncState DEF TypeOK
<1>3. m_muhash = Parent(pindex) /\ Holds(db, m_muhash) /\ Under(db.best, m_muhash)
  BY <1>1, <1>2 DEF Position
<1>4. CanAppend(pindex) BY <1>2, <1>3, AppendKeeps
<1>5. /\ CustomAppend(pindex) /\ syncPc' = "loop"
      /\ UNCHANGED <<node, tip, known, disk, changes, pending, m_best_block_index, m_synced, pindex,
                     cbPc, cbBlock, reader, failed, stops>>
  BY <1>4 DEF SyncAppend, chainVars, cbVars
<1>6. /\ m_muhash' = pindex /\ db' \in Databases /\ Sound(db)' /\ Holds(db', pindex)
      /\ Under(db'.best, pindex) /\ \A c \in Blocks : Kept(c) => Kept(c)'
  BY <1>2, <1>3, <1>5, AppendKeeps
<1>7. pindex # NULL BY <1>2, TreeAssumption
<1>8. Position' BY <1>2, <1>5, <1>6, <1>7 DEF Position, Holds, Under
<1> QED BY <1>1, <1>2, <1>5, <1>6, <1>8, SyncKeeps

LEMMA SyncRewindStep == ASSUME IInv, SyncRewind PROVE IInv'
<1>1. PICK next, new : next = NextSyncBlock(pindex) /\ new = Parent(next) OBVIOUS
<1>2. syncPc = "loop" /\ next # NULL /\ new # pindex BY <1>1 DEF SyncRewind
<1>3. /\ TypeOK /\ Sound(db) /\ Position /\ ~m_synced /\ cbPc = "idle" /\ pindex \in BlocksOrNull
      /\ tip \in BlocksOrNull /\ db \in Databases
  BY <1>2, SyncState DEF TypeOK
<1>4. next \in Blocks /\ Under(new, pindex) /\ (new = NULL => pindex = NULL) /\ new \in BlocksOrNull
  BY <1>1, <1>2, <1>3, NextSyncBlockIs, ParentIs
<1>5. new \in Chain(pindex) /\ pindex \in Blocks /\ pindex # NULL
  BY <1>2, <1>3, <1>4 DEF Under, Chain, BlocksOrNull
<1>6. CASE RewindAsserts(pindex, new) # ""
  <2>1. RewindAsserts(pindex, new) = "current_tip" BY <1>5, <1>6 DEF RewindAsserts
  <2>2. Fail("current_tip") BY <1>1, <1>6, <2>1 DEF SyncRewind
  <2> QED BY <2>2, FailStep
<1>7. CASE RewindAsserts(pindex, new) = ""
  <2>1. m_muhash = pindex /\ Holds(db, pindex) BY <1>2, <1>3 DEF Position
  <2>2. PICK d : d = CopyHeightIndexToHashIndex(db, new, pindex) OBVIOUS
  <2>3. /\ db' = d /\ syncPc' = "rewind"
        /\ UNCHANGED <<node, tip, known, disk, changes, pending, m_best_block_index, m_synced, m_muhash,
                       pindex, cbPc, cbBlock, reader, failed, stops>>
    BY <1>1, <1>7, <2>2 DEF SyncRewind, chainVars, cbVars
  <2>4. new \in Blocks BY <1>4, <1>5, ChainType, TreeAssumption DEF BlocksOrNull
  <2>5. /\ d \in Databases /\ Sound(d) /\ d.height = db.height /\ d.best = db.best
        /\ \A b \in Blocks : db.hash[b] = b => d.hash[b] = b
        /\ \A a \in Chain(pindex) : nHeight[a] >= nHeight[new] => d.hash[a] = a
    BY SMTT(40), <1>3, <1>5, <2>1, <2>2, <2>4, CopySound
  <2>6. Sound(db)' BY <2>3, <2>5 DEF Sound, Holds
  <2>7. \A c \in Blocks : Kept(c) => Kept(c)' BY <2>3, <2>5 DEF Kept, Chain
  <2>8. NextSyncBlock(pindex)' = next BY <1>1, <2>3 DEF NextSyncBlock
  <2>9. Rewinding' BY <1>1, <1>2, <1>5, <2>3, <2>5, <2>8 DEF Rewinding, Chain, Parent
  <2>10. Position' BY <1>2, <1>3, <2>1, <2>3, <2>5, <2>9 DEF Position, Holds, Under
  <2> QED BY <1>2, <1>3, <2>3, <2>5, <2>6, <2>7, <2>10, SyncKeeps DEF TypeOK, Position
<1> QED BY <1>6, <1>7

LEMMA SyncRewindCommitStep == ASSUME IInv, SyncRewindCommit PROVE IInv'
<1>1. PICK next, new : next = NextSyncBlock(pindex) /\ new = Parent(next) OBVIOUS
<1>2. syncPc = "rewind" BY DEF SyncRewindCommit
<1>3. /\ TypeOK /\ Sound(db) /\ Position /\ ~m_synced /\ cbPc = "idle" /\ pindex \in Blocks
      /\ pindex \in BlocksOrNull /\ tip \in BlocksOrNull /\ db \in Databases
  BY <1>2, SyncState DEF TypeOK
<1>4. /\ m_muhash = pindex /\ Holds(db, pindex) /\ next # NULL /\ new \in Chain(pindex)
      /\ \A a \in Chain(pindex) : nHeight[a] >= nHeight[new] => db.hash[a] = a
  BY <1>1, <1>2, <1>3 DEF Position, Rewinding
<1>5. next \in Blocks BY <1>1, <1>3, <1>4, NextSyncBlockIs
<1>6. /\ m_muhash' = new /\ m_best_block_index' = new /\ db' = Commit(db, new, new)
      /\ pindex' = next /\ syncPc' = "write"
      /\ UNCHANGED <<node, tip, known, disk, changes, pending, m_synced, cbPc, cbBlock, reader,
                     failed, stops>>
  BY <1>1, <1>4 DEF SyncRewindCommit, Reversed, chainVars, cbVars
<1>7. /\ new \in Blocks /\ db' \in Databases /\ Sound(db)' /\ Holds(db', new)
      /\ Under(db'.best, new) /\ \A c \in Blocks : Kept(c) => Kept(c)'
  BY <1>3, <1>4, <1>6, RewindKeeps
<1>8. new # NULL /\ new \in BlocksOrNull /\ next \in BlocksOrNull
  BY <1>5, <1>7, TreeAssumption DEF BlocksOrNull
<1>9. Position'
  BY <1>1, <1>2, <1>3, <1>4, <1>6, <1>7, <1>8 DEF Position, Holds, Under, Parent
<1> QED BY <1>2, <1>6, <1>7, <1>8, <1>9, SyncKeeps

-----------------------------------------------------------------------------
(* The callbacks *)

LEMMA CallbackState ==
  ASSUME IInv, Running
  PROVE  /\ TypeOK /\ Sound(db) /\ Position /\ Queue /\ (m_synced => Following) /\ Promised
         /\ CallbacksDoNotFail /\ db \in Databases /\ m_best_block_index \in BlocksOrNull
         /\ pending \in Seq(Events) /\ m_muhash \in BlocksOrNull
<1>1. TypeOK /\ Sound(db) /\ Position /\ Queue /\ (m_synced => Following) /\ Promised
      /\ CallbacksDoNotFail
  BY DEF IInv
<1> QED BY <1>1 DEF TypeOK, Position

LEMMA UnderWay ==
  ASSUME IInv, cbPc # "idle"
  PROVE  /\ Running /\ m_synced /\ cbBlock \in Blocks /\ syncPc \in {"off", "done"} /\ Heading = cbBlock
<1>1. Running BY DEF IInv, TypeOK, AtRest, Running
<1>2. TypeOK /\ Position BY <1>1, CallbackState
<1> QED BY <1>1, <1>2 DEF Position, TypeOK, BlocksOrNull, Heading

(* A step of the callback under way, which goes where it was heading. *)
LEMMA CallbackKeeps ==
  ASSUME IInv, Running, Heading' = Heading,
         UNCHANGED <<node, tip, known, disk, changes, pending, m_synced, syncPc, pindex, reader, failed, stops>>,
         m_best_block_index' \in BlocksOrNull, m_muhash' \in BlocksOrNull, cbBlock' \in BlocksOrNull,
         cbPc' \in {"idle", "rewind", "append", "best"},
         db' \in Databases, Sound(db)', Position', \A b \in Blocks : Kept(b) => Kept(b)'
  PROVE  IInv'
<1>1. TypeOK /\ Queue /\ Promised /\ CallbacksDoNotFail /\ (m_synced => Following) BY CallbackState
<1>2. TypeOK' BY <1>1 DEF TypeOK, States
<1>3. Queue' /\ (m_synced' => Following') BY <1>1, QueueSame
<1>4. Promised' BY <1>1, PromisedSame
<1>5. CallbacksDoNotFail' /\ Running' BY <1>1 DEF CallbacksDoNotFail, Running
<1> QED BY <1>2, <1>3, <1>4, <1>5 DEF IInv, Running

LEMMA BlockConnectedRewindStep == ASSUME IInv, BlockConnectedRewind PROVE IInv'
<1>1. PICK new, best : new = Parent(cbBlock) /\ best = m_best_block_index OBVIOUS
<1>2. /\ cbPc = "rewind" /\ cbPc' = "append" /\ m_muhash' = Reversed(best, new)
      /\ m_best_block_index' = new /\ db' = Commit(db, new, m_muhash')
      /\ UNCHANGED <<node, tip, known, disk, changes, pending, m_synced, syncPc, pindex, cbBlock, reader,
                     failed, stops>>
  BY <1>1 DEF BlockConnectedRewind, chainVars, syncVars
<1>3. Running /\ m_synced /\ cbBlock \in Blocks /\ syncPc \in {"off", "done"} /\ Heading = cbBlock
  BY <1>2, UnderWay
<1>4. TypeOK /\ Sound(db) /\ Position /\ db \in Databases /\ best \in BlocksOrNull
  BY <1>1, <1>3, CallbackState
<1>5. /\ new \in Chain(best) /\ m_muhash = best /\ Holds(db, best)
      /\ \A a \in Chain(best) : nHeight[a] >= nHeight[new] => db.hash[a] = a
  BY <1>1, <1>2, <1>3, <1>4 DEF Position
<1>6. best \in Blocks BY <1>4, <1>5 DEF BlocksOrNull, Chain
<1>7. m_muhash' = new BY <1>2, <1>5 DEF Reversed
<1>8. /\ new \in Blocks /\ db' \in Databases /\ Sound(db)' /\ Holds(db', new)
      /\ Under(db'.best, new) /\ \A c \in Blocks : Kept(c) => Kept(c)'
  BY <1>2, <1>4, <1>5, <1>6, <1>7, RewindKeeps
<1>9. new # NULL /\ new \in BlocksOrNull /\ cbBlock # NULL /\ cbBlock \in BlocksOrNull
  BY <1>3, <1>8, TreeAssumption DEF BlocksOrNull
<1>10. Position'
  BY <1>1, <1>2, <1>3, <1>7, <1>8, <1>9 DEF Position, Holds, Under, Parent
<1>11. Heading' = Heading BY <1>2, <1>3 DEF Heading
<1> QED BY <1>2, <1>3, <1>7, <1>8, <1>9, <1>10, <1>11, CallbackKeeps

LEMMA BlockConnectedAppendStep == ASSUME IInv, BlockConnectedAppend PROVE IInv'
<1>1. cbPc = "append" BY DEF BlockConnectedAppend
<1>2. Running /\ m_synced /\ cbBlock \in Blocks /\ syncPc \in {"off", "done"} /\ Heading = cbBlock
  BY <1>1, UnderWay
<1>3. TypeOK /\ Sound(db) /\ Position /\ m_best_block_index \in BlocksOrNull BY <1>2, CallbackState
<1>4. m_muhash = Parent(cbBlock) /\ Holds(db, m_muhash) /\ Under(db.best, m_muhash)
      /\ m_best_block_index = Parent(cbBlock)
  BY <1>1, <1>2, <1>3 DEF Position
<1>5. CanAppend(cbBlock) BY <1>2, <1>3, <1>4, AppendKeeps
<1>6. /\ CustomAppend(cbBlock) /\ cbPc' = "best"
      /\ UNCHANGED <<node, tip, known, disk, changes, pending, m_best_block_index, m_synced, syncPc,
                     pindex, cbBlock, reader, failed, stops>>
  BY <1>5 DEF BlockConnectedAppend, chainVars, syncVars
<1>7. /\ m_muhash' = cbBlock /\ db' \in Databases /\ Sound(db)' /\ Holds(db', cbBlock)
      /\ Under(db'.best, cbBlock) /\ \A c \in Blocks : Kept(c) => Kept(c)'
  BY <1>2, <1>3, <1>4, <1>6, AppendKeeps
<1>8. cbBlock # NULL /\ cbBlock \in BlocksOrNull BY <1>2, TreeAssumption DEF BlocksOrNull
<1>9. Position' BY <1>2, <1>4, <1>6, <1>7, <1>8 DEF Position, Holds, Under, Parent
<1>10. Heading' = Heading BY <1>2, <1>6 DEF Heading
<1> QED BY <1>2, <1>3, <1>6, <1>7, <1>8, <1>9, <1>10, CallbackKeeps

LEMMA BlockConnectedBestStep == ASSUME IInv, BlockConnectedBest PROVE IInv'
<1>1. /\ cbPc = "best" /\ cbPc' = "idle" /\ cbBlock' = NULL /\ m_best_block_index' = cbBlock
      /\ UNCHANGED <<node, tip, known, disk, changes, pending, m_synced, m_muhash, db, syncPc, pindex,
                     reader, failed, stops>>
  BY DEF BlockConnectedBest, chainVars, syncVars
<1>2. Running /\ m_synced /\ cbBlock \in Blocks /\ syncPc \in {"off", "done"} /\ Heading = cbBlock
  BY <1>1, UnderWay
<1>3. TypeOK /\ Sound(db) /\ Position /\ db \in Databases /\ m_muhash \in BlocksOrNull
  BY <1>2, CallbackState
<1>4. m_muhash = cbBlock BY <1>1, <1>3 DEF Position
<1>5. cbBlock \in BlocksOrNull /\ NULL \in BlocksOrNull BY <1>2 DEF BlocksOrNull
<1>6. Position' BY <1>1, <1>2, <1>3, <1>4, <1>5 DEF Position, Holds, Under
<1>7. Sound(db)' BY <1>1, <1>3 DEF Sound, Holds
<1>8. Heading' = Heading BY <1>1, <1>2 DEF Heading
<1> QED BY <1>1, <1>2, <1>3, <1>5, <1>6, <1>7, <1>8, CallbackKeeps, KeptSame

(* The first callback of the queue is taken off. *)
LEMMA PopPromised ==
  ASSUME TypeOK, Queue, Promised, pending # <<>>, pending' = Tail(pending), tip' = tip,
         UNCHANGED <<reader, m_synced>>, \A b \in Blocks : Kept(b) => Kept(b)',
         m_synced => \A t : \A n \in Nat \ {0} :
                       Leads(t, n + 1) /\ Fits(t, n + 1) => Leads(t, n)' /\ Fits(t, n)'
  PROVE  Promised'
<1>0. pending \in Seq(Events) BY DEF TypeOK
<1>1. PICK rb : rb = reader.block OBVIOUS
<1>2. reader.pc # "idle" => rb \in Blocks
  BY <1>1 DEF TypeOK, Promised, BlocksOrNull
<1>3. reader'.block = rb /\ reader'.pc = reader.pc BY <1>1
<1>4. reader.pc = "true" => Kept(reader.block)'
  <2>1. reader.pc = "true" => Kept(rb)' BY <1>1, <1>2 DEF Promised
  <2> QED BY <1>3, <2>1 DEF Kept
<1>5. \A i \in DOMAIN pending' :
        i + 1 \in DOMAIN pending /\ i \in Nat \ {0} /\ pending'[i] = pending[i + 1]
  BY <1>0, PopQueue
<1>6. ASSUME reader.pc = "wait", NEW i \in DOMAIN pending', pending'[i].type = "sync"
      PROVE  Kept(reader.block)' \/ (Leads(reader.block, i)' /\ Fits(reader.block, i)')
  <2>1. Kept(rb) \/ (Leads(rb, i + 1) /\ Fits(rb, i + 1)) BY <1>1, <1>5, <1>6 DEF Promised
  <2>2. m_synced /\ i \in Nat \ {0} BY <1>5, <1>6 DEF Promised
  <2>3. Kept(rb)' \/ (Leads(rb, i)' /\ Fits(rb, i)') BY <1>2, <1>6, <2>1, <2>2
  <2> QED BY <1>3, <2>3 DEF Kept, Leads, Fits
<1> QED BY <1>1, <1>3, <1>4, <1>5, <1>6 DEF Promised

LEMMA FirstIs ==
  ASSUME pending \in Seq(Events), pending # <<>>
  PROVE  /\ 1 \in DOMAIN pending /\ Head(pending) = pending[1] /\ NoneBetween(0, 1)
         /\ \A t : Fits(t, 1) => Under(t, Heading)
<1>1. Len(pending) \in Nat \ {0} /\ DOMAIN pending = 1..Len(pending) /\ Head(pending) = pending[1]
  BY TailIs
<1>2. \A k \in DOMAIN pending : ~(k < 1) BY SMTT(30), <1>1
<1> QED BY SMTT(30), <1>1, <1>2 DEF NoneBetween, Fits

(* A callback that leaves the index where it is. *)
LEMMA PopStep ==
  ASSUME IInv, Running, pending # <<>>, pending' = Tail(pending), cbPc = "idle",
         m_synced => (IsConnected(1) => ~Under(Parent(pending[1].block), m_best_block_index)),
         UNCHANGED <<node, tip, known, disk, changes, m_best_block_index, m_synced, m_muhash, syncPc, pindex,
                     cbPc, cbBlock, failed, stops>>,
         db' \in Databases, Sound(db)', Position', \A b \in Blocks : Kept(b) => Kept(b)',
         reader' = reader \/ (reader' \in [pc : {"idle", "wait", "true"}, block : BlocksOrNull]
                              /\ reader'.pc = "true" /\ reader'.block # NULL /\ Kept(reader.block)')
  PROVE  IInv'
<1>1. TypeOK /\ Queue /\ Promised /\ CallbacksDoNotFail /\ (m_synced => Following)
      /\ pending \in Seq(Events)
  BY CallbackState
<1>2. Heading' = Heading /\ Heading = m_best_block_index BY DEF Heading
<1>3. Queue' /\ pending' \in Seq(Events) BY <1>1, PopQueue
<1>4. TypeOK' BY <1>1, <1>3 DEF TypeOK
<1>5. m_synced => /\ Following'
                  /\ \A t : \A n \in Nat : Fits(t, n + 1) => Fits(t, n)'
  BY <1>1, <1>2, PopSkipped
<1>6. \A t : \A n \in Nat : Leads(t, n + 1) => Leads(t, n)' BY <1>1, PopQueue
<1>7. Promised'
  <2>1. CASE reader' = reader BY <1>1, <1>5, <1>6, <2>1, PopPromised
  <2>2. CASE reader'.pc = "true" /\ reader'.block # NULL /\ Kept(reader.block)'
    BY <2>2 DEF Promised
  <2> QED BY <2>1, <2>2
<1>8. CallbacksDoNotFail' /\ Running' BY <1>1 DEF CallbacksDoNotFail, Running
<1> QED BY <1>3, <1>4, <1>5, <1>7, <1>8 DEF IInv, Running

LEMMA ChainStateFlushedStep == ASSUME IInv, ChainStateFlushed PROVE IInv'
<1>1. PICK b : b = Head(pending).block OBVIOUS
<1>2. Running /\ cbPc = "idle" /\ pending # <<>> /\ Head(pending).type = "flushed"
  BY DEF ChainStateFlushed, Callback
<1>3. /\ TypeOK /\ Sound(db) /\ Position /\ (m_synced => Following) /\ db \in Databases
      /\ pending \in Seq(Events) /\ m_muhash \in BlocksOrNull
  BY <1>2, CallbackState
<1>4. 1 \in DOMAIN pending /\ Head(pending) = pending[1] /\ NoneBetween(0, 1) BY <1>2, <1>3, FirstIs
<1>5. ~(m_synced /\ m_best_block_index = NULL)
  BY <1>2, <1>3, <1>4 DEF Following, Heading
<1>6. /\ pending' = Tail(pending)
      /\ db' = IF m_synced /\ b \in Chain(m_best_block_index)
               THEN Commit(db, m_best_block_index, m_muhash) ELSE db
      /\ UNCHANGED <<node, tip, known, disk, changes, m_best_block_index, m_synced, m_muhash, syncPc, pindex,
                     cbPc, cbBlock, reader, failed, stops>>
  BY <1>1, <1>5 DEF ChainStateFlushed, chainVars, syncVars, cbVars
<1>7. ~IsConnected(1) BY <1>2, <1>4 DEF IsConnected
<1>8. CASE m_synced /\ b \in Chain(m_best_block_index)
  <2>1. m_muhash = m_best_block_index BY <1>2, <1>3, <1>8 DEF Position
  <2>2. db' = Commit(db, m_muhash, m_muhash) BY <1>6, <1>8, <2>1
  <2>3. /\ db' \in Databases /\ Sound(db)' /\ Holds(db', m_muhash) /\ Under(db'.best, m_muhash)
        /\ \A c \in Blocks : Kept(c) => Kept(c)'
    BY <1>3, <1>6, <2>2, SyncCommits
  <2>4. syncPc \in {"off", "done"} /\ syncPc' = syncPc BY <1>3, <1>6, <1>8 DEF Position
  <2>5. Position' BY <1>2, <1>3, <1>6, <1>8, <2>1, <2>3, <2>4 DEF Position, Holds, Under
  <2> QED BY <1>2, <1>6, <1>7, <2>3, <2>5, PopStep
<1>9. CASE ~(m_synced /\ b \in Chain(m_best_block_index))
  <2>1. db' = db BY <1>6, <1>9
  <2>2. Position' BY <1>3, <1>6, <2>1, PositionSame
  <2>3. Sound(db)' BY <1>3, <2>1 DEF Sound, Holds
  <2> QED BY <1>2, <1>3, <1>6, <1>7, <2>1, <2>2, <2>3, PopStep, KeptSame
<1> QED BY <1>8, <1>9

LEMMA SyncWithValidationStep == ASSUME IInv, SyncWithValidationInterfaceQueue PROVE IInv'
<1>1. /\ Running /\ cbPc = "idle" /\ pending # <<>> /\ Head(pending).type = "sync"
      /\ pending' = Tail(pending) /\ reader' = [reader EXCEPT !.pc = "true"]
      /\ UNCHANGED <<node, tip, known, disk, changes, m_best_block_index, m_synced, m_muhash, db, syncPc,
                     pindex, cbPc, cbBlock, failed, stops>>
  BY DEF SyncWithValidationInterfaceQueue, Callback, chainVars, syncVars, cbVars, indexVars
<1>2. TypeOK /\ Sound(db) /\ Position /\ Promised /\ db \in Databases /\ pending \in Seq(Events)
      /\ m_best_block_index \in BlocksOrNull
  BY <1>1, CallbackState
<1>3. 1 \in DOMAIN pending /\ Head(pending) = pending[1] /\ \A t : Fits(t, 1) => Under(t, Heading)
  BY <1>1, <1>2, FirstIs
<1>4. ~IsConnected(1) /\ reader.pc # "idle" BY <1>1, <1>2, <1>3 DEF IsConnected, Promised
<1>5. PICK rb : rb = reader.block OBVIOUS
<1>6. rb \in Blocks /\ rb # NULL BY <1>2, <1>4, <1>5 DEF TypeOK, Promised, BlocksOrNull
<1>7. Kept(rb)
  <2>1. CASE reader.pc = "true" BY <1>2, <1>5, <2>1 DEF Promised
  <2>2. CASE reader.pc = "wait" /\ ~Kept(rb)
    <3>1. Fits(rb, 1) /\ m_synced BY <1>1, <1>2, <1>3, <1>5, <2>2 DEF Promised
    <3>2. rb \in Chain(m_best_block_index) BY <1>1, <1>3, <1>6, <3>1 DEF Under, Heading
    <3> QED BY <1>2, <1>6, <3>1, <3>2, BestKept
  <2> QED BY <1>2, <1>4, <2>1, <2>2 DEF TypeOK
<1>8. Kept(rb)' BY <1>1, <1>6, <1>7, KeptSame
<1>9. /\ reader' \in [pc : {"idle", "wait", "true"}, block : BlocksOrNull]
      /\ reader'.pc = "true" /\ reader'.block = rb
  BY <1>1, <1>2, <1>5 DEF TypeOK
<1>10. Kept(reader.block)' BY <1>8, <1>9 DEF Kept
<1>11. Position' /\ Sound(db)' BY <1>1, <1>2, PositionSame DEF Sound, Holds
<1> QED BY <1>1, <1>2, <1>4, <1>6, <1>9, <1>10, <1>11, PopStep, KeptSame

LEMMA BlockConnectedStep == ASSUME IInv, BlockConnected PROVE IInv'
<1>1. PICK b, best : b = Head(pending).block /\ best = m_best_block_index OBVIOUS
<1>2. Running /\ cbPc = "idle" /\ pending # <<>> /\ Head(pending).type = "connected"
  BY DEF BlockConnected, Callback
<1>3. /\ TypeOK /\ Sound(db) /\ Position /\ Queue /\ Promised /\ (m_synced => Following)
      /\ CallbacksDoNotFail /\ db \in Databases /\ best \in BlocksOrNull
      /\ pending \in Seq(Events) /\ m_muhash \in BlocksOrNull
  BY <1>1, <1>2, CallbackState
<1>4. 1 \in DOMAIN pending /\ Head(pending) = pending[1] /\ NoneBetween(0, 1) BY <1>2, <1>3, FirstIs
<1>5. IsConnected(1) /\ pending[1].block = b /\ b \in Blocks
  BY <1>1, <1>2, <1>3, <1>4, EventsAre DEF IsConnected
<1>6. Ignored(b) <=> ~m_synced \/ (best # NULL /\ ~Under(Parent(b), best))
  BY <1>1, <1>3, <1>5, IgnoredIs
<1>7. Parent(b) \in BlocksOrNull /\ (Parent(b) = NULL <=> b = Genesis) /\ b # NULL
      /\ b \in BlocksOrNull
  BY <1>5, ParentIs, TreeAssumption DEF BlocksOrNull
<1>8. ASSUME ~Ignored(b), best = NULL PROVE b = Genesis
  BY <1>1, <1>2, <1>3, <1>4, <1>5, <1>6, <1>8 DEF Following, Heading
<1>9. CASE ~Ignored(b) /\ ~((best = NULL) <=> (b = Genesis))
  <2>1. best # NULL BY <1>8, <1>9
  <2>2. (best = NULL) # (b = Genesis) BY <1>9
  <2>3. Fail("genesis") BY <1>1, <1>9, <2>1, <2>2 DEF BlockConnected
  <2> QED BY <2>3, FailStep
<1>10. CASE Ignored(b)
  <2>1. /\ pending' = Tail(pending)
        /\ UNCHANGED <<node, tip, known, disk, changes, m_best_block_index, m_synced, m_muhash, db, syncPc,
                       pindex, cbPc, cbBlock, reader, failed, stops>>
    BY <1>1, <1>10 DEF BlockConnected, chainVars, syncVars, cbVars
  <2>2. Position' /\ Sound(db)' BY <1>3, <2>1, PositionSame DEF Sound, Holds
  <2>3. m_synced => ~Under(Parent(pending[1].block), m_best_block_index)
    BY <1>1, <1>5, <1>6, <1>10
  <2> QED BY <1>2, <1>3, <2>1, <2>2, <2>3, PopStep, KeptSame
<1>11. CASE ~Ignored(b) /\ ((best = NULL) <=> (b = Genesis))
  <2>1. m_synced /\ syncPc \in {"off", "done"} /\ m_muhash = best
    BY <1>1, <1>2, <1>3, <1>6, <1>11 DEF Position
  <2>2. best # Parent(b) => Parent(b) \in Chain(best) /\ best \in Blocks /\ Parent(b) \in Blocks
    BY <1>3, <1>6, <1>7, <1>11 DEF Under, Chain, BlocksOrNull
  <2>3. best # Parent(b) => RewindAsserts(best, Parent(b)) = "" BY <1>1, <2>2 DEF RewindAsserts
  <2>4. /\ pending' = Tail(pending) /\ cbBlock' = b
        /\ cbPc' = (IF best = Parent(b) THEN "append" ELSE "rewind")
        /\ db' = IF best = Parent(b) THEN db ELSE CopyHeightIndexToHashIndex(db, Parent(b), best)
        /\ UNCHANGED <<node, tip, known, disk, changes, m_best_block_index, m_synced, m_muhash, syncPc,
                       pindex, reader, failed, stops>>
    BY <1>1, <1>11, <2>3 DEF BlockConnected, chainVars, syncVars
  <2>5. PICK d : d = CopyHeightIndexToHashIndex(db, Parent(b), best) OBVIOUS
  <2>6. Holds(db, best) /\ Under(db.best, best) BY <1>3, <2>1 DEF Position
  <2>7. ASSUME best # Parent(b)
        PROVE  /\ d \in Databases /\ Sound(d) /\ d.height = db.height /\ d.best = db.best
               /\ \A c \in Blocks : db.hash[c] = c => d.hash[c] = c
               /\ \A a \in Chain(best) : nHeight[a] >= nHeight[Parent(b)] => d.hash[a] = a
    <3>1. /\ db \in Databases /\ Sound(db) /\ Holds(db, best)
          /\ best \in Blocks /\ Parent(b) \in Blocks
      BY <1>3, <2>2, <2>6, <2>7
    <3>2. LET e == CopyHeightIndexToHashIndex(db, Parent(b), best) IN
          /\ e \in Databases /\ Sound(e) /\ e.height = db.height /\ e.best = db.best
          /\ \A c \in Blocks : db.hash[c] = c => e.hash[c] = c
          /\ \A a \in Chain(best) : nHeight[a] >= nHeight[Parent(b)] => e.hash[a] = a
      BY <3>1, CopySound
    <3> QED BY <2>5, <3>2
  <2>8. db' = IF best = Parent(b) THEN db ELSE d BY <2>4, <2>5
  <2>9. /\ db' \in Databases /\ db'.height = db.height /\ db'.best = db.best
        /\ \A c \in Blocks : db.hash[c] = c => db'.hash[c] = c
    BY <1>3, <2>7, <2>8
  <2>10. Sound(db)' BY <1>3, <2>7, <2>8 DEF Sound, Holds
  <2>11. \A c \in Blocks : Kept(c) => Kept(c)' BY <2>4, <2>9 DEF Kept, Chain
  <2>12. Position'
    <3>1. m_muhash' = best /\ Holds(db', best) /\ Under(db'.best, best)
      BY <2>1, <2>4, <2>6, <2>9 DEF Holds
    <3>2. cbPc' = "rewind" => /\ Parent(b) \in Chain(best)
                              /\ \A a \in Chain(best) : nHeight[a] >= nHeight[Parent(b)] => db'.hash[a] = a
      BY <2>2, <2>4, <2>7, <2>8
    <3> QED BY <1>1, <1>3, <1>7, <2>1, <2>4, <3>1, <3>2 DEF Position, Holds, Under, Parent
  <2>13. Heading' = pending[1].block BY <1>5, <2>4 DEF Heading
  <2>14. Queue' /\ pending' \in Seq(Events)
         /\ \A t : \A n \in Nat : Leads(t, n + 1) => Leads(t, n)'
    BY <1>2, <1>3, <2>4, PopQueue
  <2>15. Following' /\ \A t : \A n \in Nat \ {0} : Leads(t, n + 1) => Fits(t, n)'
    BY <1>2, <1>3, <1>5, <2>4, <2>13, PopTaken
  <2>16. Promised' BY <1>2, <1>3, <2>4, <2>11, <2>14, <2>15, PopPromised
  <2>17. TypeOK' BY <1>3, <1>7, <2>4, <2>9, <2>14 DEF TypeOK
  <2>18. CallbacksDoNotFail' /\ Running' BY <1>2, <1>3, <2>4 DEF CallbacksDoNotFail, Running
  <2> QED BY <2>10, <2>12, <2>14, <2>15, <2>16, <2>17, <2>18 DEF IInv, Running
<1> QED BY <1>9, <1>10, <1>11

-----------------------------------------------------------------------------
(* The invariant and what it says *)

LEMMA StutterStep == ASSUME IInv, UNCHANGED vars PROVE IInv'
<1> USE DEF vars, chainVars, indexVars, syncVars, cbVars
<1>1. TypeOK' BY DEF IInv, TypeOK
<1>2. Sound(db)' /\ CallbacksDoNotFail' /\ (AtRest => AtRest') /\ Heading' = Heading
  BY DEF IInv, Sound, Holds, CallbacksDoNotFail, AtRest, Heading
<1>3. Running => Position' /\ Queue' /\ (m_synced' => Following') /\ Promised'
  BY <1>2, PositionSame, QueueSame, PromisedSame, KeptSame DEF IInv
<1> QED BY <1>1, <1>2, <1>3 DEF IInv, Running

LEMMA StepIInv == IInv /\ [Next]_vars => IInv'
<1> SUFFICES ASSUME IInv, [Next]_vars PROVE IInv' OBVIOUS
<1>1. CASE \E t \in Blocks : ChangeTip(t) BY <1>1, ChangeTipStep
<1>2. CASE FlushBlockIndex \/ FlushStateToDisk \/ Shutdown
  BY <1>2, FlushBlockIndexStep, FlushStateToDiskStep, ShutdownStep
<1>3. CASE Crash \/ Exit BY <1>3, StopStep
<1>4. CASE Start \/ StartBackgroundSync BY <1>4, StartStep, StartBackgroundSyncStep
<1>5. CASE ThreadSync
  BY <1>5, SyncInterruptedStep, SyncFinishedStep, SyncNextStep, SyncRewindStep,
     SyncRewindCommitStep, SyncWriteStep, SyncAppendStep DEF ThreadSync
<1>6. CASE Callbacks
  BY <1>6, BlockConnectedStep, BlockConnectedRewindStep, BlockConnectedAppendStep,
     BlockConnectedBestStep, ChainStateFlushedStep, SyncWithValidationStep DEF Callbacks
<1>7. CASE BlockUntilSyncedToCurrentChain BY <1>7, BlockUntilSyncedStep
<1>8. CASE UNCHANGED vars BY <1>8, StutterStep
<1> QED BY <1>1, <1>2, <1>3, <1>4, <1>5, <1>6, <1>7, <1>8 DEF Next

(* What LookUpOne finds in a sound database. *)
LEMMA LookUpOneIs ==
  ASSUME NEW d \in Databases, Sound(d), NEW b \in Blocks
  PROVE  /\ LookUpOne(d, b) \in {NULL, b}
         /\ d.height[nHeight[b]].block = b => LookUpOne(d, b) = b
         /\ d.hash[b] = b /\ d.height[nHeight[b]].block # NULL => LookUpOne(d, b) = b
  BY HeightsOf, TreeAssumption DEF LookUpOne, Sound

LEMMA IInvSays ==
  ASSUME IInv PROVE EntriesAreRight /\ CommitIsConsistent /\ SyncedIsServed /\ CallbacksDoNotFail
<1>1. TypeOK /\ Sound(db) /\ db \in Databases /\ CallbacksDoNotFail BY DEF IInv, TypeOK
<1>2. m_muhash # Corrupt
  <2>1. m_muhash \in BlocksOrNull
    BY <1>1 DEF IInv, TypeOK, AtRest, Running, Position, BlocksOrNull
  <2> QED BY <2>1, IndexAssumption DEF BlocksOrNull
<1>3. EntriesAreRight BY <1>1, <1>2, LookUpOneIs DEF EntriesAreRight, Sound
<1>4. CommitIsConsistent
  <2> SUFFICES ASSUME db.best # NULL PROVE db.muhash = db.best /\ LookUpOne(db, db.best) = db.best
    BY DEF CommitIsConsistent
  <2>1. db.best \in Blocks /\ db.best \in BlocksOrNull BY <1>1 DEF Databases, BlocksOrNull
  <2>2. db.height[nHeight[db.best]].block = db.best BY <1>1, <2>1, ChainType DEF Sound, Holds
  <2> QED BY <1>1, <2>1, <2>2, LookUpOneIs DEF Sound
<1>5. SyncedIsServed
  <2> SUFFICES ASSUME reader.pc = "true" PROVE LookUpOne(db, reader.block) = reader.block
    BY DEF SyncedIsServed
  <2>1. Running
    <3>1. AtRest => reader.pc = "idle" BY SMTT(30) DEF AtRest, NoReader
    <3>2. node \in {"down", "refused"} => AtRest BY DEF IInv
    <3> QED BY <1>1, <3>1, <3>2 DEF TypeOK, Running
  <2>2. Position /\ Promised BY <2>1 DEF IInv
  <2>3. reader.block \in Blocks /\ Kept(reader.block)
    BY <1>1, <2>2 DEF Promised, TypeOK, BlocksOrNull
  <2>4. Holds(db, m_muhash) BY <2>2 DEF Position
  <2> QED BY <1>1, <2>3, <2>4, LookUpOneIs DEF Kept, Holds
<1> QED BY <1>1, <1>3, <1>4, <1>5

LEMMA Invariance == Spec => []IInv
  BY InitIInv, StepIInv, PTL DEF Spec

(* Every block the index answers for has its own entry and m_muhash is     *)
(* never a mixture of chains (BaseIndex::Rewind, CoinStatsIndex::          *)
(* CustomAppend and ReverseBlock), however the sync thread, the callbacks, *)
(* reorganisations, shutdowns and crashes interleave.                      *)
THEOREM EntriesRight == Spec => []EntriesAreRight
<1>1. IInv => EntriesAreRight BY IInvSays
<1> QED BY <1>1, Invariance, PTL

(* What BaseIndex::Commit and CustomCommit leave in the database is always *)
(* what CustomInit accepts when the node is started again.                 *)
THEOREM CommitConsistent == Spec => []CommitIsConsistent
<1>1. IInv => CommitIsConsistent BY IInvSays
<1> QED BY <1>1, Invariance, PTL

(* BlockUntilSyncedToCurrentChain returns true only if the tip of the call *)
(* is in the index, and LookUpOne finds it from then on.                   *)
THEOREM SyncedServed == Spec => []SyncedIsServed
<1>1. IInv => SyncedIsServed BY IInvSays
<1> QED BY <1>1, Invariance, PTL

(* BlockConnected and ChainStateFlushed never meet the fatal errors and    *)
(* assertions that guard them, but for the two that are named.             *)
THEOREM NoCallbackFails == Spec => []CallbacksDoNotFail
<1>1. IInv => CallbacksDoNotFail BY IInvSays
<1> QED BY <1>1, Invariance, PTL

-----------------------------------------------------------------------------
(* A node that has a chain when the index is enabled *)

LEMMA EndedHasChain ==
  ASSUME HasChain, NEW why \in {"", "current_tip", "new_tip", "fatal", "null"}, Ended(why), disk' = disk
  PROVE  HasChain'
<1>1. failed' = why /\ tip' = disk.tip /\ ~m_synced' /\ pending' = <<>> BY DEF Ended
<1>2. why # "genesis" OBVIOUS
<1>3. \A i \in DOMAIN pending' : FALSE BY <1>1, NoEvents
<1> QED BY <1>1, <1>2, <1>3 DEF HasChain

LEMMA StepHasChain == ASSUME IInv, HasChain, [Next]_vars PROVE HasChain'
<1> USE DEF chainVars, indexVars, syncVars, cbVars
<1>0. tip # NULL /\ disk.tip # NULL /\ failed # "genesis" BY DEF HasChain
<1>1. ASSUME NEW t \in Blocks, ChangeTip(t) PROVE HasChain'
  <2>1. node = "up" /\ tip' = t /\ pending' = pending \o Connected(tip, t)
        /\ UNCHANGED <<disk, failed, m_synced, m_best_block_index, cbPc, cbBlock>>
    BY <1>1 DEF ChangeTip
  <2>2. TypeOK /\ Queue BY <2>1 DEF IInv, Running
  <2>3. pending \in Seq(Events) /\ tip \in BlocksOrNull /\ Heading \in BlocksOrNull
        /\ Heading' = Heading
    BY <2>1, <2>2 DEF TypeOK, Heading
  <2>4. \A i \in DOMAIN pending' : IsConnected(i)' => pending'[i].block # Genesis
    BY <2>1, <2>2, <2>3, ConcatQueue DEF HasChain
  <2> QED BY <2>1, <2>4, TreeAssumption DEF HasChain
<1>2. CASE FlushBlockIndex \/ StartBackgroundSync \/ UNCHANGED vars
  <2>1. UNCHANGED <<tip, pending, failed, m_synced, m_best_block_index>> /\ disk'.tip = disk.tip
    BY <1>2 DEF FlushBlockIndex, StartBackgroundSync, vars, IInv, TypeOK
  <2> QED BY <2>1 DEF HasChain, IsConnected
<1>3. CASE FlushStateToDisk \/ Shutdown \/ BlockUntilSyncedToCurrentChain
  <2>1. /\ node = "up" /\ tip' = tip /\ failed' = failed /\ disk'.tip # NULL
        /\ UNCHANGED <<m_synced, m_best_block_index>>
    <3>1. CASE FlushStateToDisk BY <1>0, <3>1 DEF FlushStateToDisk
    <3>2. CASE Shutdown BY SMTT(30), <1>0, <3>2 DEF Shutdown
    <3>3. CASE BlockUntilSyncedToCurrentChain BY <1>0, <3>3 DEF BlockUntilSyncedToCurrentChain
    <3> QED BY <1>3, <3>1, <3>2, <3>3
  <2>2. \/ pending' = pending
        \/ \E e \in Events : e.type # "connected" /\ pending' = Append(pending, e)
    <3>1. [type |-> "sync"] \in Events /\ [type |-> "sync"].type # "connected" BY DEF Events
    <3>2. tip \in Blocks BY <1>0 DEF IInv, TypeOK, BlocksOrNull
    <3>3. [type |-> "flushed", block |-> tip] \in Events
          /\ [type |-> "flushed", block |-> tip].type # "connected"
      BY <3>2 DEF Events
    <3> QED BY <1>0, <1>3, <3>1, <3>3 DEF FlushStateToDisk, Shutdown, BlockUntilSyncedToCurrentChain
  <2>3. \A i \in DOMAIN pending' : IsConnected(i)' => pending'[i].block # Genesis
    <3>1. CASE pending' = pending BY <3>1 DEF HasChain, IsConnected
    <3>2. CASE \E e \in Events : e.type # "connected" /\ pending' = Append(pending, e)
      <4>1. PICK e \in Events : e.type # "connected" /\ pending' = Append(pending, e) BY <3>2
      <4>2. pending \in Seq(Events) /\ Queue BY <2>1 DEF IInv, Running, TypeOK
      <4> QED BY <2>1, <4>1, <4>2, AppendQueue DEF HasChain, IsConnected
    <3> QED BY <2>2, <3>1, <3>2
  <2> QED BY <1>0, <2>1, <2>3 DEF HasChain
<1>4. CASE Crash \/ Exit BY <1>4, EndedHasChain DEF Crash, Exit
<1>5. CASE Start
  <2>1. UNCHANGED <<tip, disk, pending, failed>> BY <1>5 DEF Start
  <2>2. m_synced' => m_best_block_index' # NULL BY <1>0, <1>5 DEF Start, HasChain
  <2> QED BY <1>0, <2>1, <2>2 DEF HasChain, IsConnected
<1>6. CASE ThreadSync
  <2>0. syncPc \in {"loop", "rewind", "write", "append"}
    BY <1>6
    DEF ThreadSync, SyncInterrupted, SyncFinished, SyncNext, SyncRewind, SyncRewindCommit, SyncWrite,
        SyncAppend
  <2>1. ~m_synced /\ TypeOK /\ pindex \in BlocksOrNull BY <2>0, SyncState
  <2>2. CASE SyncFinished
    <3>1. UNCHANGED <<tip, disk, pending, failed>> /\ m_best_block_index' = pindex
          /\ NextSyncBlock(pindex) = NULL
      BY <2>2 DEF SyncFinished
    <3>2. Under(tip, pindex) BY <2>1, <3>1, NextSyncBlockIs DEF TypeOK
    <3>3. pindex # NULL BY <1>0, <3>2 DEF Under, Chain
    <3> QED BY <1>0, <3>1, <3>3 DEF HasChain, IsConnected
  <2>3. CASE \E why \in {"current_tip", "new_tip", "fatal"} : Fail(why)
    BY <2>3, EndedHasChain DEF Fail
  <2>4. CASE UNCHANGED <<tip, disk, pending, failed, m_synced>>
    BY <1>0, <2>1, <2>4 DEF HasChain, IsConnected
  <2>5. SyncRewind => \/ \E why \in {"current_tip", "new_tip", "fatal"} : Fail(why)
                      \/ UNCHANGED <<tip, disk, pending, failed, m_synced>>
    BY DEF SyncRewind, RewindAsserts
  <2> QED BY <1>6, <2>2, <2>3, <2>4, <2>5
    DEF ThreadSync, SyncInterrupted, SyncNext, SyncRewindCommit, SyncWrite, SyncAppend
<1>7. CASE Callbacks
  <2>1. Running
    BY <1>7, UnderWay
    DEF Callbacks, BlockConnected, BlockConnectedRewind, BlockConnectedAppend, BlockConnectedBest,
        ChainStateFlushed, SyncWithValidationInterfaceQueue, Callback
  <2>2. TypeOK /\ Position /\ Queue /\ pending \in Seq(Events) /\ m_best_block_index \in BlocksOrNull
    BY <2>1, CallbackState
  <2>3. CASE BlockConnectedRewind \/ BlockConnectedBest
    <3>1. UNCHANGED <<tip, disk, pending, failed, m_synced>> /\ m_best_block_index' # NULL
      BY <2>2, <2>3, ChainType DEF BlockConnectedRewind, BlockConnectedBest, Position
    <3> QED BY <1>0, <3>1 DEF HasChain, IsConnected
  <2>4. CASE \E why \in {"", "current_tip", "new_tip", "fatal", "null"} : Fail(why)
    BY <2>4, EndedHasChain DEF Fail
  <2>5. CASE UNCHANGED <<tip, disk, failed, m_synced, m_best_block_index, pending>>
    BY <2>5 DEF HasChain, IsConnected
  <2>6. CASE UNCHANGED <<tip, disk, failed, m_synced, m_best_block_index>> /\ pending # <<>>
             /\ pending' = Tail(pending)
    <3>1. \A i \in DOMAIN pending' : IsConnected(i)' => pending'[i].block # Genesis
      BY <2>2, <2>6, PopQueue DEF HasChain, IsConnected
    <3> QED BY <2>6, <3>1 DEF HasChain
  <2>7. ASSUME BlockConnected
        PROVE  \/ \E why \in {"", "current_tip", "new_tip", "fatal", "null"} : Fail(why)
               \/ UNCHANGED <<tip, disk, failed, m_synced, m_best_block_index>> /\ pending # <<>>
                  /\ pending' = Tail(pending)
    <3>1. pending # <<>> /\ Head(pending).type = "connected" BY <2>7 DEF BlockConnected, Callback
    <3>2. 1 \in DOMAIN pending /\ Head(pending) = pending[1] BY <2>2, <3>1, FirstIs
    <3>3. Head(pending).block # Genesis BY <3>1, <3>2 DEF HasChain, IsConnected
    <3> QED BY <2>7, <3>1, <3>3 DEF BlockConnected, RewindAsserts
  <2> QED BY <1>7, <2>3, <2>4, <2>5, <2>6, <2>7
    DEF Callbacks, BlockConnectedAppend, ChainStateFlushed, SyncWithValidationInterfaceQueue, Callback
<1> QED BY <1>1, <1>2, <1>3, <1>4, <1>5, <1>6, <1>7 DEF Next

(* If the node has a chain when the index is enabled, BlockConnected never *)
(* gets the genesis block, and CallbacksDoNotFail holds without the        *)
(* exception for it: only the assertion of the sync thread's Rewind is     *)
(* left.                                                                   *)
THEOREM NoGenesisOnChain == (tip # NULL /\ Spec) => [](CallbacksDoNotFail /\ failed # "genesis")
<1>1. Init /\ tip # NULL => HasChain
  <2> SUFFICES ASSUME Init, tip # NULL PROVE HasChain OBVIOUS
  <2>1. failed = "" /\ m_synced = FALSE /\ pending = <<>> BY DEF Init
  <2>2. disk.tip = tip
    <3>1. PICK t : tip = t /\ disk = [tip |-> t, known |-> Chain(t)] BY DEF Init
    <3> QED BY <3>1
  <2>3. \A i \in DOMAIN pending : FALSE BY <2>1, NoEvents
  <2>4. failed # "genesis" BY <2>1
  <2> QED BY <2>1, <2>2, <2>3, <2>4 DEF HasChain
<1>2. IInv /\ HasChain /\ [Next]_vars => HasChain' BY StepHasChain
<1>3. IInv /\ HasChain => CallbacksDoNotFail /\ failed # "genesis" BY DEF IInv, HasChain
<1> QED BY <1>1, <1>2, <1>3, Invariance, PTL DEF Spec
===============================================================================
