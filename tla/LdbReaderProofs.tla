--------------------------- MODULE LdbReaderProofs ---------------------------
(***************************************************************************)
(* Proofs about the readers of a process, for any number of goroutines and *)
(* tables: the discipline of the read lock that every "assumes RLock held" *)
(* comment relies on, that no cache is used before it is made or wiped out *)
(* after, and what the cached keys say.                                    *)
(***************************************************************************)
EXTENDS LdbReader, TLAPS

USE ReaderAssumption

-----------------------------------------------------------------------------
(* The inductive invariant *)

\* Where a call goes on once it has the read lock again.
Place(c) == IF c.at = "rlock" THEN c.then ELSE c.at

KeyPlaces  == {"lookup", "pragma", "exists", "putKey", "decide", "initStmts",
               "findStmt", "prepare", "query", "forget"}
StmtPlaces == {"findStmt", "prepare", "query"}

\* What call c knows of the shared state, also while it has no lock: a cache
\* it found once is still there, and the key it carries is true of its table.
Sound(c) ==
    /\ Place(c) \in KeyPlaces => pkCache # Nil
    /\ Place(c) \in StmtPlaces => stmtCache[c.op] # Nil
    /\ c.then # "exists"      \* the second look follows the first one's lock
    /\ c.at = "exists" => c.pk = "zero" /\ (c.tbl \in present => c.tbl \in raced)
    /\ c.at = "putKey" \/ Place(c) = "decide" =>
          c.tbl \in present /\ (c.pk = "zero" => c.tbl \in raced)
    /\ c.error = "nokey" => c.tbl \in raced

\* What the cache of keys says is true.
CacheHonest ==
    pkCache # Nil => \A t \in Tables : /\ pkCache[t] = "key" => t \in present
                                       /\ pkCache[t] = "zero" => t \in raced

OpenedOnce == opened = IF global THEN 1 ELSE 0

ReaderIInv ==
    /\ TypeOK
    /\ OpenedOnce
    /\ LockHeld
    /\ CacheHonest
    /\ \A p \in Procs : Sound(call[p])

LEMMA IdleType ==
    /\ Idle \in Calls
    /\ Idle.at = "idle" /\ Idle.then = "return" /\ Idle.error = ""
  BY DEF Idle, Calls, Reading, Ops, Pks

LEMMA InitIInv == Init => ReaderIInv
  <1> SUFFICES ASSUME Init PROVE ReaderIInv
    OBVIOUS
  <1>1. TypeOK
    <2>1. file \in BOOLEAN /\ global \in BOOLEAN /\ closed \in BOOLEAN
      BY DEF Init
    <2>2. stmtCache \in [Ops -> {Nil} \cup SUBSET Tables] /\ call \in [Procs -> Calls]
      BY IdleType DEF Init
    <2> QED
      BY <2>1, <2>2 DEF Init, TypeOK
  <1>2. \A p \in Procs : call[p] = Idle
    BY DEF Init
  <1>3. OpenedOnce /\ LockHeld /\ CacheHonest
    BY <1>2, IdleType DEF Init, OpenedOnce, LockHeld, CacheHonest, Reading
  <1>4. \A p \in Procs : Sound(call[p])
    BY <1>2, IdleType DEF Sound, Place, KeyPlaces, StmtPlaces
  <1> QED
    BY <1>1, <1>3, <1>4 DEF ReaderIInv

\* A step of goroutine p, which becomes c: whatever it does to the caches, it
\* does not unmake one, and it holds the read lock where it reads.
LEMMA StepOf ==
    ASSUME ReaderIInv, NEW p \in Procs, NEW c \in Calls,
           call' = [call EXCEPT ![p] = c],
           rlock' = IF c.at \in Reading THEN rlock \cup {p} ELSE rlock \ {p},
           UNCHANGED <<ldbVars, raced, closed>>,
           global' \in BOOLEAN, OpenedOnce',
           pkCache' \in {Nil} \cup [Tables -> Pks \cup {Unread}],
           stmtCache' \in [Ops -> {Nil} \cup SUBSET Tables],
           pkCache # Nil => pkCache' # Nil,
           \A op \in Ops : stmtCache[op] # Nil => stmtCache'[op] # Nil,
           CacheHonest',
           Sound(c)'
    PROVE  ReaderIInv'
  <1>1. call'[p] = c /\ \A q \in Procs : q # p => call'[q] = call[q]
    BY DEF ReaderIInv, TypeOK
  <1>2. TypeOK'
    BY DEF ReaderIInv, TypeOK, OpenedOnce, ldbVars
  <1>3. LockHeld'
    BY <1>1 DEF ReaderIInv, LockHeld
  <1>4. \A q \in Procs : Sound(call[q])'
    <2> SUFFICES ASSUME NEW q \in Procs PROVE Sound(call[q])'
      OBVIOUS
    <2>1. CASE q = p
      BY <1>1, <2>1 DEF Sound, Place
    <2>2. CASE q # p
      <3>1. call'[q] = call[q] /\ call[q].op \in Ops
        BY <1>1, <2>2 DEF ReaderIInv, TypeOK, Calls
      <3> QED
        BY <3>1 DEF ReaderIInv, Sound, Place, ldbVars
    <2> QED
      BY <2>1, <2>2
  <1> QED
    BY <1>2, <1>3, <1>4 DEF ReaderIInv

\* The case of a step that leaves the caches and the global reader alone.
LEMMA QuietStepOf ==
    ASSUME ReaderIInv, NEW p \in Procs, NEW c \in Calls,
           call' = [call EXCEPT ![p] = c],
           rlock' = IF c.at \in Reading THEN rlock \cup {p} ELSE rlock \ {p},
           UNCHANGED <<ldbVars, readerVars, cacheVars, raced>>,
           Sound(c)
    PROVE  ReaderIInv'
  <1>1. UNCHANGED <<ldbVars, raced, closed>> /\ global' \in BOOLEAN /\ OpenedOnce'
    BY DEF ReaderIInv, TypeOK, readerVars, OpenedOnce
  <1>2. /\ pkCache' \in {Nil} \cup [Tables -> Pks \cup {Unread}]
        /\ stmtCache' \in [Ops -> {Nil} \cup SUBSET Tables]
        /\ pkCache # Nil => pkCache' # Nil
        /\ \A op \in Ops : stmtCache[op] # Nil => stmtCache'[op] # Nil
    BY DEF ReaderIInv, TypeOK, cacheVars
  <1>3. CacheHonest'
    BY DEF ReaderIInv, CacheHonest, cacheVars, ldbVars
  <1>4. Sound(c)'
    BY DEF Sound, Place, cacheVars, ldbVars
  <1> QED
    BY <1>1, <1>2, <1>3, <1>4, StepOf

LEMMA CallType ==
    ASSUME ReaderIInv, NEW p \in Procs
    PROVE  /\ call[p] \in Calls /\ call[p].tbl \in Tables /\ call[p].op \in Ops
           /\ call[p].pk \in Pks /\ call[p].then \in Reading
           /\ Sound(call[p])
           /\ p \in rlock <=> call[p].at \in Reading
           /\ call \in [Procs -> Calls] /\ rlock \subseteq Procs
  BY DEF ReaderIInv, TypeOK, Calls, LockHeld

\* The steps of a goroutine that change neither cache.
LEMMA QuietSteps ==
    ASSUME ReaderIInv, NEW p \in Procs,
           \/ Enter(p) \/ RLock(p) \/ CheckKeyCache(p) \/ LookupKey(p)
           \/ Pragma(p) \/ CheckExists(p) \/ Decide(p) \/ FindStmt(p)
           \/ Query(p) \/ Return(p) \/ Fails(p)
           \/ \E op \in Ops, t \in Tables : GetReader(p, op, t)
    PROVE  ReaderIInv'
  <1> USE CallType DEF At
  <1>1. CASE Enter(p)
    <2>1. PICK pc \in {"key", "ping"} :
             /\ call' = [call EXCEPT ![p].at = "rlock", ![p].then = pc]
      BY <1>1 DEF Enter
    <2> DEFINE c == [call[p] EXCEPT !.at = "rlock", !.then = pc]
    <2>2. c \in Calls /\ c.at = "rlock" /\ c.then = pc /\ call' = [call EXCEPT ![p] = c]
      BY <2>1, <1>1, ZenonT(60) DEF Enter, Calls, Reading, Writing
    <2>3. Sound(c)
      BY <2>1, <1>1, <2>2 DEF Enter, Sound, Place, KeyPlaces, StmtPlaces
    <2>4. rlock' = IF c.at \in Reading THEN rlock \cup {p} ELSE rlock \ {p}
      BY <2>1, <1>1, <2>2 DEF Enter, Reading
    <2> QED
      BY <2>1, <1>1, <2>2, <2>3, <2>4, QuietStepOf DEF Enter
  <1>2. CASE RLock(p)
    <2> DEFINE c == [call[p] EXCEPT !.at = call[p].then]
    <2>2. c \in Calls /\ c.at = call[p].then /\ call' = [call EXCEPT ![p] = c]
      BY <1>2 DEF RLock, Calls, Reading, Writing
    <2>3. Sound(c)
      BY <1>2, <2>2 DEF RLock, Reading, Sound, Place, KeyPlaces, StmtPlaces
    <2>4. rlock' = IF c.at \in Reading THEN rlock \cup {p} ELSE rlock \ {p}
      BY <1>2, <2>2 DEF RLock, Reading
    <2> QED
      BY <1>2, <2>2, <2>3, <2>4, QuietStepOf DEF RLock
  <1>3. CASE CheckKeyCache(p)
    <2>1. PICK pc \in {"initKeys", "lookup"} :
             /\ call' = [call EXCEPT ![p].at = pc]
             /\ pc = "lookup" => pkCache # Nil
             /\ rlock' = IF pc = "lookup" THEN rlock ELSE rlock \ {p}
      BY <1>3 DEF CheckKeyCache, Upgrade, Goto
    <2> DEFINE c == [call[p] EXCEPT !.at = pc]
    <2>2. c \in Calls /\ c.at = pc /\ call' = [call EXCEPT ![p] = c]
      BY <2>1, <1>3 DEF CheckKeyCache, Calls, Reading, Writing
    <2>3. Sound(c)
      BY <2>1, <1>3, <2>2 DEF CheckKeyCache, Sound, Place, KeyPlaces, StmtPlaces
    <2>4. rlock' = IF c.at \in Reading THEN rlock \cup {p} ELSE rlock \ {p}
      BY <2>1, <1>3, <2>2 DEF CheckKeyCache, Reading
    <2> QED
      BY <2>1, <1>3, <2>2, <2>3, <2>4, QuietStepOf DEF CheckKeyCache
  <1>4. CASE LookupKey(p)
    <2>0. pkCache \in [Tables -> Pks \cup {Unread}]
      BY <1>4 DEF LookupKey, ReaderIInv, TypeOK, Sound, Place, KeyPlaces
    <2>1. PICK pc \in {"pragma", "decide"}, k \in Pks :
             /\ call' = [call EXCEPT ![p].at = pc, ![p].pk = k]
             /\ pc = "decide" => k = pkCache[call[p].tbl]
             /\ rlock' = rlock
      <3>1. CASE pkCache[call[p].tbl] = Unread
        <4>1. call' = [call EXCEPT ![p].at = "pragma", ![p].pk = call[p].pk] /\ rlock' = rlock
          BY <1>4, <3>1 DEF LookupKey, Goto, Calls
        <4> QED
          BY <4>1
      <3>2. CASE pkCache[call[p].tbl] # Unread
        <4>1. pkCache[call[p].tbl] \in Pks
          BY <2>0, <3>2
        <4> QED
          BY <1>4, <3>2, <4>1 DEF LookupKey
      <3> QED
        BY <3>1, <3>2
    <2> DEFINE c == [call[p] EXCEPT !.at = pc, !.pk = k]
    <2>2. c \in Calls /\ c.at = pc /\ c.pk = k /\ call' = [call EXCEPT ![p] = c]
      BY <2>1, <1>4, ZenonT(60) DEF LookupKey, Calls, Reading, Writing
    <2>3. Sound(c)
      <3>1. pc = "decide" => c.tbl \in present /\ (c.pk = "zero" => c.tbl \in raced)
        BY <2>1, <2>2, <1>4 DEF LookupKey, ReaderIInv, CacheHonest, TypeOK, Sound, Place,
                                KeyPlaces, Pks
      <3> QED
        BY <1>4, <2>2, <3>1 DEF LookupKey, Sound, Place, KeyPlaces, StmtPlaces
    <2>4. rlock' = IF c.at \in Reading THEN rlock \cup {p} ELSE rlock \ {p}
      BY <2>1, <1>4, <2>2 DEF LookupKey, Reading
    <2> QED
      BY <2>1, <1>4, <2>2, <2>3, <2>4, QuietStepOf DEF LookupKey
  <1>5. CASE Pragma(p)
    <2>1. PICK pc \in {"putKey", "exists"}, k \in Pks :
             /\ call' = [call EXCEPT ![p].at = pc, ![p].pk = k]
             /\ IF pc = "putKey" THEN k = "key" /\ call[p].tbl \in present
                               ELSE k = "zero" /\ call[p].tbl \notin present
             /\ rlock' = IF pc = "exists" THEN rlock ELSE rlock \ {p}
      BY <1>5 DEF Pragma, Pks
    <2> DEFINE c == [call[p] EXCEPT !.at = pc, !.pk = k]
    <2>2. c \in Calls /\ c.at = pc /\ c.pk = k /\ call' = [call EXCEPT ![p] = c]
      BY <2>1, <1>5, ZenonT(60) DEF Pragma, Calls, Reading, Writing
    <2>3. Sound(c)
      BY <2>1, <1>5, <2>2 DEF Pragma, Sound, Place, KeyPlaces, StmtPlaces
    <2>4. rlock' = IF c.at \in Reading THEN rlock \cup {p} ELSE rlock \ {p}
      BY <2>1, <1>5, <2>2, ZenonT(60) DEF Pragma, Reading
    <2> QED
      BY <2>1, <1>5, <2>2, <2>3, <2>4, QuietStepOf DEF Pragma
  <1>6. CASE CheckExists(p)
    <2>1. PICK pc \in {"putKey", "return"}, e \in {call[p].error, "missing"} :
             /\ call' = [call EXCEPT ![p].at = pc, ![p].error = e]
             /\ pc = "putKey" => call[p].tbl \in present
             /\ rlock' = IF pc = "return" THEN rlock ELSE rlock \ {p}
      BY <1>6 DEF CheckExists, Upgrade, Fail, Calls
    <2> DEFINE c == [call[p] EXCEPT !.at = pc, !.error = e]
    <2>2. c \in Calls /\ c.at = pc /\ c.error = e /\ call' = [call EXCEPT ![p] = c]
      BY <2>1, <1>6, ZenonT(60) DEF CheckExists, Calls, Reading, Writing
    <2>3. Sound(c)
      BY <2>1, <1>6, <2>2 DEF CheckExists, Sound, Place, KeyPlaces, StmtPlaces
    <2>4. rlock' = IF c.at \in Reading THEN rlock \cup {p} ELSE rlock \ {p}
      BY <2>1, <1>6, <2>2, ZenonT(60) DEF CheckExists, Reading
    <2> QED
      BY <2>1, <1>6, <2>2, <2>3, <2>4, QuietStepOf DEF CheckExists
  <1>7. CASE Decide(p)
    <2>1. PICK pc \in {"return", "initStmts", "findStmt"}, e \in {call[p].error, "nokey", "other"} :
             /\ call' = [call EXCEPT ![p].at = pc, ![p].error = e]
             /\ e = "nokey" /\ e # call[p].error => call[p].pk = "zero"
             /\ pc = "findStmt" => stmtCache[call[p].op] # Nil
             /\ rlock' = IF pc = "initStmts" THEN rlock \ {p} ELSE rlock
      BY <1>7 DEF Decide, Upgrade, Fail, Goto, Calls
    <2> DEFINE c == [call[p] EXCEPT !.at = pc, !.error = e]
    <2>2. c \in Calls /\ c.at = pc /\ c.error = e /\ call' = [call EXCEPT ![p] = c]
      BY <2>1, <1>7, ZenonT(60) DEF Decide, Calls, Reading, Writing
    <2>3. Sound(c)
      BY <2>1, <1>7, <2>2 DEF Decide, Sound, Place, KeyPlaces, StmtPlaces
    <2>4. rlock' = IF c.at \in Reading THEN rlock \cup {p} ELSE rlock \ {p}
      BY <2>1, <1>7, <2>2, ZenonT(60) DEF Decide, Reading
    <2> QED
      BY <2>1, <1>7, <2>2, <2>3, <2>4, QuietStepOf DEF Decide
  <1>8. CASE FindStmt(p)
    <2>1. PICK pc \in {"query", "prepare"} :
             /\ call' = [call EXCEPT ![p].at = pc]
             /\ rlock' = IF pc = "query" THEN rlock ELSE rlock \ {p}
      BY <1>8 DEF FindStmt, Upgrade, Goto
    <2> DEFINE c == [call[p] EXCEPT !.at = pc]
    <2>2. c \in Calls /\ c.at = pc /\ call' = [call EXCEPT ![p] = c]
      BY <2>1, <1>8 DEF FindStmt, Calls, Reading, Writing
    <2>3. Sound(c)
      BY <2>1, <1>8, <2>2 DEF FindStmt, Sound, Place, KeyPlaces, StmtPlaces
    <2>4. rlock' = IF c.at \in Reading THEN rlock \cup {p} ELSE rlock \ {p}
      BY <2>1, <1>8, <2>2 DEF FindStmt, Reading
    <2> QED
      BY <2>1, <1>8, <2>2, <2>3, <2>4, QuietStepOf DEF FindStmt
  <1>9. CASE Query(p)
    <2> DEFINE c == [call[p] EXCEPT !.at = "return"]
    <2>2. c \in Calls /\ c.at = "return" /\ call' = [call EXCEPT ![p] = c]
      BY <1>9 DEF Query, Goto, Calls, Reading, Writing
    <2>3. Sound(c)
      BY <1>9, <2>2 DEF Query, Goto, Sound, Place, KeyPlaces, StmtPlaces
    <2>4. rlock' = IF c.at \in Reading THEN rlock \cup {p} ELSE rlock \ {p}
      BY <1>9, <2>2 DEF Query, Goto, Reading
    <2> QED
      BY <1>9, <2>2, <2>3, <2>4, QuietStepOf DEF Query
  <1>10. CASE Return(p)
    <2>1. Sound(Idle)
      BY IdleType DEF Sound, Place, KeyPlaces, StmtPlaces
    <2> QED
      BY <1>10, <2>1, IdleType, QuietStepOf DEF Return, Reading
  <1>11. CASE PrepareFails(p)
    <2> DEFINE c == [call[p] EXCEPT !.at = "rlock", !.then = "return", !.error = "other"]
    <2>2. c \in Calls /\ c.at = "rlock" /\ c.then = "return" /\ c.error = "other" /\ call' = [call EXCEPT ![p] = c]
      BY <1>11 DEF PrepareFails, Calls, Reading, Writing
    <2>3. Sound(c)
      BY <1>11, <2>2 DEF PrepareFails, Sound, Place, KeyPlaces, StmtPlaces
    <2>4. rlock' = IF c.at \in Reading THEN rlock \cup {p} ELSE rlock \ {p}
      BY <1>11, <2>2 DEF PrepareFails, Reading
    <2> QED
      BY <1>11, <2>2, <2>3, <2>4, QuietStepOf DEF PrepareFails
  <1>12. CASE QueryFails(p)
    <2> DEFINE c == [call[p] EXCEPT !.at = "forget", !.error = "other"]
    <2>2. c \in Calls /\ c.at = "forget" /\ c.error = "other" /\ call' = [call EXCEPT ![p] = c]
      BY <1>12, ZenonT(60) DEF QueryFails, Calls, Reading, Writing
    <2>3. Sound(c)
      BY <1>12, <2>2 DEF QueryFails, Sound, Place, KeyPlaces, StmtPlaces
    <2>4. rlock' = IF c.at \in Reading THEN rlock \cup {p} ELSE rlock \ {p}
      BY <1>12, <2>2 DEF QueryFails, Reading
    <2> QED
      BY <1>12, <2>2, <2>3, <2>4, QuietStepOf DEF QueryFails
  <1>13. CASE LookFails(p)
    <2> DEFINE c == [call[p] EXCEPT !.at = "return", !.error = "other"]
    <2>2. c \in Calls /\ c.at = "return" /\ c.error = "other" /\ call' = [call EXCEPT ![p] = c]
      BY <1>13, ZenonT(60) DEF LookFails, Fail, Calls, Reading, Writing
    <2>3. Sound(c)
      BY <1>13, <2>2 DEF LookFails, Fail, Sound, Place, KeyPlaces, StmtPlaces
    <2>4. rlock' = IF c.at \in Reading THEN rlock \cup {p} ELSE rlock \ {p}
      BY <1>13, <2>2 DEF LookFails, Fail, Reading
    <2> QED
      BY <1>13, <2>2, <2>3, <2>4, QuietStepOf DEF LookFails
  <1>14. ASSUME NEW op \in Ops, NEW t \in Tables, GetReader(p, op, t)
         PROVE  ReaderIInv'
    <2> DEFINE c == [Idle EXCEPT !.op = op, !.tbl = t,
                                 !.at = IF global THEN "reader" ELSE "open"]
    <2>1. c \in Calls /\ c.at \in {"reader", "open"} /\ c.then = "return" /\ c.error = ""
      BY IdleType DEF Calls
    <2>2. Sound(c)
      BY <2>1 DEF Sound, Place, KeyPlaces, StmtPlaces
    <2>3. rlock' = IF c.at \in Reading THEN rlock \cup {p} ELSE rlock \ {p}
      BY <1>14, <2>1 DEF GetReader, Reading
    <2> QED
      BY <1>14, <2>1, <2>2, <2>3, QuietStepOf DEF GetReader
  <1> QED
    BY <1>1, <1>2, <1>3, <1>4, <1>5, <1>6, <1>7, <1>8, <1>9, <1>10, <1>11, <1>12,
       <1>13, <1>14 DEF Fails

\* The write sections: they fill or repair a cache with what their call knows.
LEMMA WriteSections ==
    ASSUME ReaderIInv, NEW p \in Procs,
           \/ OpenReader(p) \/ InitKeyCache(p) \/ PutKey(p) \/ Forget(p)
           \/ InitStmtCache(p) \/ Prepare(p)
    PROVE  ReaderIInv'
  <1> USE CallType DEF At
  <1>0. /\ pkCache \in {Nil} \cup [Tables -> Pks \cup {Unread}]
        /\ stmtCache \in [Ops -> {Nil} \cup SUBSET Tables]
        /\ global \in BOOLEAN /\ OpenedOnce /\ CacheHonest
    BY DEF ReaderIInv, TypeOK
  <1>1. CASE OpenReader(p)
    <2>1. PICK c \in {Idle, [call[p] EXCEPT !.at = "reader"]} :
             /\ call' = [call EXCEPT ![p] = c]
             /\ rlock' = rlock
      BY <1>1 DEF OpenReader, Goto
    <2>2. c \in Calls /\ c.at \in {"idle", "reader"} /\ c.then # "exists"
          /\ (c.error = "nokey" => c.tbl \in raced)
      BY <2>1, IdleType DEF Calls, Sound
    <2>3. Sound(c)'
      BY <1>1, <2>2 DEF OpenReader, Sound, Place, KeyPlaces, StmtPlaces
    <2>4. rlock' = IF c.at \in Reading THEN rlock \cup {p} ELSE rlock \ {p}
      BY <1>1, <2>1, <2>2 DEF OpenReader, Reading
    <2>5. global' \in BOOLEAN /\ OpenedOnce'
      <3>1. CASE global
        BY <1>0, <1>1, <3>1 DEF OpenReader, OpenedOnce
      <3>2. CASE ~global /\ file
        BY <1>0, <1>1, <3>2 DEF OpenReader, OpenedOnce
      <3>3. CASE ~global /\ ~file
        <4>1. UNCHANGED <<global, opened>>
          BY <1>1, <3>3 DEF OpenReader
        <4> QED
          BY <1>0, <4>1 DEF OpenedOnce
      <3> QED
        BY <3>1, <3>2, <3>3
    <2>6. CacheHonest'
      BY <1>0, <1>1 DEF OpenReader, CacheHonest, cacheVars, ldbVars
    <2> QED
      BY <1>0, <1>1, <2>1, <2>2, <2>3, <2>4, <2>5, <2>6, StepOf DEF OpenReader, cacheVars
  <1>2. ASSUME NEW pc \in {"lookup", "decide", "return"}, Downgrade(p, pc), pkCache' # Nil,
               call[p].at \in {"initKeys", "putKey", "forget"},
               pc = "decide" => call[p].at = "putKey",
               pkCache' \in [Tables -> Pks \cup {Unread}],
               CacheHonest',
               UNCHANGED <<ldbVars, readerVars, stmtCache, raced>>
        PROVE  ReaderIInv'
    <2> DEFINE c == [call[p] EXCEPT !.at = "rlock", !.then = pc]
    <2>1. c \in Calls /\ c.at = "rlock" /\ c.then = pc /\ call' = [call EXCEPT ![p] = c]
      BY <1>2, ZenonT(60) DEF Downgrade, Calls, Reading
    <2>2. Sound(c)'
      BY <1>2, <2>1 DEF Sound, Place, KeyPlaces, StmtPlaces, ldbVars
    <2>3. rlock' = IF c.at \in Reading THEN rlock \cup {p} ELSE rlock \ {p}
      BY <1>2, <2>1 DEF Downgrade, Reading
    <2>4. UNCHANGED <<ldbVars, raced, closed>> /\ global' \in BOOLEAN /\ OpenedOnce'
      BY <1>0, <1>2 DEF readerVars, OpenedOnce
    <2> QED
      BY <1>0, <1>2, <2>1, <2>2, <2>3, <2>4, StepOf
  <1>3. CASE InitKeyCache(p)
    <2>1. pkCache' \in [Tables -> Pks \cup {Unread}] /\ pkCache' # Nil
      BY <1>0, <1>3 DEF InitKeyCache, NoKeys
    <2>2. CacheHonest'
      BY <1>0, <1>3 DEF InitKeyCache, NoKeys, CacheHonest, Unread, ldbVars
    <2> QED
      BY <1>2, <1>3, <2>1, <2>2 DEF InitKeyCache
  <1>4. CASE PutKey(p)
    <2>1. pkCache # Nil /\ call[p].tbl \in present /\ (call[p].pk = "zero" => call[p].tbl \in raced)
      BY <1>4 DEF PutKey, Sound, Place, KeyPlaces
    <2>2. pkCache' \in [Tables -> Pks \cup {Unread}] /\ pkCache' # Nil
      BY <1>0, <1>4, <2>1 DEF PutKey
    <2>3. CacheHonest'
      BY <1>0, <1>4, <2>1 DEF PutKey, CacheHonest, ldbVars
    <2> QED
      BY <1>2, <1>4, <2>2, <2>3 DEF PutKey
  <1>5. CASE Forget(p)
    <2>1. pkCache # Nil
      BY <1>5 DEF Forget, Sound, Place, KeyPlaces
    <2>2. pkCache' \in [Tables -> Pks \cup {Unread}] /\ pkCache' # Nil
      BY <1>0, <1>5, <2>1 DEF Forget
    <2>3. CacheHonest'
      BY <1>0, <1>5, <2>1 DEF Forget, CacheHonest, Unread, ldbVars
    <2> QED
      BY <1>2, <1>5, <2>2, <2>3 DEF Forget
  <1>6. ASSUME NEW pc \in {"findStmt", "query"}, Downgrade(p, pc),
               call[p].at \in {"initStmts", "prepare"},
               NEW s \in SUBSET Tables,
               stmtCache' = [stmtCache EXCEPT ![call[p].op] = s],
               UNCHANGED <<ldbVars, readerVars, pkCache, raced>>
        PROVE  ReaderIInv'
    <2> DEFINE c == [call[p] EXCEPT !.at = "rlock", !.then = pc]
    <2>1. c \in Calls /\ c.at = "rlock" /\ c.then = pc /\ call' = [call EXCEPT ![p] = c]
          /\ c.op = call[p].op
      BY <1>6 DEF Downgrade, Calls, Reading
    <2>2. /\ stmtCache' \in [Ops -> {Nil} \cup SUBSET Tables]
          /\ stmtCache'[call[p].op] # Nil
          /\ \A op \in Ops : stmtCache[op] # Nil => stmtCache'[op] # Nil
      BY <1>0, <1>6
    <2>3. Sound(c)'
      BY <1>6, <2>1, <2>2 DEF Sound, Place, KeyPlaces, StmtPlaces, ldbVars
    <2>4. rlock' = IF c.at \in Reading THEN rlock \cup {p} ELSE rlock \ {p}
      BY <1>6, <2>1 DEF Downgrade, Reading
    <2>5. UNCHANGED <<ldbVars, raced, closed>> /\ global' \in BOOLEAN /\ OpenedOnce'
      BY <1>0, <1>6 DEF readerVars, OpenedOnce
    <2>6. CacheHonest'
      BY <1>0, <1>6 DEF CacheHonest, ldbVars
    <2> QED
      BY <1>0, <1>6, <2>1, <2>2, <2>3, <2>4, <2>5, <2>6, StepOf
  <1>7. CASE InitStmtCache(p)
    <2> DEFINE old == stmtCache[call[p].op]
               s == IF old = Nil THEN {} ELSE old
    <2>1. s \in SUBSET Tables /\ stmtCache' = [stmtCache EXCEPT ![call[p].op] = s]
      BY <1>0, <1>7 DEF InitStmtCache
    <2> QED
      BY <1>6, <1>7, <2>1 DEF InitStmtCache
  <1>8. CASE Prepare(p)
    <2> DEFINE s == stmtCache[call[p].op] \cup {call[p].tbl}
    <2>1. stmtCache[call[p].op] # Nil
      BY <1>8 DEF Prepare, Sound, Place, StmtPlaces
    <2>2. s \in SUBSET Tables /\ stmtCache' = [stmtCache EXCEPT ![call[p].op] = s]
      BY <1>0, <1>8, <2>1 DEF Prepare
    <2> QED
      BY <1>6, <1>8, <2>2 DEF Prepare
  <1> QED
    BY <1>1, <1>3, <1>4, <1>5, <1>7, <1>8

\* The reflector's steps and Close touch no call; a table that is created
\* between the two looks of a call is noted in raced.
LEMMA OtherSteps ==
    ASSUME ReaderIInv, FileAppears \/ Close \/ \E t \in Tables : Create(t)
    PROVE  ReaderIInv'
  <1>1. CASE FileAppears
    BY <1>1 DEF FileAppears, ReaderIInv, TypeOK, OpenedOnce, LockHeld, CacheHonest, Sound,
                Place, cacheVars, readerVars
  <1>2. CASE Close
    BY <1>2 DEF Close, ReaderIInv, TypeOK, OpenedOnce, LockHeld, CacheHonest, Sound,
                Place, cacheVars, ldbVars
  <1>3. ASSUME NEW t \in Tables, Create(t)
        PROVE  ReaderIInv'
    <2>1. TypeOK' /\ OpenedOnce' /\ LockHeld' /\ CacheHonest'
      BY <1>3 DEF Create, ReaderIInv, TypeOK, OpenedOnce, LockHeld, CacheHonest,
                  cacheVars, readerVars
    <2>2. ASSUME NEW p \in Procs PROVE Sound(call[p])'
      <3>1. call[p].at = "exists" => (call[p].tbl \in present' => call[p].tbl \in raced')
        BY <1>3, <2>2 DEF Create, ReaderIInv, Sound
      <3>2. present \subseteq present' /\ raced \subseteq raced'
        BY <1>3 DEF Create
      <3> QED
        BY <1>3, <2>2, <3>1, <3>2 DEF Create, ReaderIInv, Sound, Place, cacheVars
    <2> QED
      BY <2>1, <2>2 DEF ReaderIInv
  <1> QED
    BY <1>1, <1>2, <1>3


LEMMA StepIInv == ReaderIInv /\ [Next]_vars => ReaderIInv'
  <1> SUFFICES ASSUME ReaderIInv, [Next]_vars PROVE ReaderIInv'
    OBVIOUS
  <1>1. CASE Next
    BY <1>1, QuietSteps, WriteSections, OtherSteps DEF Next, Works
  <1>2. CASE UNCHANGED vars
    BY <1>2 DEF vars, ReaderIInv, TypeOK, OpenedOnce, LockHeld, CacheHonest, Sound, Place
  <1> QED
    BY <1>1, <1>2

LEMMA Invariance == Spec => []ReaderIInv
  BY InitIInv, StepIInv, PTL DEF Spec

-----------------------------------------------------------------------------
(* Theorems *)

\* Reader() opens one reader for all goroutines that race for it, and every
\* call, lock and cache entry is one the code can have.
THEOREM TypeCorrect == Spec => []TypeOK
  <1>1. ReaderIInv => TypeOK
    BY DEF ReaderIInv
  <1> QED
    BY <1>1, Invariance, PTL

\* Every cache is read under mu.RLock and no goroutine waits for mu.Lock with
\* the read lock in its hands, on every path of GetRowByKey and
\* GetRowsByKeyPrefix and after every error return.
THEOREM LockDiscipline == Spec => []LockHeld
  <1>1. ReaderIInv => LockHeld
    BY DEF ReaderIInv
  <1> QED
    BY <1>1, Invariance, PTL

\* No call looks into, or writes to, a cache that was not made: the check
\* made before a lock was given up still holds when the next one is taken.
THEOREM NoNilCache == Spec => []CacheMade
  <1>1. ReaderIInv => CacheMade
    BY DEF ReaderIInv, Sound, Place, KeyPlaces, StmtPlaces, CacheMade
  <1> QED
    BY <1>1, Invariance, PTL

\* ErrTableHasNoPrimaryKey, cached or returned, means that the table appeared
\* between the two looks of some call.
THEOREM KeysAreHonest == Spec => []KeysHonest
  <1>1. ReaderIInv => KeysHonest
    BY DEF ReaderIInv, CacheHonest, Sound, KeysHonest
  <1> QED
    BY <1>1, Invariance, PTL

\* No initialisation wipes out a cache, a key is forgotten only by the call
\* whose statement on its table failed, a statement never.
THEOREM CachesAreKept == Spec => CachesKept
  <1> DEFINE Kept ==
        /\ \A op \in Ops : stmtCache[op] # Nil =>
               stmtCache'[op] # Nil /\ stmtCache[op] \subseteq stmtCache'[op]
        /\ pkCache # Nil => /\ pkCache' # Nil
                            /\ \A t \in Tables : pkCache[t] # Unread /\ pkCache'[t] = Unread
                                 => \E p \in Procs : At(p, "forget") /\ call[p].tbl = t
  <1>1. ASSUME ReaderIInv, [Next]_vars PROVE [Kept]_vars
    <2>0. /\ pkCache \in {Nil} \cup [Tables -> Pks \cup {Unread}]
          /\ stmtCache \in [Ops -> {Nil} \cup SUBSET Tables]
      BY <1>1 DEF ReaderIInv, TypeOK
    <2>1. CASE UNCHANGED cacheVars
      BY <2>1 DEF cacheVars
    <2>2. ASSUME NEW p \in Procs, InitKeyCache(p) PROVE Kept
      BY <2>0, <2>2 DEF InitKeyCache
    <2>3. ASSUME NEW p \in Procs, PutKey(p) PROVE Kept
      <3>1. call[p].tbl \in Tables /\ call[p].pk \in Pks
        BY <1>1, <2>3, CallType
      <3> QED
        BY <2>0, <2>3, <3>1 DEF PutKey, Pks, Unread
    <2>4. ASSUME NEW p \in Procs, Forget(p) PROVE Kept
      <3>1. call[p].tbl \in Tables
        BY <1>1, <2>4, CallType
      <3> QED
        BY <2>0, <2>4, <3>1 DEF Forget
    <2>5. ASSUME NEW p \in Procs, InitStmtCache(p) PROVE Kept
      <3>1. call[p].op \in Ops
        BY <1>1, <2>5, CallType
      <3> QED
        BY <2>0, <2>5, <3>1 DEF InitStmtCache
    <2>6. ASSUME NEW p \in Procs, Prepare(p) PROVE Kept
      <3>1. call[p].op \in Ops /\ call[p].tbl \in Tables
        BY <1>1, <2>6, CallType
      <3> QED
        BY <2>0, <2>6, <3>1 DEF Prepare
    <2> HIDE DEF Kept
    <2>7. CASE Next
      BY <2>1, <2>2, <2>3, <2>4, <2>5, <2>6, <2>7
         DEF Next, Works, Fails, FileAppears, Create, Close, GetReader, OpenReader, Enter,
             RLock, CheckKeyCache, LookupKey, Pragma, CheckExists, Decide, FindStmt, Query,
             Return, PrepareFails, QueryFails, LookFails
    <2> QED
      BY <1>1, <2>7
  <1> QED
    BY <1>1, Invariance, PTL DEF Spec, CachesKept
=============================================================================
