------------------------------ MODULE LdbReader ------------------------------
(***************************************************************************)
(* The readers of one process (ldb.go, ldb_reader.go).  Goroutines share   *)
(* the global LDBReader, whose caches of primary keys and of prepared      *)
(* statements are guarded by a sync.RWMutex: a call holds the read lock,   *)
(* and to fill a cache it gives it up, takes the write lock and reads on.  *)
(* Beside them the reflector, another process, creates tables in the LDB.  *)
(*                                                                         *)
(* A table's key never changes: the executive has no operation that drops  *)
(* a table.  A write section excludes everyone else and is one step.       *)
(***************************************************************************)
EXTENDS Integers, FiniteSets

CONSTANTS Procs,    \* goroutines
          Tables,   \* LDB table names
          Nil       \* a Go map that was not made yet

Ops     == {"row", "prefix"}             \* GetRowByKey, GetRowsByKeyPrefix
Pks     == {"zero", "key"}               \* PrimaryKeyZero and a real one
Unread  == "none"

\* A map that was not made is none of the values of one that was.
ASSUME ReaderAssumption ==
    /\ Tables # {}
    /\ Nil \notin [Tables -> Pks \cup {Unread}]
    /\ \A s \in SUBSET Tables : Nil # s

VARIABLES
    file,      \* is there an LDB at globalLDBPath?
    present,   \* the tables in it
    global,    \* globalReader # nil
    opened,    \* readers opened by Reader(), ever
    closed,    \* LDBReader.Close was called
    pkCache,   \* Nil, or for each table its key or Unread
    stmtCache, \* for each operation Nil, or the tables with a statement
               \* (of one number of keys for a table)
    rlock,     \* the goroutines that hold mu.RLock
    call,      \* where each goroutine is, with which arguments and key
    raced      \* history: tables created between the two looks of a call
               \* at its table

vars == <<file, present, global, opened, closed, pkCache, stmtCache, rlock, call, raced>>

\* Where a call reads a cache or the LDB: under the read lock.
Reading == {"key", "lookup", "pragma", "exists", "decide", "findStmt", "query",
            "ping", "return"}
\* Where it waits for the write lock.
Writing == {"initKeys", "putKey", "initStmts", "prepare", "forget"}

Calls == [at    : {"idle", "reader", "open", "rlock"} \cup Reading \cup Writing,
          then  : Reading,                  \* where to go on after RLock
          op    : Ops, tbl : Tables,
          pk    : Pks,
          error : {"", "missing", "nokey", "other"}]

TypeOK ==
    /\ file \in BOOLEAN /\ present \subseteq Tables
    /\ global \in BOOLEAN /\ closed \in BOOLEAN
    /\ opened \in 0..1
    /\ pkCache \in {Nil} \cup [Tables -> Pks \cup {Unread}]
    /\ stmtCache \in [Ops -> {Nil} \cup SUBSET Tables]
    /\ rlock \subseteq Procs
    /\ call \in [Procs -> Calls]
    /\ raced \subseteq present

Idle == [at |-> "idle", then |-> "return", op |-> "row",
         tbl |-> CHOOSE t \in Tables : TRUE, pk |-> "zero", error |-> ""]

Init ==
    /\ file = FALSE /\ present = {}
    /\ global = FALSE /\ opened = 0 /\ closed = FALSE
    /\ pkCache = Nil
    /\ stmtCache = [op \in Ops |-> Nil]
    /\ rlock = {}
    /\ call = [p \in Procs |-> Idle]
    /\ raced = {}

ldbVars   == <<file, present>>
cacheVars == <<pkCache, stmtCache>>
readerVars == <<global, opened, closed>>

-----------------------------------------------------------------------------
(* The LDB *)

\* The reflector of the host makes the file.
FileAppears ==
    /\ ~file
    /\ file' = TRUE
    /\ UNCHANGED <<present, readerVars, cacheVars, rlock, call, raced>>

\* It applies a CREATE TABLE.
Create(t) ==
    /\ file
    /\ t \notin present
    /\ present' = present \cup {t}
    /\ raced' = IF \E p \in Procs : call[p].at = "exists" /\ call[p].tbl = t
                THEN raced \cup {t} ELSE raced
    /\ UNCHANGED <<file, readerVars, cacheVars, rlock, call>>

-----------------------------------------------------------------------------
(* Steps of a goroutine *)

At(p, pc) == call[p].at = pc

\* Goes on at pc under the locks it has.
Goto(p, pc) ==
    /\ call' = [call EXCEPT ![p].at = pc]
    /\ UNCHANGED rlock

\* Returns error e; the deferred RUnlock is next.
Fail(p, e) ==
    /\ call' = [call EXCEPT ![p].at = "return", ![p].error = e]
    /\ UNCHANGED rlock

\* mu.RUnlock, then mu.Lock at pc.
Upgrade(p, pc) ==
    /\ call' = [call EXCEPT ![p].at = pc]
    /\ rlock' = rlock \ {p}

\* The end of a write section: mu.Unlock, then mu.RLock, then pc.
Downgrade(p, pc) ==
    /\ call' = [call EXCEPT ![p].at = "rlock", ![p].then = pc]
    /\ UNCHANGED rlock

\* mu.Lock: nobody reads.
Exclusive == rlock = {}

\* Reader, its first half: the global reader is there, or has to be opened.
GetReader(p, op, t) ==
    /\ At(p, "idle")
    /\ call' = [call EXCEPT ![p] = [Idle EXCEPT !.op = op, !.tbl = t,
                                    !.at = IF global THEN "reader" ELSE "open"]]
    /\ UNCHANGED <<ldbVars, readerVars, cacheVars, rlock, raced>>

\* Mutant: globalReader is not looked at again under the write lock.
OpenReaderNoCheck(p) ==
    /\ At(p, "open")
    /\ file
    /\ global' = TRUE
    /\ opened' = opened + 1
    /\ Goto(p, "reader")
    /\ UNCHANGED <<ldbVars, closed, cacheVars, raced>>

\* Its second half, under globalReaderMu.Lock.
OpenReader(p) ==
    /\ At(p, "open")
    /\ IF global \/ file
       THEN /\ global' = TRUE
            /\ opened' = IF global THEN opened ELSE opened + 1
            /\ Goto(p, "reader")
       ELSE /\ call' = [call EXCEPT ![p] = Idle]   \* no LDB found at path
            /\ UNCHANGED <<global, opened, rlock>>
    /\ UNCHANGED <<ldbVars, closed, cacheVars, raced>>

\* The first statement of GetRowByKey and GetRowsByKeyPrefix, or of Ping and
\* GetLastSequence.
Enter(p) ==
    /\ At(p, "reader")
    /\ \E pc \in {"key", "ping"} :
          call' = [call EXCEPT ![p].at = "rlock", ![p].then = pc]
    /\ UNCHANGED <<ldbVars, readerVars, cacheVars, rlock, raced>>

RLock(p) ==
    /\ At(p, "rlock")
    /\ call' = [call EXCEPT ![p].at = call[p].then]
    /\ rlock' = rlock \cup {p}
    /\ UNCHANGED <<ldbVars, readerVars, cacheVars, raced>>

\* getPrimaryKey: is there a cache?
CheckKeyCache(p) ==
    /\ At(p, "key")
    /\ IF pkCache = Nil THEN Upgrade(p, "initKeys") ELSE Goto(p, "lookup")
    /\ UNCHANGED <<ldbVars, readerVars, cacheVars, raced>>

NoKeys == [t \in Tables |-> Unread]

\* Mutant: no double check.
InitKeyCacheNoCheck(p) ==
    /\ At(p, "initKeys")
    /\ Exclusive
    /\ pkCache' = NoKeys
    /\ Downgrade(p, "lookup")
    /\ UNCHANGED <<ldbVars, readerVars, stmtCache, raced>>

InitKeyCache(p) ==
    /\ At(p, "initKeys")
    /\ Exclusive
    /\ pkCache' = IF pkCache = Nil THEN NoKeys ELSE pkCache
    /\ Downgrade(p, "lookup")
    /\ UNCHANGED <<ldbVars, readerVars, stmtCache, raced>>

LookupKey(p) ==
    LET pk == pkCache[call[p].tbl]
    IN  /\ At(p, "lookup")
        /\ IF pk = Unread THEN Goto(p, "pragma")
           ELSE /\ call' = [call EXCEPT ![p].at = "decide", ![p].pk = pk]
                /\ UNCHANGED rlock
        /\ UNCHANGED <<ldbVars, readerVars, cacheVars, raced>>

\* Mutant: a table without a key is not looked at again.
PragmaTrusted(p) ==
    /\ At(p, "pragma")
    /\ ~closed
    /\ call' = [call EXCEPT ![p].at = "putKey",
                            ![p].pk = IF call[p].tbl \in present THEN "key" ELSE "zero"]
    /\ rlock' = rlock \ {p}
    /\ UNCHANGED <<ldbVars, readerVars, cacheVars, raced>>

\* SELECT ... FROM pragma_table_info: no columns, no error, for a missing table.
Pragma(p) ==
    /\ At(p, "pragma")
    /\ ~closed
    /\ IF call[p].tbl \in present
       THEN /\ call' = [call EXCEPT ![p].at = "putKey", ![p].pk = "key"]
            /\ rlock' = rlock \ {p}
       ELSE /\ call' = [call EXCEPT ![p].at = "exists", ![p].pk = "zero"]
            /\ UNCHANGED rlock
    /\ UNCHANGED <<ldbVars, readerVars, cacheVars, raced>>

\* SELECT * FROM the table LIMIT 1.
CheckExists(p) ==
    /\ At(p, "exists")
    /\ ~closed
    /\ IF call[p].tbl \in present THEN Upgrade(p, "putKey") ELSE Fail(p, "missing")
    /\ UNCHANGED <<ldbVars, readerVars, cacheVars, raced>>

\* Mutant: the read lock is not taken again.
PutKeyNoRelock(p) ==
    /\ At(p, "putKey")
    /\ Exclusive
    /\ pkCache' = [pkCache EXCEPT ![call[p].tbl] = call[p].pk]
    /\ Goto(p, "decide")
    /\ UNCHANGED <<ldbVars, readerVars, stmtCache, raced>>

PutKey(p) ==
    /\ At(p, "putKey")
    /\ Exclusive
    /\ pkCache' = [pkCache EXCEPT ![call[p].tbl] = call[p].pk]
    /\ Downgrade(p, "decide")
    /\ UNCHANGED <<ldbVars, readerVars, stmtCache, raced>>

\* ErrTableHasNoPrimaryKey, ErrNeedFullKey or too many keys, or on to the
\* statement: is there a cache?
Decide(p) ==
    /\ At(p, "decide")
    /\ IF call[p].pk = "zero" THEN Fail(p, "nokey")
       ELSE \/ Fail(p, "other")
            \/ IF stmtCache[call[p].op] = Nil THEN Upgrade(p, "initStmts")
                                              ELSE Goto(p, "findStmt")
    /\ UNCHANGED <<ldbVars, readerVars, cacheVars, raced>>

\* getGetRowByKeyStmt and getRowsByKeyPrefixStmt.
InitStmtCache(p) ==
    /\ At(p, "initStmts")
    /\ Exclusive
    /\ stmtCache' = [stmtCache EXCEPT ![call[p].op] = IF @ = Nil THEN {} ELSE @]
    /\ Downgrade(p, "findStmt")
    /\ UNCHANGED <<ldbVars, readerVars, pkCache, raced>>

FindStmt(p) ==
    /\ At(p, "findStmt")
    /\ IF call[p].tbl \in stmtCache[call[p].op] THEN Goto(p, "query")
                                                ELSE Upgrade(p, "prepare")
    /\ UNCHANGED <<ldbVars, readerVars, cacheVars, raced>>

\* Another goroutine may have prepared it since; this one replaces it.
Prepare(p) ==
    /\ At(p, "prepare")
    /\ Exclusive
    /\ ~closed
    /\ stmtCache' = [stmtCache EXCEPT ![call[p].op] = @ \cup {call[p].tbl}]
    /\ Downgrade(p, "query")
    /\ UNCHANGED <<ldbVars, readerVars, pkCache, raced>>

\* The database is closed, the context has ended or SQLite failed.
PrepareFails(p) ==
    /\ At(p, "prepare")
    /\ Exclusive
    /\ call' = [call EXCEPT ![p].at = "rlock", ![p].then = "return", ![p].error = "other"]
    /\ UNCHANGED <<ldbVars, readerVars, cacheVars, rlock, raced>>

\* Statement and row are found or not, and scanned; or Ping has its answer.
Query(p) ==
    /\ At(p, "query") \/ At(p, "ping")
    /\ ~closed
    /\ Goto(p, "return")
    /\ UNCHANGED <<ldbVars, readerVars, cacheVars, raced>>

\* The statement of GetRowByKey fails: invalidatePKCache.
QueryFails(p) ==
    /\ At(p, "query")
    /\ call[p].op = "row"
    /\ call' = [call EXCEPT ![p].at = "forget", ![p].error = "other"]
    /\ rlock' = rlock \ {p}
    /\ UNCHANGED <<ldbVars, readerVars, cacheVars, raced>>

\* Mutant: the whole cache is dropped.
ForgetAll(p) ==
    /\ At(p, "forget")
    /\ Exclusive
    /\ pkCache' = Nil
    /\ Downgrade(p, "return")
    /\ UNCHANGED <<ldbVars, readerVars, stmtCache, raced>>

Forget(p) ==
    /\ At(p, "forget")
    /\ Exclusive
    /\ pkCache' = [pkCache EXCEPT ![call[p].tbl] = Unread]
    /\ Downgrade(p, "return")
    /\ UNCHANGED <<ldbVars, readerVars, stmtCache, raced>>

\* Every other error return: of a bad family or table name, of
\* GetRowsByKeyPrefix's statement, of the conversion of the key and of the
\* scan.
LookFails(p) ==
    /\ \E pc \in {"key", "pragma", "exists", "query", "ping"} : At(p, pc)
    /\ Fail(p, "other")
    /\ UNCHANGED <<ldbVars, readerVars, cacheVars, raced>>

\* Mutant: an error return does not unlock.
ReturnLocked(p) ==
    /\ At(p, "return")
    /\ call' = [call EXCEPT ![p] = Idle]
    /\ rlock' = IF call[p].error = "" THEN rlock \ {p} ELSE rlock
    /\ UNCHANGED <<ldbVars, readerVars, cacheVars, raced>>

\* defer reader.mu.RUnlock()
Return(p) ==
    /\ At(p, "return")
    /\ call' = [call EXCEPT ![p] = Idle]
    /\ rlock' = rlock \ {p}
    /\ UNCHANGED <<ldbVars, readerVars, cacheVars, raced>>

\* Close: the statements and the database are closed, the caches are kept.
Close ==
    /\ global
    /\ ~closed
    /\ Exclusive
    /\ closed' = TRUE
    /\ UNCHANGED <<ldbVars, global, opened, cacheVars, rlock, call, raced>>

-----------------------------------------------------------------------------
Works(p) ==
    \/ OpenReader(p) \/ Enter(p) \/ RLock(p)
    \/ CheckKeyCache(p) \/ InitKeyCache(p) \/ LookupKey(p)
    \/ Pragma(p) \/ CheckExists(p) \/ PutKey(p) \/ Decide(p)
    \/ InitStmtCache(p) \/ FindStmt(p) \/ Prepare(p)
    \/ Query(p) \/ Forget(p) \/ Return(p)

Fails(p) == PrepareFails(p) \/ QueryFails(p) \/ LookFails(p)

Next ==
    \/ FileAppears
    \/ \E t \in Tables : Create(t)
    \/ \E p \in Procs, op \in Ops, t \in Tables : GetReader(p, op, t)
    \/ \E p \in Procs : Works(p) \/ Fails(p)
    \/ Close

Spec == Init /\ [][Next]_vars

\* A goroutine inside a call goes on, and a Lock that waits gets its turn:
\* sync.RWMutex lets no new reader in while one waits.
Fairness == \A p \in Procs : SF_vars(Works(p) \/ Fails(p))

FairSpec == Spec /\ Fairness

-----------------------------------------------------------------------------
(* Properties *)

\* "assumes RLock held": every cache is read, and every call ends, with the
\* read lock, however often it was given up in between, and a goroutine that
\* waits for the write lock does not hold it.
LockHeld == \A p \in Procs : p \in rlock <=> call[p].at \in Reading

\* A call that reads a cache finds one: no lookup in, and no write to, a map
\* that was never made.
CacheMade ==
    \A p \in Procs :
        /\ call[p].at \in {"lookup", "pragma", "exists", "putKey", "forget"} => pkCache # Nil
        /\ call[p].at \in {"findStmt", "prepare", "query"} => stmtCache[call[p].op] # Nil

\* "no primary key" is cached for a table, or returned, only when the table
\* was created between the two looks of a call at it; and a key is only
\* cached for a table that is there.
KeysHonest ==
    \A t \in Tables :
        /\ pkCache # Nil /\ pkCache[t] = "key" => t \in present
        /\ pkCache # Nil /\ pkCache[t] = "zero" => t \in raced
        /\ \A p \in Procs : call[p].tbl = t /\ call[p].error = "nokey" => t \in raced

\* Initialisation never wipes out a cache that others have filled: a key is
\* forgotten only after a failed statement on its table, a statement never.
CachesKept ==
    [][/\ \A op \in Ops : stmtCache[op] # Nil =>
              stmtCache'[op] # Nil /\ stmtCache[op] \subseteq stmtCache'[op]
       /\ pkCache # Nil => /\ pkCache' # Nil
                           /\ \A t \in Tables : pkCache[t] # Unread /\ pkCache'[t] = Unread
                                => \E p \in Procs : At(p, "forget") /\ call[p].tbl = t
      ]_vars

\* Every call returns, whatever the others do with the locks.
CallsReturn == \A p \in Procs : call[p].at # "idle" ~> At(p, "idle")
=============================================================================
