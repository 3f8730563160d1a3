----------------------------- MODULE Executive -----------------------------
(***************************************************************************)
(* The executive (pkg/executive): the only writer of ctldb.  Every HTTP    *)
(* request runs in a goroutine of its own, here a handler, against one     *)
(* MySQL database.  A handler's ctldb transaction takes many round trips,  *)
(* so the handlers interleave between any two of them and a handler may    *)
(* die (error, timeout, crash) after any of them.                          *)
(*                                                                         *)
(* MySQL, as the code uses it: AUTO_INCREMENT hands out a sequence at the  *)
(* INSERT and never takes it back; a row becomes visible when its          *)
(* transaction commits; the row of table locks is held until the           *)
(* transaction that updated it ends; DELETE FROM and ALTER TABLE wait for  *)
(* open transactions that wrote to the table.                              *)
(***************************************************************************)
EXTENDS Ledger

CONSTANTS Handlers,      \* goroutines that serve requests
          Writers,       \* registered name and secret pairs, or not yet
          Cookies,       \* writer cookies
          Token,         \* tokenForWriter: the cookie of a new writer
          NoWriter,      \* no row in table mutators for this writer
          NoCheck,       \* Mutate was called without checkCookie
          Checks,        \* the values of checkCookie that clients send
          Clean,         \* the open transaction has not written this row
          Free,          \* nobody holds the row lock of locks.ledger
          MaxBatch,      \* bound: change requests in one Mutate
          MaxRequests    \* bound: Mutate and control requests, in all

ASSUME ExecutiveAssumption ==
    /\ Token \in Cookies
    /\ NoWriter \notin Cookies
    /\ NoCheck \notin Cookies
    /\ Checks \subseteq Cookies \cup {NoCheck}
    /\ Clean \notin Vals \cup {NoRow}
    /\ Free \notin Handlers
    /\ MaxBatch \in Nat
    /\ MaxRequests \in Nat

VARIABLES nextSeq,    \* AUTO_INCREMENT counter of ctlstore_dml_ledger
          db,         \* committed family tables of ctldb
          mutators,   \* committed cookie of each writer
          lock,       \* the handler that holds the ledger lock, or Free
          req,        \* what each handler is doing
          started     \* requests begun so far (for MaxRequests)

execVars == <<ledger, nextSeq, db, mutators, lock, req, started>>

-----------------------------------------------------------------------------
(* The state of a handler.                                                 *)
(*   pc     "idle"                                                         *)
(*          "lock"    Mutate before UPDATE locks                           *)
(*          "append"  Mutate holding the lock, cookie updated              *)
(*          "exec"    control request before its DDL runs on ctldb         *)
(*          "log"     control request before dlw.Add                       *)
(*          "commit"  control request before tx.Commit                     *)
(*   todo   the statements it has still to log                             *)
(*   rows   the ledger rows inserted in the open transaction               *)
(*   writes the rows of family tables written in the open transaction      *)

Pcs == {"idle", "lock", "append", "exec", "log", "commit"}

Idle == [pc |-> "idle", todo |-> << >>, rows |-> {}, txn |-> 0,
         writes |-> [t \in Tables |-> [k \in Keys |-> Clean]],
         writer |-> NoWriter, cookie |-> Token, check |-> NoCheck]

InFlight(h) == req[h].pc # "idle"
Mutating(h) == req[h].pc \in {"lock", "append"}
Controlling(h) == req[h].pc \in {"exec", "log", "commit"}

Requests == [pc : Pcs, todo : Seq(Statements), rows : SUBSET Rows, txn : Nat,
             writes : [Tables -> [Keys -> Vals \cup {NoRow, Clean}]],
             writer : Writers \cup {NoWriter}, cookie : Cookies,
             check : Cookies \cup {NoCheck}]

ExecTypeOK ==
    /\ ledger \in SUBSET Rows
    /\ nextSeq \in Nat \ {0}
    /\ db \in Databases
    /\ mutators \in [Writers -> Cookies \cup {NoWriter}]
    /\ lock \in Handlers \cup {Free}
    /\ req \in [Handlers -> Requests]
    /\ started \in Nat

ExecInit ==
    /\ ledger = {}
    /\ nextSeq = 1
    /\ db = EmptyDatabase
    /\ mutators = [w \in Writers |-> NoWriter]
    /\ lock = Free
    /\ req = [h \in Handlers |-> Idle]
    /\ started = 0

-----------------------------------------------------------------------------
(* dmlLedgerWriter.Add, BeginTx and CommitTx: INSERT in the open           *)
(* transaction of handler h.  The sequence is taken now.                   *)

\* Mutant: the row gets the last sequence handed out, not the next.
InsertOffByOne(h, st) ==
    [seq |-> nextSeq - 1,
     txn |-> IF req[h].rows = {} THEN nextSeq ELSE req[h].txn,
     st  |-> st]

Insert(h, st) ==
    [seq |-> nextSeq,
     txn |-> IF req[h].rows = {} THEN nextSeq ELSE req[h].txn,
     st  |-> st]

\* Handler h after it has inserted the row.
Added(h, st) ==
    [req[h] EXCEPT !.rows = @ \cup {Insert(h, st)}, !.txn = Insert(h, st).txn]

\* The end of handler h's request: its transaction is gone, and with it the
\* ledger lock.
Finish(h) ==
    /\ req' = [req EXCEPT ![h] = Idle]
    /\ lock' = IF lock = h THEN Free ELSE lock

-----------------------------------------------------------------------------
(* Mutate *)

\* A change request as the client sends it; NoRow stands for delete.
Changes == [tbl : Tables, key : Keys, val : Vals \cup {NoRow}]

\* fetchMetaTablesByName refuses a request that names no table.
Batches == UNION {[1..n -> Changes] : n \in 1..MaxBatch}

\* The DML of a change request, for the columns that fetchMetaTablesByName
\* found before the transaction began.
DMLOf(c) ==
    IF c.val = NoRow
    THEN [op |-> "delete", tbl |-> c.tbl, key |-> c.key]
    ELSE [op |-> "upsert", tbl |-> c.tbl, key |-> c.key, val |-> c.val,
          fs |-> db.schema[c.tbl]]

\* Mutant: no markers around two statements.
BodyMarkersOffByOne(batch) ==
    LET dmls == [i \in 1..Len(batch) |-> DMLOf(batch[i])]
    IN  IF Len(batch) > 2 THEN <<BeginKey>> \o dmls \o <<EndKey>> ELSE dmls

\* The statements Mutate logs: transaction markers only around two or more.
Body(batch) ==
    LET dmls == [i \in 1..Len(batch) |-> DMLOf(batch[i])]
    IN  IF Len(batch) > 1 THEN <<BeginKey>> \o dmls \o <<EndKey>> ELSE dmls

\* Validation, fetchMetaTablesByName and BeginTx.  Requests that are refused
\* here or by the limiter change nothing.
MutateStart(h, w, cookie, check, batch) ==
    /\ ~InFlight(h)
    /\ started < MaxRequests
    /\ \A i \in 1..Len(batch) : Exists(db, batch[i].tbl)
    /\ req' = [req EXCEPT ![h] = [Idle EXCEPT !.pc = "lock", !.todo = Body(batch),
                                              !.writer = w, !.cookie = cookie,
                                              !.check = check]]
    /\ started' = started + 1
    /\ UNCHANGED <<ledger, nextSeq, db, mutators, lock>>

\* The check of mutatorStore.Update: the writer exists and, when the client
\* sent a cookie to compare with, still has it.
CookieOK(h) ==
    LET cookie == mutators[req[h].writer]
    IN  cookie # NoWriter /\ req[h].check \in {NoCheck, cookie}

\* Mutants: the ledger lock is not waited for; the cookie is not compared.
MutateLockNoWait(h) ==
    /\ req[h].pc = "lock"
    /\ CookieOK(h)
    /\ lock' = h
    /\ req' = [req EXCEPT ![h].pc = "append"]
    /\ UNCHANGED <<ledger, nextSeq, db, mutators, started>>

MutateLockNoCompare(h) ==
    /\ req[h].pc = "lock"
    /\ lock = Free
    /\ lock' = h
    /\ req' = [req EXCEPT ![h].pc = "append"]
    /\ UNCHANGED <<ledger, nextSeq, db, mutators, started>>

\* UPDATE locks, then UPDATE mutators.  The second holds the writer's row
\* from here on, so nobody changes the cookie before this transaction ends.
MutateLock(h) ==
    /\ req[h].pc = "lock"
    /\ lock = Free
    /\ CookieOK(h)
    /\ lock' = h
    /\ req' = [req EXCEPT ![h].pc = "append"]
    /\ UNCHANGED <<ledger, nextSeq, db, mutators, started>>

\* Mutant: the DML runs on another connection than the transaction.
MutateAppendOutside(h) ==
    LET st == Head(req[h].todo)
    IN  /\ req[h].pc = "append"
        /\ req[h].todo # << >>
        /\ Runs(db, st)
        /\ req' = [req EXCEPT ![h] = [Added(h, st) EXCEPT !.todo = Tail(@)]]
        /\ db' = Exec(db, st)
        /\ nextSeq' = nextSeq + 1
        /\ UNCHANGED <<ledger, mutators, lock, started>>

\* Execute the next DML on ctldb and log it, or log a marker.
MutateAppend(h) ==
    LET st == Head(req[h].todo)
    IN  /\ req[h].pc = "append"
        /\ req[h].todo # << >>
        /\ Runs(db, st)
        /\ req' = [req EXCEPT ![h] = [Added(h, st) EXCEPT !.todo = Tail(@),
                                                          !.writes = Overwrite(@, st)]]
        /\ nextSeq' = nextSeq + 1
        /\ UNCHANGED <<ledger, db, mutators, lock, started>>

\* The family tables with the rows a transaction wrote.
Overlay(rows, writes) ==
    [t \in Tables |-> [k \in Keys |-> IF writes[t][k] = Clean THEN rows[t][k]
                                                              ELSE writes[t][k]]]

\* tx.Commit: the cookie, the rows of the family tables and the ledger rows
\* become visible together and the lock is released.
MutateCommit(h) ==
    /\ req[h].pc = "append"
    /\ req[h].todo = << >>
    /\ ledger' = ledger \cup req[h].rows
    /\ db' = [db EXCEPT !.rows = Overlay(@, req[h].writes)]
    /\ mutators' = [mutators EXCEPT ![req[h].writer] = req[h].cookie]
    /\ Finish(h)
    /\ UNCHANGED <<nextSeq, started>>

-----------------------------------------------------------------------------
(* CreateTable, AddFields and ClearTable.  Each runs its DDL on another    *)
(* connection than the transaction that logs it, and none of them takes    *)
(* the ledger lock.                                                        *)

ControlStart(h, todo) ==
    /\ ~InFlight(h)
    /\ started < MaxRequests
    /\ req' = [req EXCEPT ![h] = [Idle EXCEPT !.pc = "exec", !.todo = todo]]
    /\ started' = started + 1
    /\ UNCHANGED <<ledger, nextSeq, db, mutators, lock>>

\* A table has at least one key field.
CreateTable(h, t, fs) ==
    /\ fs # {}
    /\ ControlStart(h, <<[op |-> "create", tbl |-> t, fs |-> fs]>>)

\* One DDL and one ledger transaction for each field, in the client's order.
AddFields(h, t, fields) ==
    ControlStart(h, [i \in 1..Len(fields) |->
                        [op |-> "add", tbl |-> t, fs |-> {fields[i]}]])

ClearTable(h, t) ==
    /\ Exists(db, t)
    /\ ControlStart(h, <<[op |-> "clear", tbl |-> t]>>)

\* DELETE FROM waits for row locks, ALTER TABLE for the metadata lock, of
\* transactions that wrote to the table.
Unlocked(t) == \A h \in Handlers, k \in Keys : req[h].writes[t][k] = Clean

\* e.DB.ExecContext(ddl): effective at once, whatever becomes of the request.
ControlExec(h) ==
    LET st == Head(req[h].todo)
    IN  /\ req[h].pc = "exec"
        /\ req[h].todo # << >>
        /\ Unlocked(st.tbl)
        /\ Runs(db, st)
        /\ db' = Exec(db, st)
        /\ req' = [req EXCEPT ![h].pc = "log"]
        /\ UNCHANGED <<ledger, nextSeq, mutators, lock, started>>

ControlLog(h) ==
    /\ req[h].pc = "log"
    /\ req' = [req EXCEPT ![h] = [Added(h, Head(req[h].todo)) EXCEPT !.pc = "commit",
                                                                     !.todo = Tail(@)]]
    /\ nextSeq' = nextSeq + 1
    /\ UNCHANGED <<ledger, db, mutators, lock, started>>

\* tx.Commit; AddFields goes on with the next field.
ControlCommit(h) ==
    /\ req[h].pc = "commit"
    /\ ledger' = ledger \cup req[h].rows
    /\ req' = [req EXCEPT ![h] = IF req[h].todo = << >> THEN Idle
                                 ELSE [Idle EXCEPT !.pc = "exec", !.todo = req[h].todo]]
    /\ UNCHANGED <<nextSeq, db, mutators, lock, started>>

-----------------------------------------------------------------------------
(* RegisterWriter and SetWriterCookie are single statements outside any    *)
(* transaction.  A cookie cannot be set while an open Mutate of the same   *)
(* writer holds the row.                                                   *)

RegisterWriter(w) ==
    /\ mutators[w] = NoWriter
    /\ mutators' = [mutators EXCEPT ![w] = Token]
    /\ UNCHANGED <<ledger, nextSeq, db, lock, req, started>>

SetWriterCookie(w, cookie) ==
    /\ mutators[w] # NoWriter
    /\ lock # Free => req[lock].writer # w
    /\ mutators' = [mutators EXCEPT ![w] = cookie]
    /\ UNCHANGED <<ledger, nextSeq, db, lock, req, started>>

\* The deferred tx.Rollback after an error, a timeout or a crash: nothing
\* the transaction wrote is kept, but the sequences it took are gone and DDL
\* that ran on ctldb stays.
Rollback(h) ==
    /\ InFlight(h)
    /\ Finish(h)
    /\ UNCHANGED <<ledger, nextSeq, db, mutators, started>>

-----------------------------------------------------------------------------
MutateStep(h) ==
    \/ \E w \in Writers, cookie \in Cookies, check \in Checks, batch \in Batches :
          MutateStart(h, w, cookie, check, batch)
    \/ MutateLock(h)
    \/ MutateAppend(h)
    \/ MutateCommit(h)

ControlStep(h) ==
    \/ \E t \in Tables, fs \in SUBSET Fields : CreateTable(h, t, fs)
    \/ \E t \in Tables, n \in 1..MaxBatch : \E fields \in [1..n -> Fields] :
          AddFields(h, t, fields)
    \/ \E t \in Tables : ClearTable(h, t)
    \/ ControlExec(h)
    \/ ControlLog(h)
    \/ ControlCommit(h)

WriterStep ==
    \E w \in Writers : \/ RegisterWriter(w)
                       \/ \E cookie \in Cookies : SetWriterCookie(w, cookie)

ExecNext ==
    \/ \E h \in Handlers : MutateStep(h) \/ ControlStep(h) \/ Rollback(h)
    \/ WriterStep

ExecSpec == ExecInit /\ [][ExecNext]_execVars

-----------------------------------------------------------------------------
(* Properties.  All of them hold for any mix of requests, control requests *)
(* and failures included.                                                  *)

\* Anomaly 1 of the comment in Mutate: the bodies of two mutations never
\* overlap in the ledger.
BodiesDisjoint ==
    \A r, s, q \in ledger :
        /\ IsMutation(r) /\ IsMutation(s) /\ IsMutation(q)
        /\ r.txn = s.txn
        /\ r.seq < q.seq /\ q.seq < s.seq
        => q.txn = r.txn

\* Anomaly 2 of the comment in Mutate, between mutations: when a mutation
\* becomes visible, all its rows lie above every mutation row already visible.
MutationsInOrder ==
    [][\A r \in ledger' \ ledger, q \in ledger :
            IsMutation(r) /\ IsMutation(q) => q.seq < r.seq]_ledger

\* What the reflector finds: the mutation rows of a transaction are one DML,
\* or BEGIN, two or more DMLs, COMMIT, in sequence order, and the sequences
\* that are missing inside it were taken by control requests.
BodiesBracketed ==
    \A r \in {x \in ledger : IsMutation(x)} :
        LET body  == {q \in ledger : q.txn = r.txn}
            first == CHOOSE q \in body : \A x \in body : q.seq <= x.seq
        IN  IF Cardinality(body) = 1
            THEN r.st \notin Markers
            ELSE /\ Cardinality(body) >= 4
                 /\ first.st = BeginKey /\ LastRow(body).st = EndKey
                 /\ \A q \in body \ {first, LastRow(body)} : q.st \notin Markers

\* Compare-and-set of the writer's cookie: from the comparison to the commit,
\* several round trips later, the writer's cookie stays the one the client
\* sent, although SetWriterCookie takes no ledger lock.
CookieStaysCompared ==
    \A h \in Handlers :
        req[h].pc = "append" => /\ mutators[req[h].writer] # NoWriter
                                /\ req[h].check \in {NoCheck, mutators[req[h].writer]}

-----------------------------------------------------------------------------
(* The inductive invariant behind these properties.                        *)

\* Exactly the handler that holds the ledger lock may append mutation rows.
LockHeld == \A h \in Handlers : req[h].pc = "append" <=> lock = h

\* Which statements each kind of request has still to log, and has logged.
RightKinds ==
    \A h \in Handlers :
        /\ Mutating(h) => /\ req[h].todo \in Seq(Markers \cup DMLs)
                          /\ req[h].writer \in Writers
        /\ Controlling(h) => req[h].todo \in Seq(Controls)
        /\ req[h].pc = "log" => req[h].todo # << >>
        /\ req[h].pc \notin {"append", "commit"} => req[h].rows = {}
        /\ \A r \in req[h].rows : IsMutation(r) <=> req[h].pc = "append"

\* Sequences already handed out, committed or not, are below nextSeq, and a
\* transaction is named after the first of its rows.
SeqsTaken ==
    /\ \A r \in ledger : r.seq < nextSeq /\ r.txn <= r.seq
    /\ \A h \in Handlers : \A r \in req[h].rows :
            r.seq < nextSeq /\ r.txn <= r.seq /\ r.txn = req[h].txn

\* The open mutation began above every committed mutation row.
OpenMutationAbove ==
    \A h \in Handlers : req[h].pc = "append" =>
        \A r \in req[h].rows, q \in ledger : IsMutation(q) => q.seq < r.txn

ExecIInv ==
    /\ ExecTypeOK
    /\ LockHeld
    /\ RightKinds
    /\ SeqsTaken
    /\ OpenMutationAbove
    /\ BodiesDisjoint
    /\ CookieStaysCompared
=============================================================================
