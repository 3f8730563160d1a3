--------------------------- MODULE CtlstoreProofs ---------------------------
(***************************************************************************)
(* Proofs about the executive and the replication pipeline, for any number *)
(* of handlers, tables, rows and failures, any block size and any batches. *)
(* The first part is about the executive alone, whatever the reflectors    *)
(* do; the second about the pipeline it is part of.                        *)
(***************************************************************************)
EXTENDS Ctlstore, LedgerProofs, SequencesExt, TLAPS

USE ExecutiveAssumption, LedgerAssumption

-----------------------------------------------------------------------------
(* The statements of a mutation *)

\* The DML of a change request is a DML statement.
LEMMA DMLOfType ==
    ASSUME db \in Databases, NEW c \in Changes
    PROVE  DMLOf(c) \in DMLs
  BY DEF DMLOf, Changes, DMLs, UpsertDML, DeleteDML, Databases

\* What Mutate logs for a batch: markers and DML only.
LEMMA BodyType ==
    ASSUME db \in Databases, NEW batch \in Batches
    PROVE  Body(batch) \in Seq(Markers \cup DMLs)
  <1> DEFINE dmls == [i \in 1..Len(batch) |-> DMLOf(batch[i])]
  <1>1. PICK n \in 1..MaxBatch : batch \in [1..n -> Changes]
    BY DEF Batches
  <1>2. batch \in Seq(Changes) /\ Len(batch) \in Nat
    BY <1>1
  <1>3. dmls \in Seq(DMLs)
    BY <1>1, <1>2, DMLOfType
  <1>4. dmls \in Seq(Markers \cup DMLs)
    BY <1>3
  <1>5. <<BeginKey>> \in Seq(Markers \cup DMLs) /\ <<EndKey>> \in Seq(Markers \cup DMLs)
    BY DEF Markers
  <1>6. <<BeginKey>> \o dmls \o <<EndKey>> \in Seq(Markers \cup DMLs)
    BY <1>4, <1>5
  <1> QED
    BY <1>4, <1>6 DEF Body

-----------------------------------------------------------------------------
(* Handlers *)

LEMMA IdleType == Idle \in Requests
  BY DEF Idle, Requests, Pcs

\* An inserted row is a ledger row.
LEMMA AddedType ==
    ASSUME ExecTypeOK, NEW h \in Handlers, NEW st \in Statements
    PROVE  /\ Insert(h, st) \in Rows
           /\ Added(h, st) \in Requests
  <1>1. req[h] \in Requests /\ req[h].txn \in Nat /\ nextSeq \in Nat \ {0}
    BY DEF ExecTypeOK, Requests
  <1>2. Insert(h, st).txn \in Nat
    BY <1>1 DEF Insert
  <1>3. Insert(h, st) \in Rows
    BY <1>1 DEF Insert, Rows
  <1> QED
    BY <1>1, <1>2, <1>3 DEF Added, Requests

\* A request that begins, with statements still to log.
LEMMA StartedType ==
    ASSUME NEW pc \in Pcs, NEW todo \in Seq(Statements)
    PROVE  [Idle EXCEPT !.pc = pc, !.todo = todo] \in Requests
  BY DEF Idle, Requests

-----------------------------------------------------------------------------
(* Type correctness.  TypeStep needs from the invariant only what keeps    *)
(* Head(todo) a statement.                                                 *)

LEMMA HeadType ==
    ASSUME NEW S, NEW todo \in Seq(S), todo # << >>
    PROVE  Head(todo) \in S /\ Tail(todo) \in Seq(S)
  OBVIOUS

LEMMA TypeInit == ExecInit => ExecTypeOK
  BY EmptyDatabaseType, IdleType DEF ExecInit, ExecTypeOK

\* Every step of the executive keeps the state well typed.
LEMMA TypeStep ==
    ASSUME ExecTypeOK, RightKinds, [ExecNext]_execVars
    PROVE  ExecTypeOK'
  <1>0. \A h \in Handlers : req[h] \in Requests /\ req[h].todo \in Seq(Statements)
    BY DEF ExecTypeOK, Requests
  <1>1. ASSUME NEW h \in Handlers, NEW w \in Writers, NEW cookie \in Cookies,
               NEW check \in Cookies \cup {NoCheck}, NEW batch \in Batches,
               MutateStart(h, w, cookie, check, batch)
        PROVE  ExecTypeOK'
    <2>1. Body(batch) \in Seq(Statements)
      BY BodyType, KindsOfStatements DEF ExecTypeOK
    <2>2. [Idle EXCEPT !.pc = "lock", !.todo = Body(batch), !.writer = w,
                       !.cookie = cookie, !.check = check] \in Requests
      BY <2>1 DEF Idle, Requests, Pcs
    <2> QED
      BY <1>1, <2>2 DEF MutateStart, ExecTypeOK
  <1>2. ASSUME NEW h \in Handlers, MutateLock(h)
        PROVE  ExecTypeOK'
    <2>1. [req[h] EXCEPT !.pc = "append"] \in Requests
      BY <1>0 DEF Requests, Pcs
    <2> QED
      BY <1>2, <2>1 DEF MutateLock, ExecTypeOK
  <1>3. ASSUME NEW h \in Handlers, MutateAppend(h)
        PROVE  ExecTypeOK'
    <2> DEFINE st == Head(req[h].todo)
               new == [Added(h, st) EXCEPT !.todo = Tail(@), !.writes = Overwrite(@, st)]
    <2>1. st \in Statements /\ Tail(req[h].todo) \in Seq(Statements)
      BY <1>0, <1>3, HeadType DEF MutateAppend
    <2>2. Added(h, st) \in Requests /\ Added(h, st).todo = req[h].todo
          /\ Added(h, st).writes \in [Tables -> [Keys -> Vals \cup {NoRow, Clean}]]
      BY <2>1, <1>0, AddedType DEF Added, Requests
    <2>3. Overwrite(Added(h, st).writes, st) \in [Tables -> [Keys -> Vals \cup {NoRow, Clean}]]
      BY <2>1, <2>2, OverwriteType
    <2>4. new \in Requests
      BY <2>1, <2>2, <2>3 DEF Requests
    <2> QED
      BY <1>3, <2>4 DEF MutateAppend, ExecTypeOK
  <1>4. ASSUME NEW h \in Handlers, MutateCommit(h)
        PROVE  ExecTypeOK'
    <2>1. req[h].rows \in SUBSET Rows /\ req[h].cookie \in Cookies
          /\ req[h].writes \in [Tables -> [Keys -> Vals \cup {NoRow, Clean}]]
      BY <1>0 DEF Requests
    <2>2. Overlay(db.rows, req[h].writes) \in [Tables -> [Keys -> Vals \cup {NoRow}]]
      BY <2>1 DEF Overlay, ExecTypeOK, Databases
    <2>3. db' \in Databases
      BY <1>4, <2>2 DEF MutateCommit, ExecTypeOK, Databases
    <2> QED
      BY <1>4, <2>1, <2>3, IdleType DEF MutateCommit, Finish, ExecTypeOK
  <1>5. ASSUME NEW h \in Handlers, NEW todo \in Seq(Statements), ControlStart(h, todo)
        PROVE  ExecTypeOK'
    <2>1. [Idle EXCEPT !.pc = "exec", !.todo = todo] \in Requests
      BY StartedType DEF Pcs
    <2> QED
      BY <1>5, <2>1 DEF ControlStart, ExecTypeOK
  <1>6. ASSUME NEW h \in Handlers, NEW t \in Tables, NEW fs \in SUBSET Fields,
               CreateTable(h, t, fs)
        PROVE  ExecTypeOK'
    <2>1. [op |-> "create", tbl |-> t, fs |-> fs] \in Controls
      BY DEF Controls, CreateTableDDL
    <2>2. <<[op |-> "create", tbl |-> t, fs |-> fs]>> \in Seq(Statements)
      BY <2>1, KindsOfStatements
    <2> QED
      BY <1>5, <1>6, <2>2 DEF CreateTable
  <1>7. ASSUME NEW h \in Handlers, NEW t \in Tables, NEW n \in 1..MaxBatch,
               NEW fields \in [1..n -> Fields], AddFields(h, t, fields)
        PROVE  ExecTypeOK'
    <2>1. Len(fields) = n
      OBVIOUS
    <2>2. \A i \in 1..n : [op |-> "add", tbl |-> t, fs |-> {fields[i]}] \in Controls
      BY DEF Controls, AddColumnDDL
    <2>3. [i \in 1..n |-> [op |-> "add", tbl |-> t, fs |-> {fields[i]}]] \in Seq(Statements)
      BY <2>2, KindsOfStatements
    <2> QED
      BY <1>5, <1>7, <2>1, <2>3 DEF AddFields
  <1>8. ASSUME NEW h \in Handlers, NEW t \in Tables, ClearTable(h, t)
        PROVE  ExecTypeOK'
    <2>1. [op |-> "clear", tbl |-> t] \in Controls
      BY DEF Controls, ClearTableDDL
    <2>2. <<[op |-> "clear", tbl |-> t]>> \in Seq(Statements)
      BY <2>1, KindsOfStatements
    <2> QED
      BY <1>5, <1>8, <2>2 DEF ClearTable
  <1>9. ASSUME NEW h \in Handlers, ControlExec(h)
        PROVE  ExecTypeOK'
    <2>1. Head(req[h].todo) \in Statements
      BY <1>0, <1>9, HeadType DEF ControlExec
    <2>2. db' \in Databases
      BY <1>9, <2>1, ExecType DEF ControlExec, ExecTypeOK
    <2>3. [req[h] EXCEPT !.pc = "log"] \in Requests
      BY <1>0 DEF Requests, Pcs
    <2> QED
      BY <1>9, <2>2, <2>3 DEF ControlExec, ExecTypeOK
  <1>10. ASSUME NEW h \in Handlers, ControlLog(h)
         PROVE  ExecTypeOK'
    <2> DEFINE st == Head(req[h].todo)
    <2>1. st \in Statements /\ Tail(req[h].todo) \in Seq(Statements)
      BY <1>0, <1>10, HeadType DEF ControlLog, RightKinds
    <2>2. Added(h, st) \in Requests /\ Added(h, st).todo = req[h].todo
      BY <2>1, <1>0, AddedType DEF Added, Requests
    <2>3. [Added(h, st) EXCEPT !.pc = "commit", !.todo = Tail(@)] \in Requests
      BY <2>1, <2>2 DEF Requests, Pcs
    <2> QED
      BY <1>10, <2>3 DEF ControlLog, ExecTypeOK
  <1>11. ASSUME NEW h \in Handlers, ControlCommit(h)
         PROVE  ExecTypeOK'
    <2>1. req[h].rows \in SUBSET Rows
      BY <1>0 DEF Requests
    <2>2. [Idle EXCEPT !.pc = "exec", !.todo = req[h].todo] \in Requests
      BY <1>0, StartedType DEF Pcs
    <2> QED
      BY <1>11, <2>1, <2>2, IdleType DEF ControlCommit, ExecTypeOK
  <1>12. ASSUME NEW h \in Handlers, Rollback(h)
         PROVE  ExecTypeOK'
    BY <1>12, IdleType DEF Rollback, Finish, ExecTypeOK
  <1>13. ASSUME NEW w \in Writers, NEW cookie \in Cookies,
                RegisterWriter(w) \/ SetWriterCookie(w, cookie)
         PROVE  ExecTypeOK'
    BY <1>13 DEF RegisterWriter, SetWriterCookie, ExecTypeOK
  <1>14. CASE UNCHANGED execVars
    BY <1>14 DEF execVars, ExecTypeOK
  <1> QED
    BY <1>1, <1>2, <1>3, <1>4, <1>6, <1>7, <1>8, <1>9, <1>10, <1>11, <1>12, <1>13, <1>14
       DEF ExecNext, MutateStep, ControlStep, WriterStep

-----------------------------------------------------------------------------
(* The inductive invariant *)

LEMMA IdleFields ==
    /\ Idle.pc = "idle" /\ Idle.todo = << >> /\ Idle.rows = {} /\ Idle.txn = 0
    /\ Idle.check = NoCheck
  BY DEF Idle

LEMMA InitIInv == ExecInit => ExecIInv
  <1> SUFFICES ASSUME ExecInit PROVE ExecIInv
    OBVIOUS
  <1>1. \A h \in Handlers : req[h] = Idle
    BY DEF ExecInit
  <1>2. ledger = {} /\ lock = Free
    BY DEF ExecInit
  <1>3. LockHeld
    BY <1>1, <1>2, IdleFields DEF LockHeld
  <1>4. RightKinds
    BY <1>1, IdleFields DEF RightKinds, Mutating, Controlling
  <1>5. SeqsTaken /\ OpenMutationAbove /\ BodiesDisjoint /\ CookieStaysCompared
    BY <1>1, <1>2, IdleFields DEF SeqsTaken, OpenMutationAbove, BodiesDisjoint,
                                  CookieStaysCompared
  <1> QED
    BY <1>3, <1>4, <1>5, TypeInit DEF ExecIInv

\* A handler enters a state in which it holds neither the lock nor rows, and
\* neither the ledger nor a cookie changes: start, rollback and DDL.
LEMMA StepWithoutRows ==
    ASSUME ExecIInv, ExecTypeOK', NEW h \in Handlers, NEW n \in Requests,
           req' = [req EXCEPT ![h] = n],
           n.rows = {}, n.pc \notin {"append", "commit"},
           n.pc = "lock" => n.todo \in Seq(Markers \cup DMLs) /\ n.writer \in Writers,
           n.pc \in {"exec", "log"} => n.todo \in Seq(Controls),
           n.pc = "log" => n.todo # << >>,
           lock' = IF lock = h THEN Free ELSE lock,
           UNCHANGED <<ledger, nextSeq, mutators>>
    PROVE  ExecIInv'
  <1>1. req'[h] = n /\ \A g \in Handlers : g # h => req'[g] = req[g]
    BY DEF ExecIInv, ExecTypeOK
  <1>2. LockHeld'
    BY <1>1 DEF ExecIInv, LockHeld
  <1>3. RightKinds'
    BY <1>1 DEF ExecIInv, RightKinds, Mutating, Controlling
  <1>4. SeqsTaken'
    BY <1>1 DEF ExecIInv, SeqsTaken
  <1>5. OpenMutationAbove'
    BY <1>1 DEF ExecIInv, OpenMutationAbove
  <1>6. BodiesDisjoint'
    BY DEF ExecIInv, BodiesDisjoint
  <1>7. CookieStaysCompared'
    BY <1>1 DEF ExecIInv, CookieStaysCompared
  <1> QED
    BY <1>2, <1>3, <1>4, <1>5, <1>6, <1>7 DEF ExecIInv

\* Handler h inserts a ledger row in its transaction.
LEMMA StepAdd ==
    ASSUME ExecIInv, ExecTypeOK', NEW h \in Handlers, NEW n \in Requests,
           NEW st \in Statements,
           req' = [req EXCEPT ![h] = n],
           n.rows = req[h].rows \cup {Insert(h, st)}, n.txn = Insert(h, st).txn,
           n.writer = req[h].writer, n.check = req[h].check,
           \/ /\ req[h].pc = "append" /\ n.pc = "append"
              /\ n.todo \in Seq(Markers \cup DMLs) /\ st \in Markers \cup DMLs
           \/ /\ req[h].pc = "log" /\ n.pc = "commit"
              /\ n.todo \in Seq(Controls) /\ st \in Controls,
           nextSeq' = nextSeq + 1,
           UNCHANGED <<ledger, mutators, lock>>
    PROVE  ExecIInv'
  <1> DEFINE new == Insert(h, st)
  <1>1. req'[h] = n /\ \A g \in Handlers : g # h => req'[g] = req[g]
    BY DEF ExecIInv, ExecTypeOK
  <1>2. /\ nextSeq \in Nat \ {0}
        /\ ledger \subseteq Rows
        /\ \A g \in Handlers : req[g].rows \subseteq Rows /\ req[g].txn \in Nat
    BY DEF ExecIInv, ExecTypeOK, Requests
  <1>3. /\ new.seq = nextSeq /\ new.st = st
        /\ req[h].rows = {} => new.txn = nextSeq
        /\ req[h].rows # {} => new.txn = req[h].txn
    BY DEF Insert
  <1>4. \A r \in Rows : r.seq \in Nat /\ r.txn \in Nat
    BY DEF Rows
  <1>5. new.txn <= new.seq /\ \A r \in req[h].rows : r.txn = new.txn
    BY <1>2, <1>3, <1>4 DEF ExecIInv, SeqsTaken
  <1>6. LockHeld'
    BY <1>1 DEF ExecIInv, LockHeld
  <1>7. IsMutation(new) <=> n.pc = "append"
    BY <1>3, KindsOfStatements DEF IsMutation
  <1>8. RightKinds'
    BY <1>1, <1>7 DEF ExecIInv, RightKinds, Mutating, Controlling, IsMutation
  <1>9. SeqsTaken'
    BY <1>1, <1>2, <1>3, <1>4, <1>5 DEF ExecIInv, SeqsTaken
  <1>10. OpenMutationAbove'
    <2>1. CASE req[h].rows = {}
      BY <2>1, <1>1, <1>2, <1>3, <1>4 DEF ExecIInv, OpenMutationAbove, SeqsTaken
    <2>2. CASE req[h].rows # {}
      BY <2>2, <1>1, <1>2, <1>3, <1>5 DEF ExecIInv, OpenMutationAbove, RightKinds
    <2> QED
      BY <2>1, <2>2
  <1>11. BodiesDisjoint'
    BY DEF ExecIInv, BodiesDisjoint
  <1>12. CookieStaysCompared'
    BY <1>1 DEF ExecIInv, CookieStaysCompared
  <1> QED
    BY <1>6, <1>8, <1>9, <1>10, <1>11, <1>12 DEF ExecIInv

\* Commit of a mutation: where the lock and OpenMutationAbove are needed.
LEMMA StepMutateCommit ==
    ASSUME ExecIInv, ExecTypeOK', NEW h \in Handlers, MutateCommit(h)
    PROVE  ExecIInv'
  <1>1. req'[h] = Idle /\ \A g \in Handlers : g # h => req'[g] = req[g]
    BY DEF ExecIInv, ExecTypeOK, MutateCommit, Finish
  <1>2. /\ lock = h /\ lock' = Free
        /\ \A g \in Handlers : g # h => req[g].pc # "append"
    BY DEF ExecIInv, LockHeld, MutateCommit, Finish
  <1>3. /\ ledger \subseteq Rows /\ req[h].rows \subseteq Rows
        /\ \A r \in Rows : r.seq \in Nat /\ r.txn \in Nat
        /\ ledger' = ledger \cup req[h].rows
        /\ nextSeq' = nextSeq
    BY DEF ExecIInv, ExecTypeOK, Requests, Rows, MutateCommit
  <1>4. LockHeld'
    BY <1>1, <1>2, IdleFields DEF LockHeld
  <1>5. RightKinds'
    BY <1>1, IdleFields DEF ExecIInv, RightKinds, Mutating, Controlling
  <1>6. SeqsTaken'
    BY <1>1, <1>3, IdleFields DEF ExecIInv, SeqsTaken
  <1>7. OpenMutationAbove'
    BY <1>1, <1>2, IdleFields DEF OpenMutationAbove
  <1>8. BodiesDisjoint'
    <2>1. \A r \in req[h].rows, q \in ledger : IsMutation(q) => q.seq < r.txn
      BY DEF ExecIInv, OpenMutationAbove, MutateCommit
    <2>2. \A r \in ledger \cup req[h].rows : r.txn <= r.seq
      BY DEF ExecIInv, SeqsTaken
    <2>3. \A r, s \in req[h].rows : r.txn = s.txn
      BY DEF ExecIInv, SeqsTaken
    <2> SUFFICES ASSUME NEW r \in ledger \cup req[h].rows, NEW s \in ledger \cup req[h].rows,
                        NEW q \in ledger \cup req[h].rows,
                        IsMutation(r), IsMutation(s), IsMutation(q),
                        r.txn = s.txn, r.seq < q.seq, q.seq < s.seq
                 PROVE  q.txn = r.txn
      BY <1>3 DEF BodiesDisjoint
    <2>4. CASE r \in ledger /\ s \in ledger
      <3>1. q \in ledger
        BY <2>1, <2>2, <2>4, <1>3
      <3> QED
        BY <3>1, <2>4 DEF ExecIInv, BodiesDisjoint
    <2>5. CASE r \in req[h].rows /\ s \in req[h].rows
      <3>1. q \in req[h].rows
        BY <2>1, <2>2, <2>5, <1>3
      <3> QED
        BY <3>1, <2>3, <2>5
    <2>6. CASE r \in ledger /\ s \in req[h].rows
      BY <2>1, <2>2, <2>6, <1>3
    <2>7. CASE r \in req[h].rows /\ s \in ledger
      BY <2>1, <2>2, <2>7, <1>3
    <2> QED
      BY <2>4, <2>5, <2>6, <2>7
  <1>9. CookieStaysCompared'
    BY <1>1, <1>2, IdleFields DEF CookieStaysCompared
  <1> QED
    BY <1>4, <1>5, <1>6, <1>7, <1>8, <1>9 DEF ExecIInv

\* Commit of a control request: only control rows are added.
LEMMA StepControlCommit ==
    ASSUME ExecIInv, ExecTypeOK', NEW h \in Handlers, ControlCommit(h)
    PROVE  ExecIInv'
  <1> DEFINE n == IF req[h].todo = << >> THEN Idle
                  ELSE [Idle EXCEPT !.pc = "exec", !.todo = req[h].todo]
  <1>1. req'[h] = n /\ \A g \in Handlers : g # h => req'[g] = req[g]
    BY DEF ExecIInv, ExecTypeOK, ControlCommit
  <1>2. /\ n.rows = {} /\ n.pc \in {"idle", "exec"}
        /\ n.pc = "exec" => n.todo \in Seq(Controls)
    BY DEF Idle, ExecIInv, RightKinds, Controlling, ControlCommit
  <1>3. \A r \in req[h].rows : ~IsMutation(r)
    BY DEF ExecIInv, RightKinds, ControlCommit
  <1>4. /\ ledger' = ledger \cup req[h].rows
        /\ UNCHANGED <<nextSeq, lock, mutators>>
        /\ req[h].pc = "commit"
    BY DEF ControlCommit
  <1>5. LockHeld'
    BY <1>1, <1>2, <1>4 DEF ExecIInv, LockHeld
  <1>6. RightKinds'
    BY <1>1, <1>2, <1>4 DEF ExecIInv, RightKinds, Mutating, Controlling
  <1>7. SeqsTaken'
    BY <1>1, <1>2, <1>4, ZenonT(60) DEF ExecIInv, SeqsTaken
  <1>8. OpenMutationAbove'
    BY <1>1, <1>2, <1>3, <1>4 DEF ExecIInv, OpenMutationAbove
  <1>9. BodiesDisjoint'
    BY <1>3, <1>4 DEF ExecIInv, BodiesDisjoint
  <1>10. CookieStaysCompared'
    BY <1>1, <1>2, <1>4 DEF ExecIInv, CookieStaysCompared
  <1> QED
    BY <1>5, <1>6, <1>7, <1>8, <1>9, <1>10 DEF ExecIInv

\* The lock is taken: nothing is visible above the sequences to come.
LEMMA StepMutateLock ==
    ASSUME ExecIInv, ExecTypeOK', NEW h \in Handlers, MutateLock(h)
    PROVE  ExecIInv'
  <1>1. \A g \in Handlers : g # h => req'[g] = req[g]
    BY DEF ExecIInv, ExecTypeOK, MutateLock
  <1>2. /\ req'[h].pc = "append" /\ req'[h].rows = req[h].rows
        /\ req'[h].todo = req[h].todo /\ req'[h].writer = req[h].writer
        /\ req'[h].check = req[h].check /\ req'[h].txn = req[h].txn
    BY DEF ExecIInv, ExecTypeOK, Requests, MutateLock
  <1>3. req[h].pc = "lock" /\ req[h].rows = {}
    BY DEF ExecIInv, RightKinds, MutateLock
  <1>4. lock = Free /\ lock' = h /\ UNCHANGED <<ledger, nextSeq, mutators>> /\ CookieOK(h)
    BY DEF MutateLock
  <1>5. LockHeld'
    BY <1>1, <1>2, <1>4 DEF ExecIInv, LockHeld
  <1>6. RightKinds'
    BY <1>1, <1>2, <1>3, <1>4 DEF ExecIInv, RightKinds, Mutating, Controlling
  <1>7. SeqsTaken'
    BY <1>1, <1>2, <1>3, <1>4 DEF ExecIInv, SeqsTaken
  <1>8. OpenMutationAbove'
    BY <1>1, <1>2, <1>3, <1>4 DEF ExecIInv, OpenMutationAbove
  <1>9. BodiesDisjoint'
    BY <1>4 DEF ExecIInv, BodiesDisjoint
  <1>10. CookieStaysCompared'
    BY <1>1, <1>2, <1>4 DEF ExecIInv, CookieStaysCompared, CookieOK
  <1> QED
    BY <1>5, <1>6, <1>7, <1>8, <1>9, <1>10 DEF ExecIInv

\* A cookie changes outside any transaction.
LEMMA StepWriter ==
    ASSUME ExecIInv, ExecTypeOK', NEW w \in Writers, NEW cookie \in Cookies,
           RegisterWriter(w) \/ SetWriterCookie(w, cookie)
    PROVE  ExecIInv'
  <1>1. UNCHANGED <<ledger, nextSeq, lock, req>>
    BY DEF RegisterWriter, SetWriterCookie
  <1>2. LockHeld' /\ RightKinds' /\ SeqsTaken' /\ OpenMutationAbove' /\ BodiesDisjoint'
    BY <1>1 DEF ExecIInv, LockHeld, RightKinds, SeqsTaken, OpenMutationAbove,
                BodiesDisjoint, Mutating, Controlling
  <1>3. \A g \in Handlers : req[g].pc = "append" =>
            mutators'[req[g].writer] = mutators[req[g].writer]
    <2> SUFFICES ASSUME NEW g \in Handlers, req[g].pc = "append"
                 PROVE  mutators'[req[g].writer] = mutators[req[g].writer]
      OBVIOUS
    <2>1. lock = g /\ g # Free /\ req[g].writer \in Writers /\ mutators[req[g].writer] # NoWriter
      BY DEF ExecIInv, LockHeld, RightKinds, Mutating, CookieStaysCompared
    <2>2. req[g].writer # w
      BY <2>1 DEF RegisterWriter, SetWriterCookie
    <2> QED
      BY <2>1, <2>2 DEF RegisterWriter, SetWriterCookie, ExecIInv, ExecTypeOK
  <1>4. CookieStaysCompared'
    BY <1>1, <1>3 DEF ExecIInv, CookieStaysCompared
  <1> QED
    BY <1>2, <1>4 DEF ExecIInv

\* Every step of the executive preserves the invariant.
LEMMA StepIInv ==
    ASSUME ExecIInv, [ExecNext]_execVars
    PROVE  ExecIInv'
  <1>0. ExecTypeOK'
    BY TypeStep DEF ExecIInv
  <1>a. \A h \in Handlers : req[h] \in Requests /\ (req[h].pc # "append" => lock # h)
    BY DEF ExecIInv, ExecTypeOK, LockHeld
  <1>1. ASSUME NEW h \in Handlers, NEW w \in Writers, NEW cookie \in Cookies,
               NEW check \in Cookies \cup {NoCheck}, NEW batch \in Batches,
               MutateStart(h, w, cookie, check, batch)
        PROVE  ExecIInv'
    <2> DEFINE n == [Idle EXCEPT !.pc = "lock", !.todo = Body(batch), !.writer = w,
                                 !.cookie = cookie, !.check = check]
    <2>1. Body(batch) \in Seq(Markers \cup DMLs) /\ Body(batch) \in Seq(Statements)
      BY BodyType, KindsOfStatements DEF ExecIInv, ExecTypeOK
    <2>2. n \in Requests
      BY <2>1 DEF Idle, Requests, Pcs
    <2>3. n.rows = {} /\ n.pc = "lock" /\ n.todo = Body(batch) /\ n.writer = w
      BY DEF Idle
    <2>4. req' = [req EXCEPT ![h] = n] /\ UNCHANGED <<ledger, nextSeq, mutators>>
          /\ lock' = IF lock = h THEN Free ELSE lock
      BY <1>1, <1>a DEF MutateStart, InFlight
    <2> HIDE DEF n
    <2> QED
      BY <1>0, <2>1, <2>2, <2>3, <2>4, StepWithoutRows
  <1>2. ASSUME NEW h \in Handlers, MutateLock(h)
        PROVE  ExecIInv'
    BY <1>0, <1>2, StepMutateLock
  <1>3. ASSUME NEW h \in Handlers, MutateAppend(h)
        PROVE  ExecIInv'
    <2> DEFINE st == Head(req[h].todo)
               n == [Added(h, st) EXCEPT !.todo = Tail(@), !.writes = Overwrite(@, st)]
    <2>1. req[h].pc = "append" /\ req[h].todo \in Seq(Markers \cup DMLs)
          /\ req[h].todo # << >>
      BY <1>3 DEF ExecIInv, RightKinds, Mutating, MutateAppend
    <2>2. st \in Markers \cup DMLs /\ Tail(req[h].todo) \in Seq(Markers \cup DMLs)
          /\ st \in Statements
      BY <2>1, HeadType, KindsOfStatements
    <2>3. /\ n.rows = req[h].rows \cup {Insert(h, st)} /\ n.txn = Insert(h, st).txn
          /\ n.pc = req[h].pc /\ n.todo = Tail(req[h].todo)
          /\ n.writer = req[h].writer /\ n.check = req[h].check
      BY <1>a DEF Added, Requests
    <2>4. req' = [req EXCEPT ![h] = n] /\ nextSeq' = nextSeq + 1
          /\ UNCHANGED <<ledger, mutators, lock>>
      BY <1>3 DEF MutateAppend
    <2>5. n \in Requests
      BY <1>0, <2>4 DEF ExecIInv, ExecTypeOK
    <2> HIDE DEF n, st
    <2> QED
      BY <1>0, <2>1, <2>2, <2>3, <2>4, <2>5, StepAdd
  <1>4. ASSUME NEW h \in Handlers, MutateCommit(h)
        PROVE  ExecIInv'
    BY <1>0, <1>4, StepMutateCommit
  <1>5. ASSUME NEW h \in Handlers, NEW todo \in Seq(Controls), ControlStart(h, todo)
        PROVE  ExecIInv'
    <2> DEFINE n == [Idle EXCEPT !.pc = "exec", !.todo = todo]
    <2>1. todo \in Seq(Statements)
      BY KindsOfStatements
    <2>2. n \in Requests
      BY <2>1, StartedType DEF Pcs
    <2>3. n.rows = {} /\ n.pc = "exec" /\ n.todo = todo
      BY DEF Idle
    <2>4. req' = [req EXCEPT ![h] = n] /\ UNCHANGED <<ledger, nextSeq, mutators>>
          /\ lock' = IF lock = h THEN Free ELSE lock
      BY <1>5, <1>a DEF ControlStart, InFlight
    <2> HIDE DEF n
    <2> QED
      BY <1>0, <2>2, <2>3, <2>4, StepWithoutRows
  <1>6. ASSUME NEW h \in Handlers, NEW t \in Tables, NEW fs \in SUBSET Fields,
               CreateTable(h, t, fs)
        PROVE  ExecIInv'
    <2>1. <<[op |-> "create", tbl |-> t, fs |-> fs]>> \in Seq(Controls)
      BY DEF Controls, CreateTableDDL
    <2> QED
      BY <1>5, <1>6, <2>1 DEF CreateTable
  <1>7. ASSUME NEW h \in Handlers, NEW t \in Tables, NEW n \in 1..MaxBatch,
               NEW fields \in [1..n -> Fields], AddFields(h, t, fields)
        PROVE  ExecIInv'
    <2>1. Len(fields) = n
      OBVIOUS
    <2>2. \A i \in 1..n : [op |-> "add", tbl |-> t, fs |-> {fields[i]}] \in Controls
      BY DEF Controls, AddColumnDDL
    <2>3. [i \in 1..n |-> [op |-> "add", tbl |-> t, fs |-> {fields[i]}]] \in Seq(Controls)
      BY <2>2
    <2> QED
      BY <1>5, <1>7, <2>1, <2>3 DEF AddFields
  <1>8. ASSUME NEW h \in Handlers, NEW t \in Tables, ClearTable(h, t)
        PROVE  ExecIInv'
    <2>1. <<[op |-> "clear", tbl |-> t]>> \in Seq(Controls)
      BY DEF Controls, ClearTableDDL
    <2> QED
      BY <1>5, <1>8, <2>1 DEF ClearTable
  <1>9. ASSUME NEW h \in Handlers, ControlExec(h)
        PROVE  ExecIInv'
    <2> DEFINE n == [req[h] EXCEPT !.pc = "log"]
    <2>1. req[h].pc = "exec" /\ req[h].todo # << >>
      BY <1>9 DEF ControlExec
    <2>2. req[h].rows = {} /\ req[h].todo \in Seq(Controls)
      BY <2>1 DEF ExecIInv, RightKinds, Controlling
    <2>3. n \in Requests /\ n.pc = "log" /\ n.rows = req[h].rows /\ n.todo = req[h].todo
      BY <1>a DEF Requests, Pcs
    <2>4. req' = [req EXCEPT ![h] = n] /\ UNCHANGED <<ledger, nextSeq, mutators>>
          /\ lock' = IF lock = h THEN Free ELSE lock
      BY <1>9, <1>a, <2>1 DEF ControlExec
    <2> HIDE DEF n
    <2> QED
      BY <1>0, <2>1, <2>2, <2>3, <2>4, StepWithoutRows
  <1>10. ASSUME NEW h \in Handlers, ControlLog(h)
         PROVE  ExecIInv'
    <2> DEFINE st == Head(req[h].todo)
               n == [Added(h, st) EXCEPT !.pc = "commit", !.todo = Tail(@)]
    <2>1. req[h].pc = "log" /\ req[h].todo \in Seq(Controls) /\ req[h].todo # << >>
      BY <1>10 DEF ExecIInv, RightKinds, Controlling, ControlLog
    <2>2. st \in Controls /\ Tail(req[h].todo) \in Seq(Controls) /\ st \in Statements
      BY <2>1, HeadType, KindsOfStatements
    <2>3. /\ n.rows = req[h].rows \cup {Insert(h, st)} /\ n.txn = Insert(h, st).txn
          /\ n.pc = "commit" /\ n.todo = Tail(req[h].todo)
          /\ n.writer = req[h].writer /\ n.check = req[h].check
      BY <1>a DEF Added, Requests
    <2>4. req' = [req EXCEPT ![h] = n] /\ nextSeq' = nextSeq + 1
          /\ UNCHANGED <<ledger, mutators, lock>>
      BY <1>10 DEF ControlLog
    <2>5. n \in Requests
      BY <1>0, <2>4 DEF ExecIInv, ExecTypeOK
    <2> HIDE DEF n, st
    <2> QED
      BY <1>0, <2>1, <2>2, <2>3, <2>4, <2>5, StepAdd
  <1>11. ASSUME NEW h \in Handlers, ControlCommit(h)
         PROVE  ExecIInv'
    BY <1>0, <1>11, StepControlCommit
  <1>12. ASSUME NEW h \in Handlers, Rollback(h)
         PROVE  ExecIInv'
    <2>1. req' = [req EXCEPT ![h] = Idle] /\ UNCHANGED <<ledger, nextSeq, mutators>>
          /\ lock' = IF lock = h THEN Free ELSE lock
      BY <1>12 DEF Rollback, Finish
    <2> QED
      BY <1>0, <2>1, IdleFields, IdleType, StepWithoutRows
  <1>13. ASSUME NEW w \in Writers, NEW cookie \in Cookies,
                RegisterWriter(w) \/ SetWriterCookie(w, cookie)
         PROVE  ExecIInv'
    BY <1>0, <1>13, StepWriter
  <1>14. CASE UNCHANGED execVars
    BY <1>0, <1>14 DEF execVars, ExecIInv, LockHeld, RightKinds, SeqsTaken,
        OpenMutationAbove, BodiesDisjoint, CookieStaysCompared, Mutating, Controlling
  <1> QED
    BY <1>1, <1>2, <1>3, <1>4, <1>6, <1>7, <1>8, <1>9, <1>10, <1>11, <1>12, <1>13, <1>14
       DEF ExecNext, MutateStep, ControlStep, WriterStep

-----------------------------------------------------------------------------
(* Theorems *)

\* The inductive invariant holds in every reachable state of the executive.
THEOREM ExecInvariant == ExecSpec => []ExecIInv
  BY InitIInv, StepIInv, PTL DEF ExecSpec

\* The handlers, transactions and tables of the executive stay well typed.
THEOREM ExecTypeCorrect == ExecSpec => []ExecTypeOK
  <1>1. ExecIInv => ExecTypeOK
    BY DEF ExecIInv
  <1> QED
    BY <1>1, ExecInvariant, PTL

\* Anomaly 1 of the comment on the ledger lock in Mutate is excluded: the
\* bodies of two mutations never overlap in the ledger, whatever control
\* requests run beside them and whichever requests fail.
THEOREM ExecBodiesDisjoint == ExecSpec => []BodiesDisjoint
  <1>1. ExecIInv => BodiesDisjoint
    BY DEF ExecIInv
  <1> QED
    BY <1>1, ExecInvariant, PTL

\* Anomaly 2 of that comment is excluded between mutations: a mutation that
\* becomes visible lies above every mutation already visible.
THEOREM ExecMutationsInOrder == ExecSpec => MutationsInOrder
  <1>1. ASSUME ExecIInv, [ExecNext]_execVars
        PROVE  [\A r \in ledger' \ ledger, q \in ledger :
                    IsMutation(r) /\ IsMutation(q) => q.seq < r.seq]_ledger
    <2> SUFFICES ASSUME NEW r \in ledger' \ ledger, NEW q \in ledger,
                        IsMutation(r), IsMutation(q)
                 PROVE  q.seq < r.seq
      OBVIOUS
    <2>1. PICK h \in Handlers : MutateCommit(h) \/ ControlCommit(h)
      BY <1>1 DEF ExecNext, MutateStep, ControlStep, WriterStep, execVars,
          MutateStart, MutateLock, MutateAppend, CreateTable, AddFields, ClearTable,
          ControlStart, ControlExec, ControlLog, RegisterWriter, SetWriterCookie, Rollback
    <2>2. r \in req[h].rows
      BY <2>1 DEF MutateCommit, ControlCommit
    <2>3. req[h].pc = "append"
      BY <1>1, <2>2 DEF ExecIInv, RightKinds
    <2>4. q.seq < r.txn /\ r.txn <= r.seq
      BY <1>1, <2>2, <2>3 DEF ExecIInv, OpenMutationAbove, SeqsTaken
    <2>5. q.seq \in Nat /\ r.txn \in Nat /\ r.seq \in Nat
      BY <1>1, <2>2 DEF ExecIInv, ExecTypeOK, Requests, Rows
    <2> QED
      BY <2>4, <2>5
  <1> QED
    BY <1>1, ExecInvariant, PTL DEF ExecSpec, MutationsInOrder

\* The cookie a client sent for comparison is the writer's cookie until the
\* mutation commits or fails.
THEOREM ExecCookieCompared == ExecSpec => []CookieStaysCompared
  <1>1. ExecIInv => CookieStaysCompared
    BY DEF ExecIInv
  <1> QED
    BY <1>1, ExecInvariant, PTL

-----------------------------------------------------------------------------
(* The bodies of mutations.  BodiesBracketed is about whole bodies in the  *)
(* ledger; the invariant behind it follows a body from the statements a    *)
(* handler has still to log, through the rows of its open transaction, to  *)
(* the rows it commits.                                                    *)

\* Row r is not the last row of its transaction in R.
Later(R, r) == \E s \in R : s.txn = r.txn /\ r.seq < s.seq

\* Every transaction is in R from its first row on.
Begun(R) == \A r \in R : \E f \in R : f.txn = r.txn /\ f.seq = r.txn

\* The transaction of r has a statement in R, or two of them.
HasDML(R, r) == \E a \in R : a.txn = r.txn /\ r.seq < a.seq /\ a.st \notin Markers
HasDMLs(R, r) == \E a, b \in R :
    /\ a.txn = r.txn /\ b.txn = r.txn
    /\ r.seq < a.seq /\ a.seq < b.seq
    /\ a.st \notin Markers /\ b.st \notin Markers

\* BEGIN is the first and COMMIT the last row of a transaction of several
\* rows, there are two statements between them, and no other markers.
Bracketed(R) ==
    \A r \in R :
        /\ r.st = BeginKey <=> r.seq = r.txn /\ Later(R, r)
        /\ r.st = EndKey <=> r.seq # r.txn /\ ~Later(R, r)
        /\ r.st = BeginKey => HasDMLs(R, r)

\* A body that is still to be logged, and the rest of one.
WholeBody(todo) ==
    \/ Len(todo) = 1 /\ todo[1] \notin Markers
    \/ /\ Len(todo) >= 4 /\ todo[1] = BeginKey /\ todo[Len(todo)] = EndKey
       /\ \A i \in 2..(Len(todo) - 1) : todo[i] \notin Markers

Closing(todo) ==
    /\ todo[Len(todo)] = EndKey
    /\ \A i \in 1..(Len(todo) - 1) : todo[i] \notin Markers

\* Part of a body is in rows R, the rest is still to be logged.
HalfLogged(R, todo) ==
    /\ Closing(todo)
    /\ \E f \in R :
          /\ f.seq = f.txn /\ f.st = BeginKey
          /\ \A r \in R : r # f => r.st \notin Markers
          /\ Len(todo) >= 3 \/ (Len(todo) >= 2 /\ HasDML(R, f)) \/ HasDMLs(R, f)

\* What a request logs, by how far it has come.
InShape(n) ==
    /\ n.pc \in {"lock", "append"} =>
          \/ n.rows = {} /\ WholeBody(n.todo)
          \/ n.rows # {} /\ n.todo = << >> /\ Bracketed(n.rows)
          \/ n.rows # {} /\ n.todo # << >> /\ HalfLogged(n.rows, n.todo)
    /\ n.pc = "commit" => \E r \in n.rows : n.rows = {r} /\ r.seq = r.txn /\ r.st \notin Markers

\* The ledger and the open transactions: finite, with distinct sequences.
RowsApart ==
    /\ IsFiniteSet(ledger) /\ DistinctSeqs(ledger) /\ Begun(ledger)
    /\ \A h \in Handlers :
          /\ IsFiniteSet(req[h].rows) /\ DistinctSeqs(req[h].rows) /\ Begun(req[h].rows)
          /\ \A r \in req[h].rows, q \in ledger : q.seq # r.seq
          /\ \A g \in Handlers : g # h =>
                \A r \in req[h].rows, q \in req[g].rows : q.seq # r.seq

BodyIInv ==
    /\ ExecIInv
    /\ RowsApart
    /\ Bracketed(ledger)
    /\ \A h \in Handlers : InShape(req[h])

\* Mutate's list of statements has the shape of a body.
LEMMA BodyWhole ==
    ASSUME db \in Databases, NEW batch \in Batches
    PROVE  WholeBody(Body(batch))
  <1> DEFINE dmls == [i \in 1..Len(batch) |-> DMLOf(batch[i])]
             all == <<BeginKey>> \o dmls \o <<EndKey>>
  <1>1. PICK n \in 1..MaxBatch : batch \in [1..n -> Changes]
    BY DEF Batches
  <1>2. Len(batch) = n /\ n \in Nat \ {0}
    BY <1>1
  <1>3. dmls \in Seq(DMLs) /\ Len(dmls) = n /\ \A i \in 1..n : dmls[i] \in DMLs
    BY <1>1, <1>2, DMLOfType
  <1>4. \A st \in DMLs : st \notin Markers
    BY DEF Markers, BeginKey, EndKey, DMLs, UpsertDML, DeleteDML
  <1>5. CASE n = 1
    <2>1. Body(batch) = dmls
      BY <1>2, <1>5 DEF Body
    <2> HIDE DEF dmls
    <2> QED
      BY <1>3, <1>4, <1>5, <2>1 DEF WholeBody
  <1>6. CASE n > 1
    <2>1. Body(batch) = all
      BY <1>2, <1>6 DEF Body
    <2> HIDE DEF dmls
    <2>2. /\ all \in Seq({BeginKey, EndKey} \cup DMLs)
          /\ Len(all) = n + 2 /\ all[1] = BeginKey /\ all[n + 2] = EndKey
          /\ \A i \in 2..(n + 1) : all[i] = dmls[i - 1] /\ i - 1 \in 1..n
      BY <1>2, <1>3, <1>6
    <2> HIDE DEF all
    <2>3. \A i \in 2..(Len(all) - 1) : i \in 2..(n + 1)
      BY <1>2, <2>2
    <2>4. \A i \in 2..(Len(all) - 1) : all[i] \notin Markers
      BY <1>3, <1>4, <2>2, <2>3
    <2> QED
      BY <1>2, <1>6, <2>1, <2>2, <2>4 DEF WholeBody
  <1> QED
    BY <1>2, <1>5, <1>6

\* What a step of the executive does to ledger rows: nothing, it inserts one,
\* it commits some, or a handler has none afterwards.
LEMMA StepKinds ==
    ASSUME BodyIInv, [ExecNext]_execVars
    PROVE  \/ UNCHANGED <<ledger, nextSeq, req>>
           \/ \E h \in Handlers : MutateAppend(h) \/ ControlLog(h)
           \/ \E h \in Handlers : MutateCommit(h) \/ ControlCommit(h)
           \/ \E h \in Handlers, n \in Requests :
                 /\ req' = [req EXCEPT ![h] = n]
                 /\ n.rows = {} /\ InShape(n)
                 /\ UNCHANGED <<ledger, nextSeq>>
  <1> DEFINE Empties == \E h \in Handlers, n \in Requests :
                           /\ req' = [req EXCEPT ![h] = n]
                           /\ n.rows = {} /\ InShape(n)
                           /\ UNCHANGED <<ledger, nextSeq>>
  <1>0. ExecTypeOK' /\ \A h \in Handlers : req[h] \in Requests
    BY TypeStep DEF BodyIInv, ExecIInv, ExecTypeOK
  <1>a. \A h \in Handlers : req'[h] \in Requests
    BY <1>0 DEF ExecTypeOK
  <1>b. \A n \in Requests : n.pc \in {"idle", "exec", "log"} => InShape(n)
    BY DEF InShape
  <1>1. ASSUME NEW h \in Handlers, NEW w \in Writers, NEW cookie \in Cookies,
               NEW check \in Cookies \cup {NoCheck}, NEW batch \in Batches,
               MutateStart(h, w, cookie, check, batch)
        PROVE  Empties
    <2> DEFINE n == [Idle EXCEPT !.pc = "lock", !.todo = Body(batch), !.writer = w,
                                 !.cookie = cookie, !.check = check]
    <2>1. req' = [req EXCEPT ![h] = n] /\ UNCHANGED <<ledger, nextSeq>>
      BY <1>1 DEF MutateStart
    <2>2. n.pc = "lock" /\ n.rows = {} /\ n.todo = Body(batch)
      BY DEF Idle
    <2>3. req'[h] = n
      BY <2>1 DEF BodyIInv, ExecIInv, ExecTypeOK
    <2> HIDE DEF n
    <2>4. InShape(n)
      BY <2>2, BodyWhole DEF InShape, BodyIInv, ExecIInv, ExecTypeOK
    <2> QED
      BY <1>a, <2>1, <2>2, <2>3, <2>4
  <1>2. ASSUME NEW h \in Handlers, MutateLock(h)
        PROVE  Empties
    <2> DEFINE n == [req[h] EXCEPT !.pc = "append"]
    <2>1. req' = [req EXCEPT ![h] = n] /\ UNCHANGED <<ledger, nextSeq>> /\ req[h].pc = "lock"
      BY <1>2 DEF MutateLock
    <2>2. n.pc = "append" /\ n.rows = req[h].rows /\ n.todo = req[h].todo
      BY <1>0 DEF Requests
    <2>3. req'[h] = n /\ req[h].rows = {}
      BY <2>1 DEF BodyIInv, ExecIInv, ExecTypeOK, RightKinds
    <2> HIDE DEF n
    <2>4. InShape(n)
      BY <2>1, <2>2, <2>3 DEF InShape, BodyIInv
    <2> QED
      BY <1>a, <2>1, <2>2, <2>3, <2>4
  <1>3. ASSUME NEW h \in Handlers, NEW todo, ControlStart(h, todo)
        PROVE  Empties
    <2> DEFINE n == [Idle EXCEPT !.pc = "exec", !.todo = todo]
    <2>1. req' = [req EXCEPT ![h] = n] /\ UNCHANGED <<ledger, nextSeq>>
      BY <1>3 DEF ControlStart
    <2>2. n.pc = "exec" /\ n.rows = {}
      BY DEF Idle
    <2>3. req'[h] = n
      BY <2>1 DEF BodyIInv, ExecIInv, ExecTypeOK
    <2> HIDE DEF n
    <2> QED
      BY <1>a, <1>b, <2>1, <2>2, <2>3
  <1>4. ASSUME NEW h \in Handlers, ControlExec(h)
        PROVE  Empties
    <2> DEFINE n == [req[h] EXCEPT !.pc = "log"]
    <2>1. req' = [req EXCEPT ![h] = n] /\ UNCHANGED <<ledger, nextSeq>> /\ req[h].pc = "exec"
      BY <1>4 DEF ControlExec
    <2>2. n.pc = "log" /\ n.rows = req[h].rows
      BY <1>0 DEF Requests
    <2>3. req'[h] = n /\ req[h].rows = {}
      BY <2>1 DEF BodyIInv, ExecIInv, ExecTypeOK, RightKinds
    <2> HIDE DEF n
    <2> QED
      BY <1>a, <1>b, <2>1, <2>2, <2>3
  <1>5. ASSUME NEW h \in Handlers, Rollback(h)
        PROVE  Empties
    <2>1. req' = [req EXCEPT ![h] = Idle] /\ UNCHANGED <<ledger, nextSeq>>
      BY <1>5 DEF Rollback, Finish
    <2> QED
      BY <1>b, <2>1, IdleType, IdleFields
  <1>6. ASSUME WriterStep \/ UNCHANGED execVars
        PROVE  UNCHANGED <<ledger, nextSeq, req>>
    BY <1>6 DEF WriterStep, RegisterWriter, SetWriterCookie, execVars
  <1> HIDE DEF Empties
  <1>7. \/ Empties
        \/ UNCHANGED <<ledger, nextSeq, req>>
        \/ \E h \in Handlers : MutateAppend(h) \/ ControlLog(h)
        \/ \E h \in Handlers : MutateCommit(h) \/ ControlCommit(h)
    BY <1>1, <1>2, <1>3, <1>4, <1>5, <1>6
       DEF ExecNext, MutateStep, ControlStep, CreateTable, AddFields, ClearTable
  <1> QED
    BY <1>7 DEF Empties

\* Rows that are handed out lie below nextSeq, and have a type.
LEMMA RowFacts ==
    ASSUME ExecIInv
    PROVE  /\ nextSeq \in Nat \ {0}
           /\ \A r \in ledger : r \in Rows /\ r.seq \in Nat \ {0} /\ r.txn \in Nat
                                /\ r.seq < nextSeq /\ r.txn <= r.seq
           /\ \A h \in Handlers : req[h] \in Requests /\ req[h].txn \in Nat /\
                 \A r \in req[h].rows : r \in Rows /\ r.seq \in Nat \ {0} /\ r.txn \in Nat
                      /\ r.seq < nextSeq /\ r.txn <= r.seq /\ r.txn = req[h].txn
  BY SeqType DEF ExecIInv, ExecTypeOK, Requests, SeqsTaken

\* A handler is left without rows: nothing to show but its own shape.
LEMMA BodyStepEmpty ==
    ASSUME BodyIInv, ExecIInv', NEW h \in Handlers, NEW n \in Requests,
           req' = [req EXCEPT ![h] = n], n.rows = {}, InShape(n), ledger' = ledger
    PROVE  BodyIInv'
  <1>1. req'[h] = n /\ \A g \in Handlers : g # h => req'[g] = req[g]
    BY DEF BodyIInv, ExecIInv, ExecTypeOK
  <1>2. IsFiniteSet({}) /\ DistinctSeqs({}) /\ Begun({})
    BY FS_EmptySet DEF DistinctSeqs, Begun
  <1>3. RowsApart'
    <2>1. IsFiniteSet(ledger') /\ DistinctSeqs(ledger') /\ Begun(ledger')
      BY DEF BodyIInv, RowsApart
    <2>2. ASSUME NEW g \in Handlers
          PROVE  /\ IsFiniteSet(req'[g].rows) /\ DistinctSeqs(req'[g].rows)
                 /\ Begun(req'[g].rows)
                 /\ \A r \in req'[g].rows, q \in ledger' : q.seq # r.seq
      BY <1>1, <1>2 DEF BodyIInv, RowsApart
    <2>3. ASSUME NEW g \in Handlers, NEW k \in Handlers, k # g
          PROVE  \A r \in req'[g].rows, q \in req'[k].rows : q.seq # r.seq
      BY <1>1, <2>3 DEF BodyIInv, RowsApart
    <2> QED
      BY <2>1, <2>2, <2>3 DEF RowsApart
  <1>4. Bracketed(ledger)' /\ \A g \in Handlers : InShape(req'[g])
    BY <1>1 DEF BodyIInv, Bracketed, Later, HasDMLs
  <1> QED
    BY <1>3, <1>4 DEF BodyIInv, InShape

\* A row is inserted: it is the last row of its transaction.
LEMMA RowsApartAdd ==
    ASSUME BodyIInv, ExecIInv', NEW h \in Handlers, NEW n, NEW st \in Statements,
           req' = [req EXCEPT ![h] = n], ledger' = ledger,
           n.rows = req[h].rows \cup {Insert(h, st)}
    PROVE  RowsApart'
  <1> DEFINE new == Insert(h, st)
  <1>1. req'[h] = n /\ \A g \in Handlers : g # h => req'[g] = req[g]
    BY DEF BodyIInv, ExecIInv, ExecTypeOK
  <1>2. /\ new.seq = nextSeq
        /\ req[h].rows = {} => new.txn = nextSeq
        /\ req[h].rows # {} => new.txn = req[h].txn
    BY DEF Insert
  <1> HIDE DEF new
  <1>3. n.rows = req[h].rows \cup {new}
    BY DEF new
  <1>4. IsFiniteSet(n.rows)
    <2>1. IsFiniteSet(req[h].rows)
      BY DEF BodyIInv, RowsApart
    <2> QED
      BY <1>3, <2>1, FS_AddElement
  <1>5. DistinctSeqs(n.rows)
    BY <1>2, <1>3, RowFacts DEF BodyIInv, RowsApart, DistinctSeqs
  <1>6. Begun(n.rows)
    <2>1. CASE req[h].rows = {}
      BY <1>2, <1>3, <2>1 DEF Begun
    <2>2. CASE req[h].rows # {}
      <3>1. Begun(req[h].rows) /\ \A r \in req[h].rows : r.txn = new.txn
        BY <1>2, <2>2, RowFacts DEF BodyIInv, RowsApart
      <3> QED
        BY <1>3, <2>2, <3>1 DEF Begun
    <2> QED
      BY <2>1, <2>2
  <1>7. /\ \A q \in ledger : q.seq # new.seq
        /\ \A g \in Handlers : \A q \in req[g].rows : q.seq # new.seq
    BY <1>2, RowFacts DEF BodyIInv
  <1>8. IsFiniteSet(ledger') /\ DistinctSeqs(ledger') /\ Begun(ledger')
    BY DEF BodyIInv, RowsApart
  <1>9. ASSUME NEW g \in Handlers
        PROVE  /\ IsFiniteSet(req'[g].rows) /\ DistinctSeqs(req'[g].rows) /\ Begun(req'[g].rows)
               /\ \A r \in req'[g].rows, q \in ledger' : q.seq # r.seq
    BY <1>1, <1>3, <1>4, <1>5, <1>6, <1>7, ZenonT(60) DEF BodyIInv, RowsApart
  <1>10. ASSUME NEW g \in Handlers, NEW k \in Handlers, k # g
         PROVE  \A r \in req'[g].rows, q \in req'[k].rows : q.seq # r.seq
    BY <1>1, <1>3, <1>7, <1>10 DEF BodyIInv, RowsApart
  <1> QED
    BY <1>8, <1>9, <1>10 DEF RowsApart

LEMMA TailFacts ==
    ASSUME NEW S, NEW b \in Seq(S), b # << >>
    PROVE  /\ Len(b) \in Nat \ {0} /\ Head(b) = b[1] /\ Len(Tail(b)) = Len(b) - 1
           /\ \A i \in 1..(Len(b) - 1) : Tail(b)[i] = b[i + 1]
           /\ Tail(b) = << >> <=> Len(b) = 1
  <1>1. Len(b) \in Nat \ {0} /\ Head(b) = b[1] /\ Len(Tail(b)) = Len(b) - 1
    OBVIOUS
  <1>2. \A i \in 1..(Len(b) - 1) : Tail(b)[i] = b[i + 1]
    OBVIOUS
  <1>3. Tail(b) \in Seq(S)
    OBVIOUS
  <1>4. \A c \in Seq(S) : c = << >> <=> Len(c) = 0
    OBVIOUS
  <1>5. Tail(b) = << >> <=> Len(Tail(b)) = 0
    BY <1>3, <1>4
  <1>6. Tail(b) = << >> <=> Len(b) = 1
    BY <1>1, <1>5
  <1> QED
    BY <1>1, <1>2, <1>6

\* The open body of a mutation takes its next row.
LEMMA ShapeAdd ==
    ASSUME BodyIInv, NEW h \in Handlers, req[h].pc = "append", req[h].todo # << >>,
           NEW n, n.rows = req[h].rows \cup {Insert(h, Head(req[h].todo))},
           n.todo = Tail(req[h].todo), n.pc = "append"
    PROVE  InShape(n)
  <1> DEFINE todo == req[h].todo
             rows == req[h].rows
             new == Insert(h, Head(todo))
  <1>1. todo \in Seq(Markers \cup DMLs)
    BY DEF BodyIInv, ExecIInv, RightKinds, Mutating
  <1>2. /\ Len(todo) \in Nat \ {0} /\ Head(todo) = todo[1]
        /\ Len(Tail(todo)) = Len(todo) - 1
        /\ \A i \in 1..(Len(todo) - 1) : Tail(todo)[i] = todo[i + 1]
        /\ Tail(todo) = << >> <=> Len(todo) = 1
    <2>1. todo # << >>
      OBVIOUS
    <2> HIDE DEF todo
    <2> QED
      BY <1>1, <2>1, TailFacts
  <1>3. /\ new.seq = nextSeq /\ new.st = Head(todo)
        /\ rows = {} => new.txn = nextSeq
        /\ rows # {} => new.txn = req[h].txn
    BY DEF Insert
  <1>4. /\ nextSeq \in Nat \ {0} /\ n.rows = rows \cup {new} /\ n.rows # {}
        /\ \A r \in rows : /\ r.seq \in Nat /\ r.txn \in Nat /\ r.seq < new.seq
                            /\ r.txn <= r.seq /\ r.txn = new.txn
    BY <1>3, RowFacts DEF BodyIInv
  <1>5. BeginKey \in Markers /\ EndKey \in Markers /\ BeginKey # EndKey
    BY DEF Markers, BeginKey, EndKey
  <1>6. \/ rows = {} /\ WholeBody(todo)
        \/ rows # {} /\ HalfLogged(rows, todo)
    BY DEF BodyIInv, InShape
  <1> HIDE DEF todo, rows, new
  <1>7. CASE rows = {} /\ Len(todo) = 1 /\ todo[1] \notin Markers
    <2>1. n.rows = {new} /\ new.st \notin Markers /\ new.seq = new.txn
      BY <1>2, <1>3, <1>4, <1>7
    <2>2. Bracketed(n.rows)
      BY <1>3, <1>4, <1>5, <2>1 DEF Bracketed, Later
    <2> QED
      BY <1>2, <1>4, <1>7, <2>2 DEF InShape, todo
  <1>8. CASE /\ rows = {} /\ Len(todo) >= 4 /\ todo[1] = BeginKey /\ todo[Len(todo)] = EndKey
             /\ \A i \in 2..(Len(todo) - 1) : todo[i] \notin Markers
    <2>1. Closing(Tail(todo)) /\ Len(Tail(todo)) >= 3 /\ Tail(todo) # << >>
      BY <1>2, <1>8 DEF Closing
    <2>2. n.rows = {new} /\ new.st = BeginKey /\ new.seq = new.txn
      BY <1>2, <1>3, <1>4, <1>8
    <2>3. HalfLogged(n.rows, Tail(todo))
      BY <2>1, <2>2 DEF HalfLogged
    <2> QED
      BY <1>4, <2>1, <2>3 DEF InShape, todo
  <1>9. CASE rows # {} /\ HalfLogged(rows, todo)
    <2>1. PICK f \in rows :
            /\ f.seq = f.txn /\ f.st = BeginKey
            /\ \A r \in rows : r # f => r.st \notin Markers
            /\ Len(todo) >= 3 \/ (Len(todo) >= 2 /\ HasDML(rows, f)) \/ HasDMLs(rows, f)
      BY <1>9 DEF HalfLogged
    <2>2. HasDMLs(rows, f) => HasDMLs(n.rows, f)
      BY <1>4 DEF HasDMLs
    <2>3. \A r \in rows : r # f => f.seq < r.seq
      <3> SUFFICES ASSUME NEW r \in rows, r # f PROVE f.seq < r.seq
        OBVIOUS
      <3>1. f.seq # r.seq /\ f.seq <= r.seq
        BY <1>4, <2>1 DEF BodyIInv, RowsApart, DistinctSeqs, rows
      <3> QED
        BY <1>4, <3>1
    <2>4. CASE Len(todo) = 1
      <3>1. new.st = EndKey /\ Tail(todo) = << >> /\ HasDMLs(rows, f)
        BY <1>2, <1>3, <1>9, <2>1, <2>4 DEF HalfLogged, Closing
      <3>2. \A r \in rows : Later(n.rows, r)
        BY <1>4 DEF Later
      <3>3. ~Later(n.rows, new)
        BY <1>3, <1>4 DEF Later
      <3>4. new.seq # new.txn /\ \A r \in rows : r # f => r.seq # r.txn
        BY <1>3, <1>4, <2>1, <2>3
      <3>5. Bracketed(n.rows)
        BY <1>4, <1>5, <2>1, <2>2, <3>1, <3>2, <3>3, <3>4 DEF Bracketed
      <3> QED
        BY <1>4, <3>1, <3>5 DEF InShape, todo
    <2>5. CASE Len(todo) >= 2
      <3>1. new.st \notin Markers /\ Closing(Tail(todo)) /\ Tail(todo) # << >>
        BY <1>2, <1>3, <1>9, <2>5 DEF HalfLogged, Closing
      <3>2. f.txn = new.txn /\ f.seq < new.seq /\ new \in n.rows
        BY <1>4
      <3>3. HasDML(n.rows, f)
        BY <3>1, <3>2 DEF HasDML
      <3>4. HasDML(rows, f) => HasDMLs(n.rows, f)
        BY <1>4, <3>1, <3>2 DEF HasDML, HasDMLs
      <3>5. \/ Len(Tail(todo)) >= 3
            \/ Len(Tail(todo)) >= 2 /\ HasDML(n.rows, f)
            \/ HasDMLs(n.rows, f)
        BY <1>2, <2>1, <2>2, <3>3, <3>4
      <3>6. \A r \in n.rows : r # f => r.st \notin Markers
        BY <1>4, <2>1, <3>1
      <3>7. HalfLogged(n.rows, Tail(todo))
        BY <1>4, <2>1, <3>1, <3>5, <3>6 DEF HalfLogged
      <3> QED
        BY <1>4, <3>1, <3>7 DEF InShape, todo
    <2> QED
      BY <1>2, <2>4, <2>5
  <1> QED
    BY <1>6, <1>7, <1>8, <1>9 DEF WholeBody

\* A marker or DML is logged by the mutation that holds the lock.
LEMMA BodyStepAppend ==
    ASSUME BodyIInv, ExecIInv', NEW h \in Handlers, MutateAppend(h)
    PROVE  BodyIInv'
  <1> DEFINE st == Head(req[h].todo)
             n == [Added(h, st) EXCEPT !.todo = Tail(@), !.writes = Overwrite(@, st)]
  <1>1. req[h] \in Requests /\ req[h].todo \in Seq(Statements) /\ req[h].pc = "append"
        /\ req[h].todo # << >>
    BY DEF BodyIInv, ExecIInv, ExecTypeOK, Requests, MutateAppend
  <1>2. st \in Statements
    BY <1>1, HeadType
  <1>3. /\ n.rows = req[h].rows \cup {Insert(h, st)} /\ n.pc = "append"
        /\ n.todo = Tail(req[h].todo)
    BY <1>1 DEF Added, Requests
  <1>4. req' = [req EXCEPT ![h] = n] /\ ledger' = ledger
    BY DEF MutateAppend
  <1> HIDE DEF n
  <1>5. RowsApart'
    BY <1>2, <1>3, <1>4, RowsApartAdd
  <1>6. InShape(n)
    BY <1>1, <1>3, ShapeAdd
  <1>7. \A g \in Handlers : InShape(req'[g])
    BY <1>4, <1>6 DEF BodyIInv, ExecIInv, ExecTypeOK
  <1>8. Bracketed(ledger')
    BY <1>4 DEF BodyIInv
  <1> QED
    BY <1>5, <1>7, <1>8 DEF BodyIInv

\* A control request logs its one row.
LEMMA BodyStepLog ==
    ASSUME BodyIInv, ExecIInv', NEW h \in Handlers, ControlLog(h)
    PROVE  BodyIInv'
  <1> DEFINE st == Head(req[h].todo)
             n == [Added(h, st) EXCEPT !.pc = "commit", !.todo = Tail(@)]
  <1>1. /\ req[h] \in Requests /\ req[h].pc = "log" /\ req[h].rows = {}
        /\ req[h].todo \in Seq(Controls) /\ req[h].todo # << >>
    BY DEF BodyIInv, ExecIInv, ExecTypeOK, RightKinds, Controlling, ControlLog
  <1>2. st \in Controls /\ st \in Statements /\ st \notin Markers
    BY <1>1, HeadType, KindsOfStatements
  <1>3. n.rows = req[h].rows \cup {Insert(h, st)} /\ n.pc = "commit"
    BY <1>1 DEF Added, Requests
  <1>4. req' = [req EXCEPT ![h] = n] /\ ledger' = ledger
    BY DEF ControlLog
  <1>5. Insert(h, st).seq = Insert(h, st).txn /\ Insert(h, st).st = st
    BY <1>1 DEF Insert
  <1> HIDE DEF n, st
  <1>6. RowsApart'
    BY <1>2, <1>3, <1>4, RowsApartAdd
  <1>7. InShape(n)
    BY <1>1, <1>2, <1>3, <1>5 DEF InShape
  <1>8. \A g \in Handlers : InShape(req'[g])
    BY <1>4, <1>7 DEF BodyIInv, ExecIInv, ExecTypeOK
  <1>9. Bracketed(ledger')
    BY <1>4 DEF BodyIInv
  <1> QED
    BY <1>6, <1>8, <1>9 DEF BodyIInv

\* The transaction of a row is all in the ledger, or all in one handler.
LEMMA TxnsApart ==
    ASSUME BodyIInv, NEW h \in Handlers, NEW q \in ledger, NEW r \in req[h].rows
    PROVE  q.txn # r.txn
  BY DEF BodyIInv, RowsApart, Begun

\* Whole bodies are put beside whole bodies of other transactions.
LEMMA BracketedUnion ==
    ASSUME NEW P, NEW R, Bracketed(P), Bracketed(R), \A q \in P, r \in R : q.txn # r.txn
    PROVE  Bracketed(P \cup R)
  <1>1. \A r \in P : Later(P \cup R, r) <=> Later(P, r)
    BY DEF Later
  <1>2. \A r \in R : Later(P \cup R, r) <=> Later(R, r)
    BY DEF Later
  <1>3. \A r \in P : HasDMLs(P, r) => HasDMLs(P \cup R, r)
    BY DEF HasDMLs
  <1>4. \A r \in R : HasDMLs(R, r) => HasDMLs(P \cup R, r)
    BY DEF HasDMLs
  <1> QED
    BY <1>1, <1>2, <1>3, <1>4 DEF Bracketed

\* The rows of a transaction become visible.
LEMMA BodyStepCommit ==
    ASSUME BodyIInv, ExecIInv', NEW h \in Handlers, MutateCommit(h) \/ ControlCommit(h)
    PROVE  BodyIInv'
  <1> DEFINE rows == req[h].rows
  <1>0. \A g \in Handlers : g # h => req'[g] = req[g]
    BY DEF BodyIInv, ExecIInv, ExecTypeOK, MutateCommit, ControlCommit, Finish
  <1>1. req'[h].rows = {} /\ InShape(req'[h])
    <2>1. CASE MutateCommit(h)
      <3>1. req'[h] = Idle
        BY <2>1 DEF BodyIInv, ExecIInv, ExecTypeOK, MutateCommit, Finish
      <3> QED
        BY <3>1, IdleFields DEF InShape
    <2>2. CASE ControlCommit(h)
      <3> DEFINE n == IF req[h].todo = << >> THEN Idle
                      ELSE [Idle EXCEPT !.pc = "exec", !.todo = req[h].todo]
      <3>1. req'[h] = n
        BY <2>2 DEF BodyIInv, ExecIInv, ExecTypeOK, ControlCommit
      <3>2. n.rows = {} /\ n.pc \in {"idle", "exec"}
        BY DEF Idle
      <3> HIDE DEF n
      <3> QED
        BY <3>1, <3>2 DEF InShape
    <2> QED
      BY <2>1, <2>2
  <1>2. ledger' = ledger \cup rows
    BY DEF MutateCommit, ControlCommit
  <1>3. Bracketed(rows)
    <2>1. CASE MutateCommit(h)
      <3>1. req[h].pc = "append" /\ req[h].todo = << >>
        BY <2>1 DEF MutateCommit
      <3>2. ~WholeBody(<< >>)
        BY DEF WholeBody
      <3> QED
        BY <3>1, <3>2 DEF BodyIInv, InShape
    <2>2. CASE ControlCommit(h)
      <3>1. PICK r \in rows : rows = {r} /\ r.seq = r.txn /\ r.st \notin Markers
        BY <2>2 DEF BodyIInv, InShape, ControlCommit
      <3>2. r.seq \in Nat
        BY RowFacts DEF BodyIInv
      <3> HIDE DEF rows
      <3> QED
        BY <3>1, <3>2 DEF Bracketed, Later, Markers
    <2> QED
      BY <2>1, <2>2
  <1>4. \A q \in ledger, r \in rows : q.txn # r.txn /\ q.seq # r.seq
    BY TxnsApart DEF BodyIInv, RowsApart
  <1>5. Bracketed(ledger')
    BY <1>2, <1>3, <1>4, BracketedUnion DEF BodyIInv
  <1>6. IsFiniteSet(ledger')
    <2>1. IsFiniteSet(ledger) /\ IsFiniteSet(rows)
      BY DEF BodyIInv, RowsApart
    <2> QED
      BY <1>2, <2>1, FS_Union
  <1>7. DistinctSeqs(ledger') /\ Begun(ledger')
    <2>1. DistinctSeqs(ledger) /\ Begun(ledger) /\ DistinctSeqs(rows) /\ Begun(rows)
      BY DEF BodyIInv, RowsApart
    <2> HIDE DEF rows
    <2>2. DistinctSeqs(ledger \cup rows)
      BY <1>4, <2>1 DEF DistinctSeqs
    <2>3. Begun(ledger \cup rows)
      BY <2>1 DEF Begun
    <2> QED
      BY <1>2, <2>2, <2>3
  <1>8. IsFiniteSet({}) /\ DistinctSeqs({}) /\ Begun({})
    BY FS_EmptySet DEF DistinctSeqs, Begun
  <1>9. ASSUME NEW g \in Handlers
        PROVE  /\ IsFiniteSet(req'[g].rows) /\ DistinctSeqs(req'[g].rows)
               /\ Begun(req'[g].rows)
               /\ \A r \in req'[g].rows, q \in ledger' : q.seq # r.seq
    BY <1>0, <1>1, <1>2, <1>8 DEF BodyIInv, RowsApart
  <1>10. ASSUME NEW g \in Handlers, NEW k \in Handlers, k # g
         PROVE  \A r \in req'[g].rows, q \in req'[k].rows : q.seq # r.seq
    BY <1>0, <1>1, <1>10 DEF BodyIInv, RowsApart
  <1>11. RowsApart'
    BY <1>6, <1>7, <1>9, <1>10 DEF RowsApart
  <1>12. \A g \in Handlers : InShape(req'[g])
    BY <1>0, <1>1 DEF BodyIInv
  <1> QED
    BY <1>5, <1>11, <1>12 DEF BodyIInv

LEMMA BodyInit == ExecInit => BodyIInv
  <1> SUFFICES ASSUME ExecInit PROVE BodyIInv
    OBVIOUS
  <1>1. ledger = {} /\ \A h \in Handlers : req[h] = Idle
    BY DEF ExecInit
  <1>2. IsFiniteSet({}) /\ DistinctSeqs({}) /\ Begun({}) /\ Bracketed({})
    BY FS_EmptySet DEF DistinctSeqs, Begun, Bracketed
  <1>3. RowsApart
    BY <1>1, <1>2, IdleFields DEF RowsApart
  <1>4. \A h \in Handlers : InShape(req[h])
    BY <1>1, IdleFields DEF InShape
  <1> QED
    BY <1>1, <1>2, <1>3, <1>4, InitIInv DEF BodyIInv

\* Every step of the executive preserves the shape of the bodies.
LEMMA BodyStep ==
    ASSUME BodyIInv, [ExecNext]_execVars
    PROVE  BodyIInv'
  <1>1. ExecIInv'
    BY StepIInv DEF BodyIInv
  <1>2. CASE UNCHANGED <<ledger, nextSeq, req>>
    BY <1>1, <1>2 DEF BodyIInv, RowsApart
  <1>3. ASSUME NEW h \in Handlers, MutateAppend(h) \/ ControlLog(h)
        PROVE  BodyIInv'
    BY <1>1, <1>3, BodyStepAppend, BodyStepLog
  <1>4. ASSUME NEW h \in Handlers, MutateCommit(h) \/ ControlCommit(h)
        PROVE  BodyIInv'
    BY <1>1, <1>4, BodyStepCommit
  <1>5. ASSUME NEW h \in Handlers, NEW n \in Requests,
               req' = [req EXCEPT ![h] = n], n.rows = {}, InShape(n),
               UNCHANGED <<ledger, nextSeq>>
        PROVE  BodyIInv'
    BY <1>1, <1>5, BodyStepEmpty
  <1> QED
    BY <1>2, <1>3, <1>4, <1>5, StepKinds

\* Bodies are followed from the request to the ledger in every behaviour.
THEOREM BodyInvariant == ExecSpec => []BodyIInv
  BY BodyInit, BodyStep, PTL DEF ExecSpec

\* Four different elements make a finite set of at least four.
LEMMA FourElements ==
    ASSUME NEW S, IsFiniteSet(S), NEW a \in S, NEW b \in S, NEW c \in S, NEW d \in S,
           a # b, a # c, a # d, b # c, b # d, c # d
    PROVE  Cardinality(S) >= 4
  <1> DEFINE T == S \ {a}
             U == T \ {b}
             V == U \ {c}
  <1>1. b \in T /\ c \in U /\ d \in V
    OBVIOUS
  <1>2. IsFiniteSet(T) /\ Cardinality(T) = Cardinality(S) - 1 /\ Cardinality(S) \in Nat
    BY FS_RemoveElement, FS_CardinalityType
  <1> HIDE DEF T
  <1>3. IsFiniteSet(U) /\ Cardinality(U) = Cardinality(T) - 1
    BY <1>1, <1>2, FS_RemoveElement
  <1> HIDE DEF U
  <1>4. IsFiniteSet(V) /\ Cardinality(V) = Cardinality(U) - 1
    BY <1>1, <1>3, FS_RemoveElement
  <1> HIDE DEF V
  <1>5. Cardinality(V) \in Nat /\ Cardinality(V) # 0
    BY <1>1, <1>4, FS_EmptySet, FS_CardinalityType
  <1> QED
    BY <1>2, <1>3, <1>4, <1>5

LEMMA BracketsHold ==
    ASSUME BodyIInv
    PROVE  BodiesBracketed
  <1> SUFFICES ASSUME NEW r \in ledger
               PROVE  LET body  == {q \in ledger : q.txn = r.txn}
                          first == CHOOSE q \in body : \A x \in body : q.seq <= x.seq
                      IN  IF Cardinality(body) = 1
                          THEN r.st \notin Markers
                          ELSE /\ Cardinality(body) >= 4
                               /\ first.st = BeginKey /\ LastRow(body).st = EndKey
                               /\ \A q \in body \ {first, LastRow(body)} : q.st \notin Markers
    BY DEF BodiesBracketed
  <1> DEFINE body  == {q \in ledger : q.txn = r.txn}
             first == CHOOSE q \in body : \A x \in body : q.seq <= x.seq
             last == LastRow(body)
  <1>1. /\ DistinctSeqs(ledger) /\ Begun(ledger) /\ Bracketed(ledger) /\ ledger \in FiniteRows
        /\ \A q \in ledger : q.seq \in Nat /\ q.txn \in Nat /\ q.txn <= q.seq
    BY RowFacts DEF BodyIInv, RowsApart, FiniteRows
  <1>2. body \in FiniteRows /\ r \in body /\ body # {} /\ IsFiniteSet(body)
    BY <1>1, SubsetsFinite DEF FiniteRows
  <1>3. PICK f \in body : f.seq = r.txn
    BY <1>1 DEF Begun
  <1>4. f.seq = f.txn /\ \A x \in body : f.seq <= x.seq /\ (x # f => f.seq < x.seq)
    BY <1>1, <1>3 DEF DistinctSeqs
  <1>5. first = f
    <2>1. \A q \in body : (\A x \in body : q.seq <= x.seq) => q = f
      BY <1>1, <1>4
    <2> QED
      BY <1>4, <2>1
  <1>6. last \in body /\ \A q \in body : q.seq <= last.seq
    BY <1>2, LastRowExists
  <1>7. \A q \in body : (q # last => Later(ledger, q)) /\ ~Later(ledger, last)
    BY <1>1, <1>6 DEF DistinctSeqs, Later
  <1> HIDE DEF first, last
  <1>8. CASE Cardinality(body) = 1
    <2>1. body = {r}
      <3>1. PICK x : body = {x}
        BY <1>2, <1>8, FS_Singleton
      <3> QED
        BY <1>2, <3>1
    <2>2. r = f /\ r = last
      BY <1>3, <1>6, <2>1
    <2>3. r.st # BeginKey /\ r.st # EndKey
      BY <1>1, <1>4, <1>7, <2>2 DEF Bracketed
    <2> QED
      BY <1>8, <2>3 DEF Markers
  <1>9. CASE Cardinality(body) # 1
    <2>1. f # last
      <3> SUFFICES ASSUME f = last PROVE body = {f}
        BY <1>9, FS_Singleton
      <3> QED
        BY <1>1, <1>4, <1>6
    <2>2. f.st = BeginKey /\ last.st = EndKey
      BY <1>1, <1>3, <1>4, <1>6, <1>7, <2>1 DEF Bracketed
    <2>3. \A q \in body \ {f, last} : q.st \notin Markers
      BY <1>1, <1>3, <1>4, <1>7 DEF Bracketed, Markers
    <2>4. Cardinality(body) >= 4
      <3>1. HasDMLs(ledger, f)
        BY <1>1, <1>3, <2>2 DEF Bracketed
      <3>2. PICK a, b \in body : /\ f.seq < a.seq /\ a.seq < b.seq
                                 /\ a.st \notin Markers /\ b.st \notin Markers
        BY <1>3, <1>4, <3>1 DEF HasDMLs
      <3>3. a # b /\ a # f /\ b # f /\ a # last /\ b # last
        BY <1>1, <1>3, <2>2, <3>2 DEF Markers
      <3> HIDE DEF body
      <3> QED
        BY <1>2, <1>3, <1>6, <2>1, <3>2, <3>3, FourElements
    <2> QED
      BY <1>5, <1>9, <2>2, <2>3, <2>4 DEF first, last
  <1> QED
    BY <1>8, <1>9 DEF first, last

\* What the reflector finds in the ledger for a mutation is one DML, or BEGIN,
\* two or more DMLs and COMMIT, and nothing else, although the handler logs
\* them one by one and may fail in between.
THEOREM ExecBodiesBracketed == ExecSpec => []BodiesBracketed
  BY BracketsHold, BodyInvariant, PTL

USE ReflectorAssumption

-----------------------------------------------------------------------------
(* The inductive invariants of AloneSpec and QuietSpec *)

\* An open transaction lies above every committed row.
OpenAbove ==
    \A h \in Handlers : \A r \in req[h].rows, q \in ledger : q.seq < r.txn

\* No transaction has rows between the rows of another.
Contiguous ==
    \A q, r \in ledger : q.seq < r.seq /\ q.txn # r.txn => q.seq < r.txn

NoWrites == [t \in Tables |-> [k \in Keys |-> Clean]]

\* A database with the rows an open transaction wrote.
WithWrites(d, writes) == [d EXCEPT !.rows = Overlay(@, writes)]

\* ctldb holds what its ledger produces; a control request is ahead of the
\* ledger by the statement it has executed, a mutation by what it wrote.
DbFollows ==
    /\ (\A h \in Handlers : req[h].pc \notin {"log", "commit"}) => db = Replay(ledger)
    /\ \A h \in Handlers :
          /\ req[h].pc # "append" \/ req[h].rows = {} => req[h].writes = NoWrites
          /\ req[h].pc = "log" => db = Exec(Replay(ledger), Head(req[h].todo))
          /\ req[h].pc = "commit" => db = Replay(ledger \cup req[h].rows)
          /\ req[h].pc = "append" =>
                WithWrites(db, req[h].writes) = Replay(ledger \cup req[h].rows)

\* The ledger up to a sequence, and between two.
UpTo(n) == {r \in ledger : r.seq <= n}
Between(m, n) == {r \in ledger : m < r.seq /\ r.seq <= n}

\* The ledger has come as far as n.
Reached(n) == n = 0 \/ \E q \in ledger : n <= q.seq

\* Sequence n lies within a transaction.
Inside(n) == \E r, s \in ledger : r.txn = s.txn /\ r.seq <= n /\ n < s.seq

\* A shovel s beside an LDB l: it has read through cursor and applied up to
\* work.seq, the rest is in its buffer; LedgerTx is open exactly within a
\* transaction.
Follows(l, s) ==
    /\ Reached(l.seq) /\ Reached(s.work.seq) /\ Reached(s.cursor)
    /\ l.seq <= s.work.seq
    /\ s.up = TRUE => s.work.seq <= s.cursor
    /\ s.open = FALSE => s.work = l
    /\ s.open = TRUE <=> Inside(s.work.seq)
    /\ ~Inside(l.seq)
    /\ Lists(s.buffer, Between(s.work.seq, s.cursor))
    /\ l.db = Replay(UpTo(l.seq))
    /\ s.work.db = Replay(UpTo(s.work.seq))

ShovelFollows == Follows(ldb, shovel)

AloneIInv ==
    /\ BodyIInv
    /\ ReflTypeOK
    /\ ControlAlone
    /\ OpenAbove
    /\ Contiguous
    /\ ShovelFollows

\* Only what relates ctldb to its ledger needs that control requests complete.
QuietIInv == AloneIInv /\ DbFollows

-----------------------------------------------------------------------------
(* The reflector's types.  They need nothing of AloneSpec.                 *)

\* The query of the source: a nonempty answer lists the rows above the cursor,
\* up to the last row of the answer.
LEMMA SelectLists ==
    ASSUME BodyIInv, NEW c \in Nat, Select(c) # << >>
    PROVE  LET rows == Select(c)
               last == rows[Len(rows)]
           IN  /\ rows \in Seq(Rows) /\ last \in ledger /\ last.seq > c
               /\ Lists(rows, {r \in ledger : c < r.seq /\ r.seq <= last.seq})
  <1> DEFINE S == {r \in ledger : r.seq > c}
             rows == Select(c)
             last == rows[Len(rows)]
  <1>1. S \in FiniteRows /\ DistinctSeqs(S)
    <2>1. ledger \in FiniteRows /\ DistinctSeqs(ledger)
      BY RowFacts DEF BodyIInv, RowsApart, FiniteRows
    <2> QED
      BY <2>1, SubsetsFinite DEF DistinctSeqs
  <1>2. rows = SubSeq(OrderBySeq(S), 1, Min({Len(OrderBySeq(S)), BlockSize}))
    BY DEF Select
  <1> HIDE DEF S, rows
  <1>3. rows \in Seq(Rows) /\ last \in S /\ Lists(rows, {r \in S : r.seq <= last.seq})
    BY <1>1, <1>2, LimitLists, ZenonT(30) DEF rows
  <1>4. {r \in S : r.seq <= last.seq} = {r \in ledger : c < r.seq /\ r.seq <= last.seq}
    <2>1. \A r \in ledger : r.seq \in Nat
      BY RowFacts DEF BodyIInv
    <2> QED
      BY <1>3, <2>1 DEF S
  <1> QED
    BY <1>3, <1>4 DEF rows, S

LEMMA DownType ==
    ASSUME ldb \in LDBs
    PROVE  /\ Down \in Shovels
           /\ Down.up = FALSE /\ Down.cursor = 0 /\ Down.buffer = << >>
           /\ Down.open = FALSE /\ Down.work = ldb /\ Down.lastSeq = 0
  <1>1. FALSE \in BOOLEAN /\ 0 \in Nat /\ << >> \in Seq(Rows)
    OBVIOUS
  <1> QED
    BY <1>1 DEF Down, Shovels

\* What a step of the reflector does: it leaves everything, has no shovel's
\* progress left, reads rows, or applies one.
Reset == /\ shovel'.work = ldb /\ shovel'.open = FALSE /\ shovel'.buffer = << >>
         /\ \/ shovel'.up = FALSE /\ shovel'.cursor = 0
            \/ shovel'.up = TRUE /\ shovel'.cursor = ldb.seq
         /\ ldb' = ldb /\ shovel' \in Shovels

Reads ==
    /\ shovel.up = TRUE /\ shovel.buffer = << >> /\ Select(shovel.cursor) # << >>
    /\ shovel'.work = shovel.work /\ shovel'.open = shovel.open /\ shovel'.up = TRUE
    /\ shovel'.buffer = Select(shovel.cursor)
    /\ shovel'.cursor = Select(shovel.cursor)[Len(Select(shovel.cursor))].seq
    /\ ldb' = ldb /\ shovel' \in Shovels

Applies(r) ==
    /\ shovel.up = TRUE /\ shovel.buffer # << >> /\ r = Head(shovel.buffer)
    /\ r \in Rows /\ r.seq > shovel.work.seq
    /\ shovel'.work = Applied(r) /\ shovel'.buffer = Tail(shovel.buffer)
    /\ shovel'.up = TRUE /\ shovel'.cursor = shovel.cursor
    /\ \/ /\ r.st = BeginKey \/ (shovel.open = TRUE /\ r.st # EndKey)
          /\ shovel'.open = TRUE /\ ldb' = ldb
       \/ /\ r.st = EndKey \/ (shovel.open = FALSE /\ r.st # BeginKey)
          /\ shovel'.open = FALSE /\ ldb' = Applied(r)
    /\ ldb' \in LDBs /\ shovel' \in Shovels

LEMMA ShovelFields ==
    ASSUME ReflTypeOK
    PROVE  /\ ldb \in LDBs /\ ldb.seq \in Nat /\ ldb.db \in Databases
           /\ shovel.up \in BOOLEAN /\ shovel.open \in BOOLEAN
           /\ shovel.lastSeq \in Nat /\ shovel.cursor \in Nat
           /\ shovel.buffer \in Seq(Rows) /\ shovel.work \in LDBs
           /\ shovel.work.seq \in Nat /\ shovel.work.db \in Databases
  BY DEF ReflTypeOK, Shovels, LDBs

LEMMA AppliesRow ==
    ASSUME BodyIInv, ReflTypeOK, ApplyInTx \/ ApplyAndCommit
    PROVE  Applies(Head(shovel.buffer))
  <1> DEFINE r == Head(shovel.buffer)
  <1>1. shovel.up = TRUE /\ shovel.buffer # << >> /\ Accepted(r)
    BY ShovelFields DEF ApplyInTx, ApplyAndCommit, HasStatement
  <1>2. r \in Rows /\ Tail(shovel.buffer) \in Seq(Rows)
    BY <1>1, ShovelFields, HeadType
  <1>3. r.seq \in Nat /\ r.st \in Statements
    BY <1>2, SeqType
  <1>4. r.seq > shovel.work.seq
    BY <1>1, <1>3, ShovelFields DEF Accepted, Refused, Replayed
  <1>5. Applied(r) \in LDBs
    BY <1>3, ShovelFields, ExecType DEF Applied, LDBs
  <1> HIDE DEF r
  <1>6. ASSUME NEW o \in BOOLEAN
        PROVE  LET s == [shovel EXCEPT !.buffer = Tail(@), !.lastSeq = r.seq,
                                       !.open = o, !.work = Applied(r)]
               IN  /\ s \in Shovels /\ s.work = Applied(r) /\ s.open = o
                   /\ s.buffer = Tail(shovel.buffer) /\ s.cursor = shovel.cursor
                   /\ s.up = shovel.up
    <2>1. shovel \in Shovels
      BY DEF ReflTypeOK
    <2> QED
      BY <1>2, <1>3, <1>5, <2>1 DEF Shovels
  <1>7. TRUE \in BOOLEAN /\ FALSE \in BOOLEAN
    OBVIOUS
  <1>8. CASE ApplyInTx
    <2>1. shovel' = Advanced(r, TRUE) /\ ldb' = ldb
          /\ (r.st = BeginKey \/ (shovel.open = TRUE /\ r.st # EndKey))
      BY <1>8, ShovelFields DEF ApplyInTx, r
    <2> QED
      BY <1>1, <1>2, <1>4, <1>6, <1>7, <2>1, ShovelFields DEF Applies, Advanced, r
  <1>9. CASE ApplyAndCommit
    <2>1. shovel' = Advanced(r, FALSE) /\ ldb' = Applied(r)
          /\ (r.st = EndKey \/ (shovel.open = FALSE /\ r.st # BeginKey))
      BY <1>9, ShovelFields DEF ApplyAndCommit, r
    <2> QED
      BY <1>1, <1>2, <1>4, <1>5, <1>6, <1>7, <2>1 DEF Applies, Advanced, r
  <1> QED
    BY <1>8, <1>9

LEMMA ReflKinds ==
    ASSUME BodyIInv, ReflTypeOK, ReflNext
    PROVE  /\ ledger' = ledger /\ ReflTypeOK'
           /\ Reset \/ Reads \/ \E r \in Rows : Applies(r)
  <1>0. MaxSeq \in Nat
    BY MaxSeqIs, RowFacts DEF BodyIInv, RowsApart, FiniteRows
  <1>a. shovel \in Shovels /\ maxKnown \in Nat /\ faults \in Nat /\ ldb \in LDBs
    BY DEF ReflTypeOK
  <1>1. CASE ShovelStart
    <2> DEFINE s == [Down EXCEPT !.up = TRUE, !.cursor = ldb.seq]
    <2>1. shovel' = s /\ UNCHANGED <<ledger, ldb, maxKnown, faults>>
      BY <1>1 DEF ShovelStart
    <2>2. TRUE \in BOOLEAN
      OBVIOUS
    <2>3. /\ s \in Shovels /\ s.up = TRUE /\ s.cursor = ldb.seq /\ s.work = ldb
          /\ s.open = FALSE /\ s.buffer = << >>
      BY <1>a, <2>2, DownType, ShovelFields DEF Shovels
    <2> HIDE DEF s
    <2> QED
      BY <1>a, <2>1, <2>3 DEF Reset, ReflTypeOK
  <1>2. CASE SourceQuery
    <2> DEFINE rows == Select(shovel.cursor)
               s == [shovel EXCEPT !.buffer = rows, !.cursor = rows[Len(rows)].seq]
    <2>1. /\ shovel' = s /\ UNCHANGED <<ledger, ldb, maxKnown, faults>>
          /\ shovel.up = TRUE /\ shovel.buffer = << >> /\ rows # << >>
      BY <1>2, ShovelFields DEF SourceQuery
    <2>2. rows \in Seq(Rows) /\ rows[Len(rows)].seq \in Nat
      BY <2>1, ShovelFields, SelectLists, RowFacts DEF BodyIInv
    <2> HIDE DEF rows
    <2>3. /\ s \in Shovels /\ s.up = TRUE /\ s.work = shovel.work /\ s.open = shovel.open
          /\ s.buffer = rows /\ s.cursor = rows[Len(rows)].seq
      BY <1>a, <2>1, <2>2 DEF Shovels
    <2> HIDE DEF s
    <2> QED
      BY <1>a, <2>1, <2>3 DEF Reads, ReflTypeOK, rows
  <1>3. CASE ApplyInTx \/ ApplyAndCommit
    <2>1. Applies(Head(shovel.buffer))
      BY <1>3, AppliesRow
    <2>2. UNCHANGED <<ledger, maxKnown, faults>>
      BY <1>3 DEF ApplyInTx, ApplyAndCommit
    <2> QED
      BY <1>a, <2>1, <2>2 DEF Applies, ReflTypeOK
  <1>4. CASE ShovelAbort \/ ShovelFail \/ ProcessRestart
    <2>1. /\ shovel' = Down /\ UNCHANGED <<ledger, ldb>>
          /\ maxKnown' \in Nat /\ faults' \in Nat
      BY <1>0, <1>4, <1>a DEF ShovelAbort, ShovelFail, ProcessRestart
    <2> QED
      BY <1>a, <2>1, DownType DEF Reset, ReflTypeOK
  <1> QED
    BY <1>1, <1>2, <1>3, <1>4 DEF ReflNext, ShovelStep

-----------------------------------------------------------------------------
(* What holds whatever the requests do *)

\* Types, and the writer's transaction is never behind the committed LDB.
SafeIInv == BodyIInv /\ ReflTypeOK /\ ldb.seq <= shovel.work.seq

LEMMA EmptyLDBType == EmptyLDB \in LDBs
  BY EmptyDatabaseType DEF EmptyLDB, LDBs

LEMMA ReflInitType ==
    ASSUME ExecInit, ReflInit
    PROVE  /\ ReflTypeOK /\ MaxSeq = 0
           /\ ldb.seq = 0 /\ ldb.db = EmptyDatabase /\ shovel.work = ldb
           /\ shovel.up = FALSE /\ shovel.open = FALSE /\ shovel.cursor = 0
           /\ shovel.buffer = << >>
  <1>1. ledger = {} /\ {} \in FiniteRows
    BY FS_EmptySet DEF ExecInit, FiniteRows
  <1>2. MaxSeq = 0
    BY <1>1, MaxSeqIs
  <1>3. FALSE \in BOOLEAN /\ 0 \in Nat /\ << >> \in Seq(Rows)
    OBVIOUS
  <1>4. shovel \in Shovels
    BY <1>3, EmptyLDBType DEF ReflInit, Shovels
  <1> QED
    BY <1>2, <1>3, <1>4, EmptyLDBType DEF ReflInit, ReflTypeOK, EmptyLDB

LEMMA ExecPart ==
    ASSUME BodyIInv, [Next]_vars
    PROVE  BodyIInv'
  <1>1. CASE ExecutiveStep
    BY <1>1, BodyStep DEF ExecutiveStep
  <1>2. CASE ReflectorStep
    <2>1. UNCHANGED execVars
      BY <1>2 DEF ReflectorStep, execVars, ReflNext, ShovelStep, ShovelStart, SourceQuery,
                  ShovelAbort, ApplyInTx, ApplyAndCommit, ShovelFail, ProcessRestart
    <2> QED
      BY <2>1, BodyStep
  <1>3. CASE UNCHANGED vars
    BY <1>3, BodyStep DEF vars, execVars
  <1> QED
    BY <1>1, <1>2, <1>3 DEF Next

LEMMA SafeStep ==
    ASSUME SafeIInv, [Next]_vars
    PROVE  /\ SafeIInv'
           /\ ldb' = ldb \/ ldb'.seq > ldb.seq
  <1>1. BodyIInv'
    BY ExecPart DEF SafeIInv
  <1>2. CASE ExecutiveStep \/ UNCHANGED vars
    BY <1>1, <1>2 DEF ExecutiveStep, vars, reflVars, SafeIInv, ReflTypeOK
  <1>3. CASE ReflectorStep
    <2>1. ReflTypeOK' /\ (Reset \/ Reads \/ \E r \in Rows : Applies(r))
      BY <1>3, ReflKinds DEF ReflectorStep, SafeIInv
    <2>2. CASE Reset \/ Reads
      BY <1>1, <2>1, <2>2, ShovelFields DEF Reset, Reads, SafeIInv
    <2>3. ASSUME NEW r \in Rows, Applies(r)
          PROVE  SafeIInv' /\ (ldb' = ldb \/ ldb'.seq > ldb.seq)
      BY <1>1, <2>1, <2>3, ShovelFields, SeqType DEF Applies, Applied, SafeIInv
    <2> QED
      BY <2>1, <2>2, <2>3
  <1> QED
    BY <1>2, <1>3 DEF Next

LEMMA SafeInvariant == Spec => []SafeIInv
  <1>1. Init => SafeIInv
    BY BodyInit, ReflInitType DEF Init, SafeIInv
  <1>2. SafeIInv /\ [Next]_vars => SafeIInv'
    BY SafeStep
  <1> QED
    BY <1>1, <1>2, PTL DEF Spec

\* The executive and the reflector stay well typed: in particular every row of
\* the source's buffer is a ledger row.
THEOREM PipelineTypeCorrect == Spec => []TypeOK
  <1>1. SafeIInv => TypeOK
    BY DEF SafeIInv, BodyIInv, ExecIInv, TypeOK
  <1> QED
    BY <1>1, SafeInvariant, PTL

\* The sequence tracker of the LDB never goes back, with control requests and
\* failures of any kind, and across restarts: the writer refuses what its
\* transaction has seen, and that is never behind the LDB.
THEOREM TrackerOnlyAdvances == Spec => TrackerAdvances
  <1>1. SafeIInv /\ [Next]_vars => [ldb'.seq > ldb.seq]_ldb
    BY SafeStep
  <1> QED
    BY <1>1, SafeInvariant, PTL DEF Spec, TrackerAdvances

-----------------------------------------------------------------------------
(* The shovel and the writer, under AloneIInv *)

\* The row at the head of the buffer is the next row of the ledger after the
\* last one applied; it is the first row of its transaction exactly when the
\* LDB is between two transactions.
LEMMA HeadIsNext ==
    ASSUME AloneIInv, shovel.buffer # << >>, NEW r, r = Head(shovel.buffer)
    PROVE  /\ r \in ledger /\ r \in Rows /\ shovel.work.seq < r.seq
           /\ Lists(Tail(shovel.buffer), Between(r.seq, shovel.cursor))
           /\ r.seq <= shovel.cursor
           /\ UpTo(r.seq) = UpTo(shovel.work.seq) \cup {r}
           /\ Inside(shovel.work.seq) <=> r.seq # r.txn
           /\ Inside(r.seq) <=> Later(ledger, r)
  <1> DEFINE w == shovel.work.seq
             c == shovel.cursor
             S == Between(w, c)
  <1>1. Lists(shovel.buffer, S)
    BY DEF AloneIInv, ShovelFollows, Follows
  <1>2. /\ r \in S /\ r \in Rows /\ \A q \in S : q # r => r.seq < q.seq
        /\ Lists(Tail(shovel.buffer), S \ {r})
    <2> HIDE DEF S
    <2> QED
      BY <1>1, TailLists
  <1>3. w \in Nat /\ c \in Nat
    BY ShovelFields DEF AloneIInv
  <1>4. \A q \in ledger : q.seq \in Nat /\ q.txn \in Nat /\ q.txn <= q.seq
    BY RowFacts DEF AloneIInv, BodyIInv
  <1> HIDE DEF w, c
  <1>5. r \in ledger /\ w < r.seq /\ r.seq <= c
    BY <1>2 DEF Between
  <1>6. \A q \in ledger : q.seq <= w \/ q = r \/ r.seq < q.seq
    BY <1>2, <1>3, <1>4, <1>5 DEF Between
  <1>7. S \ {r} = Between(r.seq, c)
    BY <1>2, <1>3, <1>4, <1>5 DEF Between
  <1>8. UpTo(r.seq) = UpTo(w) \cup {r}
    BY <1>3, <1>4, <1>5, <1>6 DEF UpTo
  <1>9. \A q, s \in ledger : q.seq < s.seq /\ q.txn # s.txn => q.seq < s.txn
    BY DEF AloneIInv, Contiguous
  <1>10. Inside(w) <=> r.seq # r.txn
    <2>1. ASSUME r.seq # r.txn
          PROVE  Inside(w)
      <3>1. PICK f \in ledger : f.txn = r.txn /\ f.seq = r.txn
        BY <1>5 DEF AloneIInv, BodyIInv, RowsApart, Begun
      <3>2. f.seq <= w
        BY <1>4, <1>5, <1>6, <2>1, <3>1
      <3> QED
        BY <1>5, <3>1, <3>2 DEF Inside
    <2>2. ASSUME r.seq = r.txn, Inside(w)
          PROVE  FALSE
      <3>1. PICK a, b \in ledger : a.txn = b.txn /\ a.seq <= w /\ w < b.seq
        BY <2>2 DEF Inside
      <3>2. a.txn <= w
        BY <1>3, <1>4, <3>1
      <3>3. b.txn # r.txn /\ b # r
        BY <1>3, <1>4, <1>5, <2>2, <3>1, <3>2
      <3>4. r.seq < b.seq
        BY <1>3, <1>4, <1>6, <3>1, <3>3
      <3>5. r.seq < b.txn
        BY <1>5, <1>9, <3>3, <3>4
      <3> QED
        BY <1>3, <1>4, <1>5, <3>1, <3>2, <3>5
    <2> QED
      BY <2>1, <2>2
  <1>11. Inside(r.seq) <=> Later(ledger, r)
    <2>1. ASSUME Later(ledger, r)
          PROVE  Inside(r.seq)
      <3>1. r.seq <= r.seq
        BY <1>4, <1>5
      <3> QED
        BY <1>5, <2>1, <3>1 DEF Later, Inside
    <2>2. ASSUME Inside(r.seq)
          PROVE  Later(ledger, r)
      <3>1. PICK a, b \in ledger : a.txn = b.txn /\ a.seq <= r.seq /\ r.seq < b.seq
        BY <2>2 DEF Inside
      <3>2. b.txn = r.txn
        BY <1>4, <1>5, <1>9, <3>1
      <3> QED
        BY <3>1, <3>2 DEF Later
    <2> QED
      BY <2>1, <2>2
  <1> QED
    BY <1>2, <1>5, <1>7, <1>8, <1>10, <1>11 DEF w, c

\* A step of the reflector keeps what relates it to the ledger.
LEMMA ShovelStepFollows ==
    ASSUME AloneIInv, Reset \/ Reads \/ \E r \in Rows : Applies(r)
    PROVE  Follows(ldb', shovel')
  <1>0. /\ Follows(ldb, shovel) /\ ReflTypeOK /\ BodyIInv
        /\ \A q \in ledger : q \in Rows /\ q.seq \in Nat \ {0} /\ q.txn \in Nat
    BY RowFacts DEF AloneIInv, BodyIInv, ShovelFollows
  <1>a. /\ ldb.seq \in Nat /\ shovel.work.seq \in Nat /\ shovel.cursor \in Nat
        /\ shovel.open \in BOOLEAN
    BY <1>0, ShovelFields
  <1>1. CASE Reset
    <2>1. Lists(<< >>, {})
      BY DEF Lists
    <2>2. shovel'.cursor \in {0, ldb.seq} /\ (shovel'.up = TRUE => shovel'.cursor = ldb.seq)
      BY <1>1 DEF Reset
    <2>3. Between(ldb.seq, shovel'.cursor) = {}
      BY <1>0, <1>a, <2>2 DEF Between
    <2>4. Reached(0) /\ ldb.seq <= ldb.seq
      BY <1>a DEF Reached
    <2> QED
      BY <1>0, <1>1, <2>1, <2>2, <2>3, <2>4 DEF Reset, Follows
  <1>2. CASE Reads
    <2> DEFINE rows == Select(shovel.cursor)
               last == rows[Len(rows)]
    <2>1. /\ last \in ledger /\ last.seq > shovel.cursor
          /\ Lists(rows, Between(shovel.cursor, last.seq))
      BY <1>0, <1>2, <1>a, SelectLists DEF Reads, Between
    <2>2. Between(shovel.work.seq, shovel.cursor) = {} /\ shovel.work.seq <= shovel.cursor
      BY <1>0, <1>2 DEF Reads, Follows, Lists
    <2> HIDE DEF rows, last
    <2>3. Between(shovel.work.seq, last.seq) = Between(shovel.cursor, last.seq)
      BY <1>0, <1>a, <2>1, <2>2 DEF Between
    <2>4. Reached(last.seq) /\ shovel.work.seq <= last.seq
      BY <1>0, <1>a, <2>1, <2>2 DEF Reached
    <2>5. /\ shovel'.work = shovel.work /\ shovel'.open = shovel.open /\ ldb' = ldb
          /\ shovel'.buffer = rows /\ shovel'.cursor = last.seq
      BY <1>2 DEF Reads, rows, last
    <2> QED
      BY <1>0, <2>1, <2>3, <2>4, <2>5 DEF Follows
  <1>3. ASSUME NEW r \in Rows, Applies(r)
        PROVE  Follows(ldb', shovel')
    <2>1. shovel.buffer # << >> /\ r = Head(shovel.buffer)
      BY <1>3 DEF Applies
    <2>2. /\ r \in ledger /\ shovel.work.seq < r.seq
          /\ Lists(Tail(shovel.buffer), Between(r.seq, shovel.cursor))
          /\ r.seq <= shovel.cursor
          /\ UpTo(r.seq) = UpTo(shovel.work.seq) \cup {r}
          /\ Inside(shovel.work.seq) <=> r.seq # r.txn
          /\ Inside(r.seq) <=> Later(ledger, r)
      BY <2>1, HeadIsNext
    <2>3. Replay(UpTo(r.seq)) = Exec(shovel.work.db, r.st)
      <3>1. UpTo(shovel.work.seq) \in FiniteRows
        BY <1>0, SubsetsFinite DEF BodyIInv, RowsApart, FiniteRows, UpTo
      <3>2. \A q \in UpTo(shovel.work.seq) : q.seq < r.seq
        BY <1>0, <1>a, <2>2 DEF UpTo
      <3> QED
        BY <1>0, <2>2, <3>1, <3>2, ReplayNext DEF Follows
    <2>4. /\ shovel'.work = Applied(r) /\ shovel'.work.seq = r.seq
          /\ shovel'.work.db = Exec(shovel.work.db, r.st)
          /\ shovel'.buffer = Tail(shovel.buffer) /\ shovel'.cursor = shovel.cursor
      BY <1>3 DEF Applies, Applied
    <2>5. Reached(r.seq)
      BY <1>0, <2>2 DEF Reached
    <2>6. /\ r.st = BeginKey <=> r.seq = r.txn /\ Later(ledger, r)
          /\ r.st = EndKey <=> r.seq # r.txn /\ ~Later(ledger, r)
      BY <1>0, <2>2 DEF BodyIInv, Bracketed
    <2>7. shovel.open = TRUE <=> r.seq # r.txn
      BY <1>0, <2>2 DEF Follows
    <2>8. CASE /\ r.st = BeginKey \/ (shovel.open = TRUE /\ r.st # EndKey)
               /\ shovel'.open = TRUE /\ ldb' = ldb
      <3>1. Later(ledger, r)
        BY <2>6, <2>7, <2>8
      <3>2. ldb.seq <= r.seq
        BY <1>0, <1>a, <2>2 DEF Follows
      <3> QED
        BY <1>0, <2>2, <2>3, <2>4, <2>5, <2>8, <3>1, <3>2 DEF Follows
    <2>9. CASE /\ r.st = EndKey \/ (shovel.open = FALSE /\ r.st # BeginKey)
               /\ shovel'.open = FALSE /\ ldb' = Applied(r)
      <3>1. ~Later(ledger, r)
        BY <1>a, <2>6, <2>7, <2>9
      <3>2. r.seq <= r.seq
        BY <1>0, <2>2
      <3> QED
        BY <1>0, <2>2, <2>3, <2>4, <2>5, <2>9, <3>1, <3>2 DEF Follows
    <2> QED
      BY <1>3, <2>8, <2>9 DEF Applies
  <1> QED
    BY <1>1, <1>2, <1>3

\* Rows above everything read or applied disturb nothing of the reflector.
LEMMA LedgerGrows ==
    ASSUME AloneIInv, NEW h \in Handlers, ledger' = ledger \cup req[h].rows,
           UNCHANGED reflVars
    PROVE  ShovelFollows'
  <1> DEFINE new == req[h].rows
  <1>1. /\ Follows(ldb, shovel)
        /\ \A q \in ledger \cup new : q.seq \in Nat \ {0} /\ q.txn \in Nat /\ q.txn <= q.seq
        /\ \A r \in new, q \in ledger : q.seq < r.txn /\ q.txn # r.txn
    BY RowFacts, TxnsApart DEF AloneIInv, BodyIInv, ShovelFollows, OpenAbove
  <1>2. ldb.seq \in Nat /\ shovel.work.seq \in Nat /\ shovel.cursor \in Nat
    BY ShovelFields DEF AloneIInv
  <1> HIDE DEF new
  <1>3. ASSUME NEW n \in Nat, Reached(n)
        PROVE  /\ \A r \in new : n < r.seq
               /\ {r \in ledger \cup new : r.seq <= n} = UpTo(n)
               /\ n = 0 \/ \E q \in ledger \cup new : n <= q.seq
               /\ (\E r, s \in ledger \cup new : r.txn = s.txn /\ r.seq <= n /\ n < s.seq)
                     <=> Inside(n)
    <2>1. \A r \in new : n < r.seq
      BY <1>1, <1>3 DEF Reached
    <2>2. {r \in ledger \cup new : r.seq <= n} = UpTo(n)
      BY <1>1, <2>1 DEF UpTo
    <2>3. n = 0 \/ \E q \in ledger \cup new : n <= q.seq
      BY <1>3 DEF Reached
    <2>4. ASSUME NEW r \in ledger \cup new, NEW s \in ledger \cup new,
                 r.txn = s.txn, r.seq <= n, n < s.seq
          PROVE  r \in ledger /\ s \in ledger
      BY <1>1, <2>1, <2>4
    <2> QED
      BY <2>1, <2>2, <2>3, <2>4 DEF Inside
  <1>4. {r \in ledger \cup new : shovel.work.seq < r.seq /\ r.seq <= shovel.cursor}
            = Between(shovel.work.seq, shovel.cursor)
    BY <1>1, <1>2, <1>3 DEF Follows, Between
  <1>5. Reached(ldb.seq) /\ Reached(shovel.work.seq) /\ Reached(shovel.cursor)
    BY <1>1 DEF Follows
  <1>6. ledger' = ledger \cup new /\ ldb' = ldb /\ shovel' = shovel
    BY DEF new, reflVars
  <1>7. /\ Reached(ldb.seq)' /\ Reached(shovel.work.seq)' /\ Reached(shovel.cursor)'
        /\ UpTo(ldb.seq)' = UpTo(ldb.seq) /\ UpTo(shovel.work.seq)' = UpTo(shovel.work.seq)
        /\ Inside(ldb.seq)' <=> Inside(ldb.seq)
        /\ Inside(shovel.work.seq)' <=> Inside(shovel.work.seq)
        /\ Between(shovel.work.seq, shovel.cursor)' = Between(shovel.work.seq, shovel.cursor)
    <2>1. /\ Reached(ldb.seq)' <=> (ldb.seq = 0 \/ \E q \in ledger \cup new : ldb.seq <= q.seq)
          /\ UpTo(ldb.seq)' = {r \in ledger \cup new : r.seq <= ldb.seq}
          /\ Inside(ldb.seq)' <=>
                \E r, s \in ledger \cup new : r.txn = s.txn /\ r.seq <= ldb.seq /\ ldb.seq < s.seq
      BY <1>6 DEF Reached, UpTo, Inside
    <2>2. /\ Reached(shovel.work.seq)' <=>
                (shovel.work.seq = 0 \/ \E q \in ledger \cup new : shovel.work.seq <= q.seq)
          /\ UpTo(shovel.work.seq)' = {r \in ledger \cup new : r.seq <= shovel.work.seq}
          /\ Inside(shovel.work.seq)' <=>
                \E r, s \in ledger \cup new :
                   r.txn = s.txn /\ r.seq <= shovel.work.seq /\ shovel.work.seq < s.seq
      BY <1>6 DEF Reached, UpTo, Inside
    <2>3. /\ Reached(shovel.cursor)' <=>
                (shovel.cursor = 0 \/ \E q \in ledger \cup new : shovel.cursor <= q.seq)
          /\ Between(shovel.work.seq, shovel.cursor)' =
                {r \in ledger \cup new : shovel.work.seq < r.seq /\ r.seq <= shovel.cursor}
      BY <1>6 DEF Reached, Between
    <2> QED
      BY <1>2, <1>3, <1>4, <1>5, <2>1, <2>2, <2>3
  <1> QED
    BY <1>1, <1>6, <1>7 DEF ShovelFollows, Follows

-----------------------------------------------------------------------------
(* ctldb and its ledger *)

\* Beside a mutation there is no control request and no second mutation that
\* has the lock; beside a control request there is nothing.
LEMMA Alone ==
    ASSUME AloneIInv, NEW h \in Handlers, NEW g \in Handlers, g # h
    PROVE  /\ req[h].pc \in {"exec", "log", "commit"} => req[g].pc = "idle"
           /\ req[h].pc \in {"lock", "append"} => req[g].pc \notin {"exec", "log", "commit"}
           /\ req[h].pc = "append" => req[g].pc # "append"
  BY DEF AloneIInv, ControlAlone, Controlling, InFlight, BodyIInv, ExecIInv, LockHeld

\* At most one handler has rows in an open transaction.
LEMMA OneOpen ==
    ASSUME AloneIInv, NEW h \in Handlers, req[h].pc \in {"append", "commit"},
           NEW g \in Handlers, g # h
    PROVE  req[g].rows = {} /\ req[g].pc \notin {"append", "log", "commit"}
  <1>1. req[g].pc \notin {"append", "log", "commit"}
    BY Alone
  <1> QED
    BY <1>1 DEF AloneIInv, BodyIInv, ExecIInv, RightKinds

\* Writing through the open transaction is executing on the merged database.
LEMMA WritesExecute ==
    ASSUME NEW d \in Databases, NEW st \in Markers \cup DMLs,
           NEW writes \in [Tables -> [Keys -> Vals \cup {NoRow, Clean}]]
    PROVE  Exec(WithWrites(d, writes), st) = WithWrites(d, Overwrite(writes, st))
  <1> DEFINE e == WithWrites(d, writes)
  <1>1. /\ d.schema \in [Tables -> SUBSET Fields]
        /\ d.rows \in [Tables -> [Keys -> Vals \cup {NoRow}]]
        /\ d = [schema |-> d.schema, rows |-> d.rows]
    BY DEF Databases
  <1>2. e = [schema |-> d.schema, rows |-> Overlay(d.rows, writes)]
    BY <1>1 DEF WithWrites
  <1>3. st.op \notin {"create", "add", "clear"}
    BY DEF Markers, BeginKey, EndKey, DMLs, UpsertDML, DeleteDML
  <1>4. Exec(e, st) = [schema |-> d.schema, rows |-> Overwrite(Overlay(d.rows, writes), st)]
    BY <1>2, <1>3 DEF Exec
  <1>5. Overwrite(Overlay(d.rows, writes), st) = Overlay(d.rows, Overwrite(writes, st))
    <2>1. CASE st \in Markers
      BY <2>1 DEF Overwrite, Markers, BeginKey, EndKey
    <2>2. CASE st \in DMLs
      <3> DEFINE v == IF st.op = "upsert" THEN st.val ELSE NoRow
      <3>1. /\ st.op \in {"upsert", "delete"} /\ st.tbl \in Tables /\ st.key \in Keys
            /\ v \in Vals \cup {NoRow} /\ v # Clean
        BY <2>2, ExecutiveAssumption DEF DMLs, UpsertDML, DeleteDML
      <3>2. ASSUME NEW rows \in [Tables -> [Keys -> Vals \cup {NoRow, Clean}]]
            PROVE  Overwrite(rows, st) =
                      [t \in Tables |-> [k \in Keys |->
                          IF t = st.tbl /\ k = st.key THEN v ELSE rows[t][k]]]
        BY <3>1 DEF Overwrite
      <3>3. Overlay(d.rows, writes) \in [Tables -> [Keys -> Vals \cup {NoRow, Clean}]]
        BY <1>1 DEF Overlay
      <3> HIDE DEF v
      <3>4. Overwrite(Overlay(d.rows, writes), st) =
               [t \in Tables |-> [k \in Keys |->
                   IF t = st.tbl /\ k = st.key THEN v ELSE Overlay(d.rows, writes)[t][k]]]
        BY <3>2, <3>3
      <3>5. Overwrite(writes, st) =
               [t \in Tables |-> [k \in Keys |->
                   IF t = st.tbl /\ k = st.key THEN v ELSE writes[t][k]]]
        BY <3>2
      <3>6. ASSUME NEW t \in Tables, NEW k \in Keys
            PROVE  Overlay(d.rows, Overwrite(writes, st))[t][k] =
                      IF t = st.tbl /\ k = st.key THEN v ELSE Overlay(d.rows, writes)[t][k]
        BY <3>1, <3>5 DEF Overlay
      <3>7. Overlay(d.rows, Overwrite(writes, st)) =
               [t \in Tables |-> [k \in Keys |->
                   Overlay(d.rows, Overwrite(writes, st))[t][k]]]
        BY DEF Overlay
      <3> QED
        BY <3>4, <3>6, <3>7
    <2> QED
      BY <2>1, <2>2
  <1> QED
    BY <1>1, <1>4, <1>5 DEF WithWrites

LEMMA NoWritesChangeNothing ==
    ASSUME NEW d \in Databases
    PROVE  WithWrites(d, NoWrites) = d
  <1>1. /\ d.rows \in [Tables -> [Keys -> Vals \cup {NoRow}]]
        /\ d = [schema |-> d.schema, rows |-> d.rows]
    BY DEF Databases
  <1>2. Overlay(d.rows, NoWrites) = d.rows
    BY <1>1 DEF Overlay, NoWrites
  <1> QED
    BY <1>1, <1>2 DEF WithWrites

\* Replaying the ledger and an open transaction with one more row.
LEMMA ReplayInsert ==
    ASSUME AloneIInv, NEW h \in Handlers, NEW st \in Statements
    PROVE  Replay(ledger \cup (req[h].rows \cup {Insert(h, st)}))
              = Exec(Replay(ledger \cup req[h].rows), st)
  <1> DEFINE S == ledger \cup req[h].rows
             r == Insert(h, st)
  <1>1. IsFiniteSet(ledger) /\ IsFiniteSet(req[h].rows)
    BY DEF AloneIInv, BodyIInv, RowsApart
  <1>2. S \in FiniteRows /\ \A q \in S : q.seq < nextSeq
    BY <1>1, FS_Union, RowFacts DEF AloneIInv, BodyIInv, FiniteRows
  <1>3. r \in Rows
    BY AddedType DEF AloneIInv, BodyIInv, ExecIInv
  <1>4. r.seq = nextSeq /\ r.st = st
    BY DEF Insert
  <1>5. ledger \cup (req[h].rows \cup {r}) = S \cup {r}
    OBVIOUS
  <1> HIDE DEF S, r
  <1>6. Replay(S \cup {r}) = Exec(Replay(S), r.st)
    BY <1>2, <1>3, <1>4, ReplayNext
  <1> QED
    BY <1>4, <1>5, <1>6 DEF S, r

LEMMA NoRowsReplay == Replay(ledger \cup {}) = Replay(ledger)
  <1>1. ledger \cup {} = ledger
    OBVIOUS
  <1> QED
    BY <1>1

LEMMA IdleWrites == Idle.writes = NoWrites
  BY DEF Idle, NoWrites

-----------------------------------------------------------------------------
(* The steps under AloneSpec *)

\* What is left to show of a step: BodyIInv and the types are known.
Kept == OpenAbove' /\ Contiguous' /\ ShovelFollows'

\* No row is committed.
LEMMA SameLedger ==
    ASSUME AloneIInv, ledger' = ledger, UNCHANGED reflVars
    PROVE  Contiguous' /\ ShovelFollows'
  <1>1. Contiguous'
    BY DEF AloneIInv, Contiguous
  <1>2. ldb' = ldb /\ shovel' = shovel
    BY DEF reflVars
  <1>3. ShovelFollows'
    BY <1>2 DEF AloneIInv, ShovelFollows, Follows, Reached, Inside, Between, UpTo
  <1> QED
    BY <1>1, <1>3

\* The open transaction stays above the ledger when it takes a row.
LEMMA OpenAboveAdd ==
    ASSUME AloneIInv, NEW h \in Handlers, NEW st, NEW n, req' = [req EXCEPT ![h] = n],
           n.rows = req[h].rows \cup {Insert(h, st)}, ledger' = ledger
    PROVE  OpenAbove'
  <1> DEFINE new == Insert(h, st)
  <1>1. req'[h] = n /\ \A g \in Handlers : g # h => req'[g] = req[g]
    BY DEF AloneIInv, BodyIInv, ExecIInv, ExecTypeOK
  <1>2. /\ req[h].rows = {} => new.txn = nextSeq
        /\ req[h].rows # {} => new.txn = req[h].txn
    BY DEF Insert
  <1> HIDE DEF new
  <1>3. n.rows = req[h].rows \cup {new}
    BY DEF new
  <1>4. \A q \in ledger : q.seq < new.txn
    <2>1. CASE req[h].rows = {}
      BY <1>2, <2>1, RowFacts DEF AloneIInv, BodyIInv
    <2>2. CASE req[h].rows # {}
      <3>1. \A r \in req[h].rows : r.txn = new.txn
        BY <1>2, <2>2, RowFacts DEF AloneIInv, BodyIInv
      <3> QED
        BY <2>2, <3>1 DEF AloneIInv, OpenAbove
    <2> QED
      BY <2>1, <2>2
  <1> QED
    BY <1>1, <1>3, <1>4 DEF AloneIInv, OpenAbove

\* A statement is logged in the open transaction.
LEMMA KeptAdd ==
    ASSUME AloneIInv, NEW h \in Handlers, MutateAppend(h) \/ ControlLog(h), UNCHANGED reflVars
    PROVE  Kept
  <1> DEFINE st == Head(req[h].todo)
             m == [Added(h, st) EXCEPT !.todo = Tail(@), !.writes = Overwrite(@, st)]
             n == [Added(h, st) EXCEPT !.pc = "commit", !.todo = Tail(@)]
  <1>1. req[h] \in Requests
    BY DEF AloneIInv, BodyIInv, ExecIInv, ExecTypeOK
  <1>2. /\ m.rows = req[h].rows \cup {Insert(h, st)}
        /\ n.rows = req[h].rows \cup {Insert(h, st)}
    BY <1>1 DEF Added, Requests
  <1>3. req' = [req EXCEPT ![h] = m] \/ req' = [req EXCEPT ![h] = n]
    BY DEF MutateAppend, ControlLog
  <1>4. ledger' = ledger
    BY DEF MutateAppend, ControlLog
  <1> HIDE DEF m, n, st
  <1>5. OpenAbove'
    BY <1>2, <1>3, <1>4, OpenAboveAdd
  <1> QED
    BY <1>4, <1>5, SameLedger DEF Kept

\* Rows become visible, of a mutation or of a control request: they lie above
\* the ledger, and no other transaction is open.
LEMMA CommitInOrder ==
    ASSUME AloneIInv, NEW h \in Handlers, req[h].pc \in {"append", "commit"},
           ledger' = ledger \cup req[h].rows, req'[h].rows = {},
           \A g \in Handlers : g # h => req'[g] = req[g]
    PROVE  OpenAbove' /\ Contiguous'
  <1>1. OpenAbove'
    BY OneOpen DEF OpenAbove
  <1>2. /\ \A r \in req[h].rows, q \in ledger : q.seq < r.txn
        /\ \A q, r \in ledger : q.seq < r.seq /\ q.txn # r.txn => q.seq < r.txn
    BY DEF AloneIInv, OpenAbove, Contiguous
  <1>3. /\ \A q \in ledger \cup req[h].rows : q.seq \in Nat /\ q.txn \in Nat /\ q.txn <= q.seq
        /\ \A q, r \in req[h].rows : q.txn = r.txn
    BY RowFacts DEF AloneIInv, BodyIInv
  <1>4. ASSUME NEW q \in ledger \cup req[h].rows, NEW r \in ledger \cup req[h].rows,
               q.seq < r.seq, q.txn # r.txn
        PROVE  q.seq < r.txn
    BY <1>2, <1>3, <1>4
  <1>5. Contiguous'
    BY <1>4 DEF Contiguous
  <1> QED
    BY <1>1, <1>5

\* What a commit leaves of the request.
LEMMA CommitDoes ==
    ASSUME AloneIInv, NEW h \in Handlers, MutateCommit(h) \/ ControlCommit(h)
    PROVE  /\ req[h].pc \in {"append", "commit"} /\ ledger' = ledger \cup req[h].rows
           /\ req'[h].rows = {} /\ req'[h].writes = NoWrites /\ req'[h].pc \in {"idle", "exec"}
           /\ \A g \in Handlers : g # h => req'[g] = req[g]
  <1> DEFINE n == IF req[h].todo = << >> THEN Idle
                  ELSE [Idle EXCEPT !.pc = "exec", !.todo = req[h].todo]
  <1>1. /\ n.rows = {} /\ n.writes = NoWrites /\ n.pc \in {"idle", "exec"}
        /\ Idle.rows = {} /\ Idle.writes = NoWrites /\ Idle.pc = "idle"
    BY DEF Idle, NoWrites
  <1>2. /\ req'[h] = n \/ req'[h] = Idle
        /\ \A g \in Handlers : g # h => req'[g] = req[g]
    BY DEF AloneIInv, BodyIInv, ExecIInv, ExecTypeOK, ControlCommit, MutateCommit, Finish
  <1>3. req[h].pc \in {"append", "commit"} /\ ledger' = ledger \cup req[h].rows
    BY DEF ControlCommit, MutateCommit
  <1> HIDE DEF n
  <1> QED
    BY <1>1, <1>2, <1>3

LEMMA KeptCommit ==
    ASSUME AloneIInv, NEW h \in Handlers, MutateCommit(h) \/ ControlCommit(h),
           UNCHANGED reflVars
    PROVE  Kept
  <1>1. /\ req[h].pc \in {"append", "commit"} /\ ledger' = ledger \cup req[h].rows
        /\ req'[h].rows = {} /\ \A g \in Handlers : g # h => req'[g] = req[g]
    BY CommitDoes
  <1>2. OpenAbove' /\ Contiguous'
    BY <1>1, CommitInOrder
  <1> QED
    BY <1>1, <1>2, LedgerGrows DEF Kept

\* Of the executive's other steps, failures among them, none shows or adds a
\* row.
LEMMA ExecutiveKeeps == ASSUME AloneIInv, ExecutiveStep PROVE Kept
  <1>1. UNCHANGED reflVars /\ [ExecNext]_execVars /\ BodyIInv
    BY DEF ExecutiveStep, AloneIInv
  <1>2. CASE UNCHANGED <<ledger, nextSeq, req>>
    <2>1. OpenAbove'
      BY <1>2 DEF AloneIInv, OpenAbove
    <2> QED
      BY <1>1, <1>2, <2>1, SameLedger DEF Kept
  <1>3. ASSUME NEW h \in Handlers, MutateAppend(h) \/ ControlLog(h) PROVE Kept
    BY <1>1, <1>3, KeptAdd
  <1>4. ASSUME NEW h \in Handlers, MutateCommit(h) \/ ControlCommit(h) PROVE Kept
    BY <1>1, <1>4, KeptCommit
  <1>5. ASSUME NEW h \in Handlers, NEW n \in Requests, req' = [req EXCEPT ![h] = n],
               n.rows = {}, UNCHANGED <<ledger, nextSeq>>
        PROVE  Kept
    <2>1. req'[h] = n /\ \A g \in Handlers : g # h => req'[g] = req[g]
      BY <1>1, <1>5 DEF BodyIInv, ExecIInv, ExecTypeOK
    <2>2. OpenAbove'
      BY <1>5, <2>1 DEF AloneIInv, OpenAbove
    <2> QED
      BY <1>1, <1>5, <2>2, SameLedger DEF Kept
  <1> QED
    BY <1>1, <1>2, <1>3, <1>4, <1>5, StepKinds

\* A step of the reflector leaves the executive's part alone.
LEMMA ReflectorKeeps ==
    ASSUME AloneIInv, ReflectorStep
    PROVE  Kept /\ ReflTypeOK' /\ ledger' = ledger
  <1>1. /\ ledger' = ledger /\ ReflTypeOK'
        /\ Reset \/ Reads \/ \E r \in Rows : Applies(r)
    BY ReflKinds DEF ReflectorStep, AloneIInv
  <1>2. Follows(ldb', shovel')
    BY <1>1, ShovelStepFollows
  <1>3. ShovelFollows'
    BY <1>1, <1>2 DEF ShovelFollows, Follows, Reached, Inside, Between, UpTo
  <1>4. UNCHANGED <<db, req>>
    BY DEF ReflectorStep
  <1>5. OpenAbove' /\ Contiguous'
    BY <1>1, <1>4 DEF AloneIInv, OpenAbove, Contiguous
  <1> QED
    BY <1>1, <1>3, <1>5 DEF Kept

LEMMA AloneInit == Init => AloneIInv
  <1> SUFFICES ASSUME ExecInit, ReflInit PROVE AloneIInv
    BY DEF Init
  <1>1. ledger = {} /\ \A h \in Handlers : req[h] = Idle
    BY DEF ExecInit
  <1>2. ControlAlone /\ OpenAbove /\ Contiguous
    BY <1>1, IdleFields DEF ControlAlone, Controlling, OpenAbove, Contiguous
  <1>3. /\ ldb.seq = 0 /\ ldb.db = EmptyDatabase /\ shovel.work = ldb
        /\ shovel.up = FALSE /\ shovel.open = FALSE /\ shovel.cursor = 0
        /\ shovel.buffer = << >>
    BY ReflInitType
  <1>4. /\ Reached(0) /\ ~Inside(0) /\ Between(0, 0) = {} /\ UpTo(0) = {}
        /\ Lists(<< >>, {})
    BY <1>1 DEF Reached, Inside, Between, UpTo, Lists
  <1>5. ShovelFollows
    <2>1. Replay(UpTo(0)) = EmptyDatabase
      BY <1>4, ReplayNext
    <2>2. shovel.work.seq = 0 /\ shovel.work.db = EmptyDatabase /\ 0 <= 0
      BY <1>3
    <2>3. ~(shovel.open = TRUE) /\ ~(shovel.up = TRUE)
      BY <1>3
    <2> QED
      BY <1>3, <1>4, <2>1, <2>2, <2>3 DEF ShovelFollows, Follows
  <1> QED
    BY <1>2, <1>5, BodyInit, ReflInitType DEF AloneIInv

LEMMA AloneStep ==
    ASSUME AloneIInv, [Next /\ ControlAlone']_vars
    PROVE  AloneIInv'
  <1>1. BodyIInv'
    BY ExecPart DEF AloneIInv
  <1>2. CASE ExecutiveStep /\ ControlAlone'
    <2>1. ReflTypeOK'
      BY <1>2 DEF ExecutiveStep, reflVars, AloneIInv, ReflTypeOK
    <2> QED
      BY <1>1, <1>2, <2>1, ExecutiveKeeps DEF AloneIInv, Kept
  <1>3. CASE ReflectorStep /\ ControlAlone'
    BY <1>1, <1>3, ReflectorKeeps DEF AloneIInv, Kept
  <1>4. CASE UNCHANGED vars
    <2>1. UNCHANGED <<ledger, req>> /\ UNCHANGED reflVars
      BY <1>4 DEF vars, execVars
    <2>2. ReflTypeOK' /\ ControlAlone' /\ OpenAbove'
      BY <2>1 DEF AloneIInv, reflVars, ReflTypeOK, ControlAlone, Controlling, InFlight,
                  OpenAbove
    <2> QED
      BY <1>1, <2>1, <2>2, SameLedger DEF AloneIInv
  <1> QED
    BY <1>2, <1>3, <1>4 DEF Next

-----------------------------------------------------------------------------
(* ctldb and its ledger, under QuietSpec *)

\* A request begins or is rolled back; the discipline excludes the rollback
\* of a control request whose DDL has run.
LEMMA DbEmpty ==
    ASSUME QuietIInv, NEW h \in Handlers, NEW n, req' = [req EXCEPT ![h] = n],
           n.rows = {}, n.pc \in {"idle", "lock", "exec"}, n.writes = NoWrites,
           req[h].pc \notin {"log", "commit"}, UNCHANGED <<ledger, db>>
    PROVE  DbFollows'
  <1>1. req'[h] = n /\ \A g \in Handlers : g # h => req'[g] = req[g]
    BY DEF QuietIInv, AloneIInv, BodyIInv, ExecIInv, ExecTypeOK
  <1>2. (\A g \in Handlers : req'[g].pc \notin {"log", "commit"}) => db' = Replay(ledger')
    BY <1>1 DEF QuietIInv, DbFollows
  <1>3. ASSUME NEW g \in Handlers
        PROVE  /\ req'[g].pc # "append" \/ req'[g].rows = {} => req'[g].writes = NoWrites
               /\ req'[g].pc = "log" => db' = Exec(Replay(ledger'), Head(req'[g].todo))
               /\ req'[g].pc = "commit" => db' = Replay(ledger' \cup req'[g].rows)
               /\ req'[g].pc = "append" =>
                     WithWrites(db', req'[g].writes) = Replay(ledger' \cup req'[g].rows)
    BY <1>1 DEF QuietIInv, DbFollows
  <1> QED
    BY <1>2, <1>3 DEF DbFollows

\* A mutation takes the lock: ctldb holds what the ledger produces.
LEMMA DbLock == ASSUME QuietIInv, NEW h \in Handlers, MutateLock(h) PROVE DbFollows'
  <1>0. AloneIInv
    BY DEF QuietIInv
  <1>1. /\ req'[h] = [req[h] EXCEPT !.pc = "append"] /\ UNCHANGED <<ledger, db>>
        /\ req[h].pc = "lock" /\ \A g \in Handlers : g # h => req'[g] = req[g]
        /\ req[h].rows = {} /\ req[h] \in Requests /\ db \in Databases
    BY <1>0 DEF AloneIInv, BodyIInv, ExecIInv, ExecTypeOK, MutateLock, RightKinds
  <1>2. req'[h].pc = "append" /\ req'[h].rows = {} /\ req'[h].writes = req[h].writes
    BY <1>1 DEF Requests
  <1>3. \A g \in Handlers : req[g].pc \notin {"exec", "log", "commit"}
    BY <1>0, <1>1, Alone
  <1>4. req[h].writes = NoWrites /\ db = Replay(ledger)
    BY <1>1, <1>3 DEF QuietIInv, DbFollows
  <1>5. ASSUME NEW g \in Handlers
        PROVE  /\ req'[g].pc # "append" \/ req'[g].rows = {} => req'[g].writes = NoWrites
               /\ req'[g].pc \notin {"log", "commit"}
               /\ req'[g].pc = "append" =>
                     WithWrites(db', req'[g].writes) = Replay(ledger' \cup req'[g].rows)
    <2>1. CASE g = h
      BY <1>1, <1>2, <1>4, <2>1, NoWritesChangeNothing, NoRowsReplay
    <2>2. CASE g # h
      BY <1>1, <1>3, <2>2 DEF QuietIInv, DbFollows
    <2> QED
      BY <2>1, <2>2
  <1> QED
    BY <1>1, <1>4, <1>5 DEF DbFollows

\* The mutation executes and logs its next statement.
LEMMA DbAppend == ASSUME QuietIInv, NEW h \in Handlers, MutateAppend(h) PROVE DbFollows'
  <1>0. AloneIInv
    BY DEF QuietIInv
  <1> DEFINE st == Head(req[h].todo)
             n == [Added(h, st) EXCEPT !.todo = Tail(@), !.writes = Overwrite(@, st)]
  <1>1. /\ req[h] \in Requests /\ req[h].pc = "append" /\ req[h].todo # << >>
        /\ req[h].todo \in Seq(Markers \cup DMLs)
        /\ req[h].writes \in [Tables -> [Keys -> Vals \cup {NoRow, Clean}]]
        /\ db \in Databases
    BY <1>0 DEF AloneIInv, BodyIInv, ExecIInv, ExecTypeOK, RightKinds, Mutating, MutateAppend,
           Requests
  <1>2. st \in Markers \cup DMLs /\ st \in Statements
    BY <1>1, HeadType, KindsOfStatements
  <1>3. /\ n.rows = req[h].rows \cup {Insert(h, st)} /\ n.pc = "append"
        /\ n.writes = Overwrite(req[h].writes, st)
    BY <1>1 DEF Added, Requests
  <1>4. req' = [req EXCEPT ![h] = n] /\ UNCHANGED <<ledger, db>>
    BY DEF MutateAppend
  <1> HIDE DEF n, st
  <1>5. req'[h] = n /\ \A g \in Handlers : g # h => req'[g] = req[g]
    BY <1>0, <1>4 DEF AloneIInv, BodyIInv, ExecIInv, ExecTypeOK
  <1>6. \A g \in Handlers : req[g].pc \notin {"log", "commit"}
    BY <1>0, <1>1, Alone
  <1>7. WithWrites(db, n.writes) = Replay(ledger \cup n.rows)
    <2>1. WithWrites(db, req[h].writes) = Replay(ledger \cup req[h].rows)
      BY <1>1 DEF QuietIInv, DbFollows
    <2> QED
      BY <1>0, <1>1, <1>2, <1>3, <2>1, WritesExecute, ReplayInsert
  <1>8. n.rows # {}
    BY <1>3
  <1>9. ASSUME NEW g \in Handlers
        PROVE  /\ req'[g].pc # "append" \/ req'[g].rows = {} => req'[g].writes = NoWrites
               /\ req'[g].pc \notin {"log", "commit"}
               /\ req'[g].pc = "append" =>
                     WithWrites(db', req'[g].writes) = Replay(ledger' \cup req'[g].rows)
    <2>1. CASE g = h
      BY <1>3, <1>4, <1>5, <1>7, <1>8, <2>1
    <2>2. CASE g # h
      BY <1>4, <1>5, <1>6, <2>2 DEF QuietIInv, DbFollows
    <2> QED
      BY <2>1, <2>2
  <1>10. db = Replay(ledger)
    BY <1>6 DEF QuietIInv, DbFollows
  <1> QED
    BY <1>4, <1>9, <1>10 DEF DbFollows

\* A commit: ctldb and the ledger meet again.
LEMMA DbCommit ==
    ASSUME QuietIInv, NEW h \in Handlers, MutateCommit(h) \/ ControlCommit(h)
    PROVE  DbFollows'
  <1>0. AloneIInv
    BY DEF QuietIInv
  <1>1. /\ req[h].pc \in {"append", "commit"} /\ ledger' = ledger \cup req[h].rows
        /\ req'[h].writes = NoWrites /\ req'[h].pc \in {"idle", "exec"}
        /\ \A g \in Handlers : g # h => req'[g] = req[g]
    BY <1>0, CommitDoes
  <1>2. db' = Replay(ledger')
    <2>1. CASE MutateCommit(h)
      <3>1. req[h].pc = "append" /\ db' = WithWrites(db, req[h].writes)
        BY <2>1 DEF MutateCommit, WithWrites
      <3> QED
        BY <1>1, <3>1 DEF QuietIInv, DbFollows
    <2>2. CASE ControlCommit(h)
      <3>1. req[h].pc = "commit" /\ db' = db
        BY <2>2 DEF ControlCommit
      <3> QED
        BY <1>1, <3>1 DEF QuietIInv, DbFollows
    <2> QED
      BY <2>1, <2>2
  <1>3. \A g \in Handlers : /\ req'[g].pc \notin {"append", "log", "commit"}
                            /\ req'[g].writes = NoWrites
    BY <1>0, <1>1, OneOpen DEF QuietIInv, DbFollows
  <1> QED
    BY <1>2, <1>3 DEF DbFollows

\* The DDL of a control request runs on ctldb.
LEMMA DbExec == ASSUME QuietIInv, NEW h \in Handlers, ControlExec(h) PROVE DbFollows'
  <1>0. AloneIInv
    BY DEF QuietIInv
  <1>1. /\ req'[h] = [req[h] EXCEPT !.pc = "log"] /\ ledger' = ledger
        /\ req[h].pc = "exec" /\ \A g \in Handlers : g # h => req'[g] = req[g]
        /\ req[h] \in Requests /\ req[h].rows = {} /\ db' = Exec(db, Head(req[h].todo))
    BY <1>0 DEF AloneIInv, BodyIInv, ExecIInv, ExecTypeOK, ControlExec, RightKinds
  <1>2. /\ req'[h].pc = "log" /\ req'[h].rows = {} /\ req'[h].writes = req[h].writes
        /\ req'[h].todo = req[h].todo
    BY <1>1 DEF Requests
  <1>3. \A g \in Handlers : g # h => req[g].pc = "idle"
    BY <1>0, <1>1, Alone
  <1>4. req[h].writes = NoWrites /\ db = Replay(ledger)
    BY <1>1, <1>3 DEF QuietIInv, DbFollows
  <1>5. ASSUME NEW g \in Handlers, g # h
        PROVE  req'[g].writes = NoWrites /\ req'[g].pc = "idle"
    BY <1>1, <1>3, <1>5 DEF QuietIInv, DbFollows
  <1> QED
    BY <1>1, <1>2, <1>4, <1>5 DEF DbFollows

\* It logs the DDL: the ledger with the open transaction has caught up.
LEMMA DbLog == ASSUME QuietIInv, NEW h \in Handlers, ControlLog(h) PROVE DbFollows'
  <1>0. AloneIInv
    BY DEF QuietIInv
  <1> DEFINE st == Head(req[h].todo)
             n == [Added(h, st) EXCEPT !.pc = "commit", !.todo = Tail(@)]
  <1>1. /\ req[h] \in Requests /\ req[h].pc = "log" /\ req[h].rows = {}
        /\ req[h].todo \in Seq(Controls) /\ req[h].todo # << >>
    BY <1>0 DEF AloneIInv, BodyIInv, ExecIInv, ExecTypeOK, RightKinds, Controlling, ControlLog
  <1>2. st \in Statements
    BY <1>1, HeadType, KindsOfStatements
  <1>3. /\ n.rows = req[h].rows \cup {Insert(h, st)} /\ n.pc = "commit"
        /\ n.writes = req[h].writes
    BY <1>1 DEF Added, Requests
  <1>4. req' = [req EXCEPT ![h] = n] /\ UNCHANGED <<ledger, db>>
    BY DEF ControlLog
  <1>5. db = Exec(Replay(ledger), st) /\ req[h].writes = NoWrites
    BY <1>1 DEF QuietIInv, DbFollows
  <1> HIDE DEF n, st
  <1>6. req'[h] = n /\ \A g \in Handlers : g # h => req'[g] = req[g]
    BY <1>0, <1>4 DEF AloneIInv, BodyIInv, ExecIInv, ExecTypeOK
  <1>7. db = Replay(ledger \cup n.rows)
    BY <1>0, <1>1, <1>2, <1>3, <1>5, ReplayInsert, NoRowsReplay
  <1>8. ASSUME NEW g \in Handlers, g # h
        PROVE  req'[g].writes = NoWrites /\ req'[g].pc = "idle"
    BY <1>0, <1>1, <1>6, <1>8, Alone DEF QuietIInv, DbFollows
  <1> QED
    BY <1>3, <1>4, <1>5, <1>6, <1>7, <1>8 DEF DbFollows

LEMMA DbExecutive ==
    ASSUME QuietIInv, ExecNext, ControlCompletes
    PROVE  DbFollows'
  <1>0. \A h \in Handlers : req[h] \in Requests
    BY DEF QuietIInv, AloneIInv, BodyIInv, ExecIInv, ExecTypeOK
  <1>1. ASSUME NEW h \in Handlers, NEW w, NEW cookie, NEW check, NEW batch,
               MutateStart(h, w, cookie, check, batch)
        PROVE  DbFollows'
    <2> DEFINE n == [Idle EXCEPT !.pc = "lock", !.todo = Body(batch), !.writer = w,
                                 !.cookie = cookie, !.check = check]
    <2>1. /\ req' = [req EXCEPT ![h] = n] /\ UNCHANGED <<ledger, db>>
          /\ req[h].pc \notin {"log", "commit"}
      BY <1>1 DEF MutateStart, InFlight
    <2>2. n.pc = "lock" /\ n.rows = {} /\ n.writes = NoWrites
      BY DEF Idle, NoWrites
    <2> HIDE DEF n
    <2> QED
      BY <2>1, <2>2, DbEmpty
  <1>2. ASSUME NEW h \in Handlers, NEW todo, ControlStart(h, todo)
        PROVE  DbFollows'
    <2> DEFINE n == [Idle EXCEPT !.pc = "exec", !.todo = todo]
    <2>1. /\ req' = [req EXCEPT ![h] = n] /\ UNCHANGED <<ledger, db>>
          /\ req[h].pc \notin {"log", "commit"}
      BY <1>2 DEF ControlStart, InFlight
    <2>2. n.pc = "exec" /\ n.rows = {} /\ n.writes = NoWrites
      BY DEF Idle, NoWrites
    <2> HIDE DEF n
    <2> QED
      BY <2>1, <2>2, DbEmpty
  <1>3. ASSUME NEW h \in Handlers, Rollback(h)
        PROVE  DbFollows'
    <2>1. req' = [req EXCEPT ![h] = Idle] /\ UNCHANGED <<ledger, db>>
      BY <1>3 DEF Rollback, Finish
    <2>2. req'[h] = Idle
      BY <2>1 DEF QuietIInv, AloneIInv, BodyIInv, ExecIInv, ExecTypeOK
    <2>3. req[h].pc \notin {"log", "commit"}
      BY <2>1, <2>2 DEF ControlCompletes
    <2> QED
      BY <2>1, <2>3, IdleFields, IdleWrites, DbEmpty
  <1>4. ASSUME NEW h \in Handlers,
               \/ MutateLock(h) \/ MutateAppend(h) \/ MutateCommit(h)
               \/ ControlExec(h) \/ ControlLog(h) \/ ControlCommit(h)
        PROVE  DbFollows'
    BY <1>4, DbLock, DbAppend, DbCommit, DbExec, DbLog
  <1>5. CASE WriterStep
    <2>1. UNCHANGED <<ledger, db, req>>
      BY <1>5 DEF WriterStep, RegisterWriter, SetWriterCookie
    <2> QED
      BY <2>1 DEF QuietIInv, DbFollows
  <1> QED
    BY <1>1, <1>2, <1>3, <1>4, <1>5
       DEF ExecNext, MutateStep, ControlStep, CreateTable, AddFields, ClearTable

LEMMA QuietInit == Init => QuietIInv
  <1>1. Init => ledger = {} /\ db = EmptyDatabase /\ \A h \in Handlers : req[h] = Idle
    BY DEF Init, ExecInit
  <1>2. Init => DbFollows
    BY <1>1, IdleFields, IdleWrites, ReplayNext DEF DbFollows
  <1> QED
    BY <1>2, AloneInit DEF QuietIInv

LEMMA QuietStep ==
    ASSUME QuietIInv, [Next /\ ControlAlone' /\ ControlCompletes]_vars
    PROVE  QuietIInv'
  <1>1. AloneIInv'
    BY AloneStep DEF QuietIInv
  <1>2. CASE ExecutiveStep /\ ControlCompletes
    BY <1>1, <1>2, DbExecutive DEF QuietIInv, ExecutiveStep
  <1>3. CASE UNCHANGED <<ledger, db, req>>
    BY <1>1, <1>3 DEF QuietIInv, DbFollows
  <1>4. CASE ReflectorStep
    <2>1. UNCHANGED <<ledger, db, req>>
      BY <1>4, ReflectorKeeps DEF QuietIInv, ReflectorStep
    <2> QED
      BY <1>3, <2>1
  <1>5. CASE UNCHANGED vars
    BY <1>3, <1>5 DEF vars, execVars
  <1> QED
    BY <1>2, <1>4, <1>5 DEF Next

-----------------------------------------------------------------------------
(* Theorems about the pipeline under the operators' discipline *)

\* The inductive invariant: ctldb, the ledger, the shovel's buffer and the LDB
\* agree in every state of the pipeline.
THEOREM AloneInvariant == AloneSpec => []AloneIInv
  BY AloneInit, AloneStep, PTL DEF AloneSpec

\* If they complete too, ctldb agrees with its ledger.
THEOREM QuietInvariant == QuietSpec => []QuietIInv
  BY QuietInit, QuietStep, PTL DEF QuietSpec

\* The LDB is what replaying the ledger up to its sequence tracker gives: no
\* statement is lost, repeated or reordered by blocks, failures and restarts.
THEOREM LdbReplaysLedger == AloneSpec => []LdbIsLedgerPrefix
  <1>1. AloneIInv => LdbIsLedgerPrefix
    BY DEF AloneIInv, ShovelFollows, Follows, UpTo, LdbIsLedgerPrefix
  <1> QED
    BY <1>1, AloneInvariant, PTL

\* Readers of the LDB never see part of a ctldb transaction.
THEOREM TransactionsWhole == AloneSpec => []NoTornTransaction
  <1>1. AloneIInv => NoTornTransaction
    <2> SUFFICES ASSUME AloneIInv, NEW r \in ledger, NEW s \in ledger,
                        r.txn = s.txn, r.seq <= ldb.seq
                 PROVE  s.seq <= ldb.seq
      BY DEF NoTornTransaction
    <2>1. ~Inside(ldb.seq)
      BY DEF AloneIInv, ShovelFollows, Follows
    <2>2. s.seq \in Nat /\ ldb.seq \in Nat
      BY RowFacts, ShovelFields DEF AloneIInv, BodyIInv
    <2> QED
      BY <2>1, <2>2 DEF Inside
  <1> QED
    BY <1>1, AloneInvariant, PTL

\* ApplyDMLStatement never meets BEGIN within a transaction, COMMIT outside
\* one, or a sequence it has applied.
THEOREM WriterNeverRefusesOrder == AloneSpec => []NoInvariantViolation
  <1>1. AloneIInv => NoInvariantViolation
    <2> SUFFICES ASSUME AloneIInv, shovel.buffer # << >>
                 PROVE  /\ ~Misplaced(Head(shovel.buffer))
                        /\ ~Replayed(Head(shovel.buffer))
      BY DEF NoInvariantViolation, HasStatement
    <2> DEFINE r == Head(shovel.buffer)
    <2>1. /\ r \in ledger /\ r \in Rows /\ shovel.work.seq < r.seq
          /\ Inside(shovel.work.seq) <=> r.seq # r.txn
      BY HeadIsNext
    <2>2. shovel.open = TRUE <=> r.seq # r.txn
      BY <2>1 DEF AloneIInv, ShovelFollows, Follows
    <2>3. /\ r.st = BeginKey => r.seq = r.txn
          /\ r.st = EndKey => r.seq # r.txn
      BY <2>1 DEF AloneIInv, BodyIInv, Bracketed
    <2>4. r.seq \in Nat /\ shovel.work.seq \in Nat /\ shovel.open \in BOOLEAN
      BY <2>1, SeqType, ShovelFields DEF AloneIInv
    <2> HIDE DEF r
    <2>5. ~Misplaced(r)
      BY <2>2, <2>3, <2>4 DEF Misplaced
    <2>6. ~Replayed(r)
      BY <2>1, <2>4 DEF Replayed
    <2> QED
      BY <2>5, <2>6 DEF r
  <1> QED
    BY <1>1, AloneInvariant, PTL

\* An LDB that has come to the end of the ledger holds what ctldb holds.
THEOREM LdbConverges == QuietSpec => []Converged
  <1>1. QuietIInv => Converged
    <2> SUFFICES ASSUME QuietIInv, ldb.seq = MaxSeq, \A h \in Handlers : ~Controlling(h)
                 PROVE  ldb.db = db
      BY DEF Converged
    <2>1. db = Replay(ledger)
      BY DEF QuietIInv, DbFollows, Controlling
    <2>2. \A r \in ledger : r.seq <= ldb.seq
      BY MaxSeqIs, RowFacts DEF QuietIInv, AloneIInv, BodyIInv, RowsApart, FiniteRows
    <2>3. UpTo(ldb.seq) = ledger
      BY <2>2 DEF UpTo
    <2> QED
      BY <2>1, <2>3 DEF QuietIInv, AloneIInv, ShovelFollows, Follows
  <1> QED
    BY <1>1, QuietInvariant, PTL

\* Rows become visible only above what the reflector has read and applied,
\* which is what the comment on the ledger lock in Mutate asks for.
THEOREM RowsAppearAhead == AloneSpec => NoRowBehindReader
  <1>1. ASSUME AloneIInv, [Next /\ ControlAlone']_vars
        PROVE  [\A r \in ledger' \ ledger : r.seq > shovel.cursor /\ r.seq > ldb.seq]_ledger
    <2> SUFFICES ASSUME NEW r \in ledger' \ ledger
                 PROVE  r.seq > shovel.cursor /\ r.seq > ldb.seq
      OBVIOUS
    <2>1. [ExecNext]_execVars
      <3>1. CASE ReflectorStep
        BY <3>1, ReflectorKeeps, <1>1
      <3> QED
        BY <1>1, <3>1 DEF Next, ExecutiveStep, vars
    <2>2. PICK h \in Handlers : MutateCommit(h) \/ ControlCommit(h)
      BY <1>1, <2>1, StepKinds DEF AloneIInv, MutateAppend, ControlLog
    <2>3. r \in req[h].rows
      BY <2>2 DEF MutateCommit, ControlCommit
    <2>4. \A q \in ledger : q.seq < r.txn
      BY <1>1, <2>3 DEF AloneIInv, OpenAbove
    <2>5. /\ r.seq \in Nat \ {0} /\ r.txn \in Nat /\ r.txn <= r.seq
          /\ \A q \in ledger : q.seq \in Nat
      BY <1>1, <2>3, RowFacts DEF AloneIInv, BodyIInv
    <2>6. shovel.cursor \in Nat /\ ldb.seq \in Nat
      BY <1>1, ShovelFields DEF AloneIInv
    <2>7. Reached(shovel.cursor) /\ Reached(ldb.seq)
      BY <1>1 DEF AloneIInv, ShovelFollows, Follows
    <2> QED
      BY <2>4, <2>5, <2>6, <2>7 DEF Reached
  <1> QED
    BY <1>1, AloneInvariant, PTL DEF AloneSpec, NoRowBehindReader

-----------------------------------------------------------------------------
(* The refinement.  First, the log of transactions in a ledger L.         *)

TxnsOf(L) == {r.txn : r \in L}
RankOf(L, n) == Cardinality({m \in TxnsOf(L) : m <= n})
PlainRows(L, n) == {r \in L : r.txn = n /\ r.st \notin Markers}
TxnAt(L, i) == CHOOSE n \in TxnsOf(L) : RankOf(L, n) = i
LogOf(L) == [i \in 1..Cardinality(TxnsOf(L)) |-> Texts(PlainRows(L, TxnAt(L, i)))]

LEMMA LogIs ==
    /\ TxnLog = LogOf(ledger) /\ Delivered = RankOf(ledger, ldb.seq)
    /\ TxnLog' = LogOf(ledger') /\ Delivered' = RankOf(ledger', ldb'.seq)
  <1>1. Delivered = RankOf(ledger, ldb.seq) /\ Delivered' = RankOf(ledger', ldb'.seq)
    BY DEF Delivered, Rank, RankOf, Txns, TxnsOf
  <1>2. TxnLog = LogOf(ledger)
    BY DEF TxnLog, StatementsOf, Rank, Txns, LogOf, TxnAt, RankOf, TxnsOf, PlainRows, Texts
  <1>3. TxnLog' = LogOf(ledger')
    BY DEF TxnLog, StatementsOf, Rank, Txns, LogOf, TxnAt, RankOf, TxnsOf, PlainRows, Texts
  <1> QED
    BY <1>1, <1>2, <1>3

LEMMA TxnsFinite ==
    ASSUME NEW L \in FiniteRows
    PROVE  /\ TxnsOf(L) \subseteq Nat
           /\ \A S \in SUBSET TxnsOf(L) : IsFiniteSet(S) /\ Cardinality(S) \in Nat
           /\ Cardinality(TxnsOf(L)) \in Nat
           /\ \A n : RankOf(L, n) \in Nat
  <1> DEFINE f == [r \in L |-> r.txn]
  <1>1. IsFiniteSet(L) /\ TxnsOf(L) \subseteq Nat
    BY SeqType DEF FiniteRows, TxnsOf
  <1>2. f \in Surjection(L, TxnsOf(L))
    BY DEF Surjection, TxnsOf
  <1>3. IsFiniteSet(TxnsOf(L))
    BY <1>1, <1>2, FS_Surjection
  <1>4. \A S \in SUBSET TxnsOf(L) : IsFiniteSet(S) /\ Cardinality(S) \in Nat
    BY <1>3, FS_Subset, FS_CardinalityType
  <1> QED
    BY <1>1, <1>4 DEF RankOf

\* Transactions are told apart by their rank.
LEMMA RankTells ==
    ASSUME NEW L \in FiniteRows, NEW m \in TxnsOf(L), NEW n \in TxnsOf(L),
           RankOf(L, m) = RankOf(L, n)
    PROVE  m = n
  <1>1. ASSUME NEW a \in TxnsOf(L), NEW b \in TxnsOf(L), a < b
        PROVE  RankOf(L, a) < RankOf(L, b)
    <2> DEFINE A == {x \in TxnsOf(L) : x <= a}
               B == {x \in TxnsOf(L) : x <= b}
    <2>1. A \in SUBSET B /\ b \in B /\ b \notin A
      BY <1>1, TxnsFinite
    <2>2. IsFiniteSet(B) /\ A # B
      BY <2>1, TxnsFinite
    <2> HIDE DEF A, B
    <2>3. Cardinality(A) <= Cardinality(B) /\ Cardinality(A) # Cardinality(B)
      BY <2>1, <2>2, FS_Subset
    <2>4. Cardinality(A) \in Nat /\ Cardinality(B) \in Nat
      BY TxnsFinite DEF A, B
    <2> QED
      BY <2>3, <2>4 DEF RankOf, A, B
  <1>2. m \in Nat /\ n \in Nat /\ RankOf(L, m) \in Nat
    BY TxnsFinite
  <1> QED
    BY <1>1, <1>2

\* Every position of the log has its transaction.
LEMMA TxnAtIs ==
    ASSUME NEW L \in FiniteRows, NEW i \in 1..Cardinality(TxnsOf(L))
    PROVE  TxnAt(L, i) \in TxnsOf(L) /\ RankOf(L, TxnAt(L, i)) = i
  <1> DEFINE T == TxnsOf(L)
             c == Cardinality(T)
             f == [n \in T |-> RankOf(L, n)]
  <1>1. c \in Nat /\ IsFiniteSet(T) /\ T \subseteq Nat
    BY TxnsFinite
  <1>2. ASSUME NEW n \in T
        PROVE  RankOf(L, n) \in 1..c
    <2> DEFINE A == {m \in T : m <= n}
    <2>1. A \in SUBSET T /\ n \in A
      BY <1>1
    <2>2. IsFiniteSet(A) /\ Cardinality(A) \in Nat
      BY <2>1, TxnsFinite
    <2> HIDE DEF A, T
    <2>3. Cardinality(A) # 0 /\ Cardinality(A) <= c
      BY <1>1, <2>1, <2>2, FS_EmptySet, FS_Subset
    <2> QED
      BY <1>1, <2>2, <2>3 DEF RankOf, A, T
  <1>3. f \in Injection(T, 1..c)
    <2>1. f \in [T -> 1..c]
      BY <1>2
    <2>2. \A a, b \in T : f[a] = f[b] => a = b
      BY RankTells
    <2> HIDE DEF f
    <2> QED
      BY <2>1, <2>2 DEF Injection, IsInjective
  <1>4. IsFiniteSet(1..c) /\ Cardinality(1..c) = c
    BY <1>1, FS_Interval
  <1>5. f \in Surjection(T, 1..c)
    <2> HIDE DEF f, T
    <2> QED
      BY <1>3, <1>4, FS_Injection
  <1>6. \E n \in T : RankOf(L, n) = i
    BY <1>5 DEF Surjection
  <1> QED
    BY <1>6 DEF TxnAt

\* A transaction above all others goes to the end of the log.
LEMMA LogGrows ==
    ASSUME NEW L \in FiniteRows, NEW N \in FiniteRows, N # {}, NEW t \in Nat,
           \A r \in N : r.txn = t, \A q \in L : q.txn < t
    PROVE  /\ Len(LogOf(L \cup N)) = Len(LogOf(L)) + 1
           /\ SubSeq(LogOf(L \cup N), 1, Len(LogOf(L))) = LogOf(L)
           /\ \A n \in Nat : n < t => RankOf(L \cup N, n) = RankOf(L, n)
  <1> DEFINE M == L \cup N
             c == Cardinality(TxnsOf(L))
  <1>1. TxnsOf(M) = TxnsOf(L) \cup {t} /\ t \notin TxnsOf(L) /\ M \in FiniteRows
    <2>1. M \in FiniteRows
      BY FS_Union DEF FiniteRows
    <2>2. t \notin TxnsOf(L)
      BY DEF TxnsOf
    <2>3. TxnsOf(M) = TxnsOf(L) \cup {t}
      BY DEF TxnsOf
    <2> QED
      BY <2>1, <2>2, <2>3
  <1> HIDE DEF M
  <1>2. c \in Nat /\ Cardinality(TxnsOf(M)) = c + 1 /\ TxnsOf(L) \subseteq Nat
    BY <1>1, TxnsFinite, FS_AddElement
  <1>3. ASSUME NEW n \in Nat, n < t
        PROVE  RankOf(M, n) = RankOf(L, n)
    <2>1. ~(t <= n)
      BY <1>3
    <2>2. {m \in TxnsOf(M) : m <= n} = {m \in TxnsOf(L) : m <= n}
      BY <1>1, <2>1
    <2> QED
      BY <2>2 DEF RankOf
  <1>4. RankOf(M, t) = c + 1
    <2>1. \A m \in TxnsOf(L) : m < t
      BY DEF TxnsOf
    <2>2. {m \in TxnsOf(M) : m <= t} = TxnsOf(M)
      BY <1>1, <1>2, <2>1
    <2> QED
      BY <1>2, <2>2 DEF RankOf
  <1>5. \A m \in TxnsOf(L) : m < t /\ m \in Nat /\ RankOf(M, m) = RankOf(L, m)
    BY <1>2, <1>3 DEF TxnsOf
  <1> HIDE DEF c
  <1>6. ASSUME NEW i \in 1..c
        PROVE  TxnAt(M, i) = TxnAt(L, i)
    <2>1. i # c + 1
      BY <1>2
    <2>2. \A n : n \in TxnsOf(M) /\ RankOf(M, n) = i <=> n \in TxnsOf(L) /\ RankOf(L, n) = i
      BY <1>1, <1>4, <1>5, <2>1
    <2> QED
      BY <2>2, Zenon DEF TxnAt
  <1>7. ASSUME NEW i \in 1..c
        PROVE  LogOf(M)[i] = LogOf(L)[i]
    <2>1. i \in 1..(c + 1)
      BY <1>2
    <2>2. TxnAt(L, i) # t
      BY <1>1, TxnAtIs DEF c
    <2>3. PlainRows(M, TxnAt(L, i)) = PlainRows(L, TxnAt(L, i))
      BY <2>2 DEF PlainRows, M
    <2> QED
      BY <1>2, <1>6, <2>1, <2>3 DEF LogOf, c
  <1>8. /\ LogOf(M) \in Seq({LogOf(M)[i] : i \in 1..(c + 1)}) /\ Len(LogOf(M)) = c + 1
        /\ LogOf(L) \in Seq({LogOf(L)[i] : i \in 1..c}) /\ Len(LogOf(L)) = c
    BY <1>2 DEF LogOf, c
  <1>9. SubSeq(LogOf(M), 1, c) = LogOf(L)
    BY <1>2, <1>7, <1>8
  <1> QED
    BY <1>3, <1>8, <1>9 DEF M
-----------------------------------------------------------------------------
(* Deliveries *)

\* What LedgerTx has applied and not committed is of one transaction.
OneTxn ==
    \A q, r \in ledger : /\ ldb.seq < q.seq /\ q.seq <= shovel.work.seq
                         /\ ldb.seq < r.seq /\ r.seq <= shovel.work.seq
                         => q.txn = r.txn

\* The row a shovel applies is of the transaction it is in, which begins after
\* all that the LDB has committed.
LEMMA NextOfTxn ==
    ASSUME AloneIInv, OneTxn, NEW r \in Rows, Applies(r)
    PROVE  /\ r \in ledger /\ r.seq \in Nat /\ ldb.seq < r.txn /\ r.txn <= r.seq
           /\ \A q \in ledger : ldb.seq < q.seq /\ q.seq <= r.seq => q.txn = r.txn
           /\ Inside(r.seq) <=> Later(ledger, r)
  <1>1. shovel.buffer # << >> /\ r = Head(shovel.buffer)
    BY DEF Applies
  <1>2. /\ r \in ledger /\ shovel.work.seq < r.seq
        /\ UpTo(r.seq) = UpTo(shovel.work.seq) \cup {r}
        /\ Inside(shovel.work.seq) <=> r.seq # r.txn
        /\ Inside(r.seq) <=> Later(ledger, r)
    BY <1>1, HeadIsNext
  <1>3. \A q \in ledger : q.seq \in Nat /\ q.txn \in Nat /\ q.txn <= q.seq
    BY RowFacts DEF AloneIInv, BodyIInv
  <1>4. ldb.seq \in Nat /\ shovel.work.seq \in Nat /\ ldb.seq <= shovel.work.seq
    BY ShovelFields DEF AloneIInv, ShovelFollows, Follows
  <1>5. PICK f \in ledger : f.txn = r.txn /\ f.seq = r.txn
    BY <1>2 DEF AloneIInv, BodyIInv, RowsApart, Begun
  <1>6. ldb.seq < r.txn
    <2>1. ~Inside(ldb.seq) /\ ldb.seq < r.seq
      BY <1>2, <1>3, <1>4 DEF AloneIInv, ShovelFollows, Follows
    <2>2. ~(f.seq <= ldb.seq)
      BY <1>2, <1>5, <2>1 DEF Inside
    <2> QED
      BY <1>3, <1>4, <1>5, <2>2
  <1>7. ASSUME NEW q \in ledger, ldb.seq < q.seq, q.seq <= r.seq
        PROVE  q.txn = r.txn
    <2>1. CASE q = r
      BY <2>1
    <2>2. CASE q # r
      <3>1. q.seq <= shovel.work.seq
        BY <1>2, <1>7, <2>2 DEF UpTo
      <3>2. r.seq # r.txn
        <4>1. shovel.work # ldb
          BY <1>3, <1>4, <1>7, <3>1
        <4>2. shovel.open # FALSE
          BY <4>1 DEF AloneIInv, ShovelFollows, Follows
        <4>3. shovel.open = TRUE
          BY <4>2, ShovelFields DEF AloneIInv
        <4> QED
          BY <1>2, <4>3 DEF AloneIInv, ShovelFollows, Follows
      <3>3. f.seq <= r.seq /\ f # r
        BY <1>2, <1>3, <1>5, <3>2
      <3>4. f.seq <= shovel.work.seq
        BY <1>2, <3>3 DEF UpTo
      <3>5. ldb.seq < f.seq
        BY <1>5, <1>6
      <3> QED
        BY <1>5, <1>7, <3>1, <3>4, <3>5 DEF OneTxn
    <2> QED
      BY <2>1, <2>2
  <1> QED
    BY <1>2, <1>3, <1>6, <1>7

\* A step of the reflector that commits nothing keeps the LDB.  One that
\* commits brings the statements of the next transaction, all of them.
LEMMA ReflectorDelivers ==
    ASSUME AloneIInv, OneTxn, NEW r \in Rows, Applies(r), ldb' = Applied(r), ledger' = ledger
    PROVE  /\ Delivered < Len(TxnLog) /\ Delivered' = Delivered + 1
           /\ ldb'.db = RunAll(ldb.db, TxnLog[Delivered + 1])
           /\ TxnLog' = TxnLog
  <1> DEFINE t == r.txn
             A == {m \in TxnsOf(ledger) : m <= ldb.seq}
             c == Cardinality(A)
  <1>1. /\ r \in ledger /\ r.seq \in Nat /\ ldb.seq < t /\ t <= r.seq
        /\ \A q \in ledger : ldb.seq < q.seq /\ q.seq <= r.seq => q.txn = t
        /\ Inside(r.seq) <=> Later(ledger, r)
    BY NextOfTxn
  <1>2. /\ \A q \in ledger : /\ q \in Rows /\ q.seq \in Nat /\ q.txn \in Nat /\ q.txn <= q.seq
                             /\ \E f \in ledger : f.txn = q.txn /\ f.seq = q.txn
        /\ ledger \in FiniteRows /\ DistinctSeqs(ledger)
    BY RowFacts DEF AloneIInv, BodyIInv, RowsApart, Begun, FiniteRows
  <1>3. ldb.seq \in Nat /\ ldb'.seq = r.seq /\ ldb'.db = shovel'.work.db
    BY ShovelFields DEF AloneIInv, Applied, Applies
  <1>4. /\ ldb.db = Replay(UpTo(ldb.seq)) /\ ~Inside(ldb.seq)
        /\ ldb'.db = Replay(UpTo(r.seq)) /\ ~Inside(r.seq)
    <2>1. Follows(ldb', shovel')
      BY ShovelStepFollows
    <2>2. Follows(ldb, shovel)
      BY DEF AloneIInv, ShovelFollows
    <2> QED
      BY <1>3, <2>1, <2>2 DEF Follows
  <1>5. {m \in TxnsOf(ledger) : m <= r.seq} = A \cup {t} /\ t \notin A /\ t \in TxnsOf(ledger)
    <2>1. t \in TxnsOf(ledger) /\ t \notin A
      BY <1>1, <1>2, <1>3 DEF TxnsOf
    <2>2. ASSUME NEW m \in TxnsOf(ledger), m <= r.seq
          PROVE  m \in A \/ m = t
      <3>1. PICK f \in ledger : f.seq = m /\ f.txn = m
        BY <1>2 DEF TxnsOf
      <3> QED
        BY <1>1, <1>2, <1>3, <2>2, <3>1
    <2>3. \A m \in A : m <= r.seq
      BY <1>1, <1>2, <1>3 DEF TxnsOf
    <2> QED
      BY <1>1, <2>1, <2>2, <2>3
  <1>6. c \in Nat /\ IsFiniteSet(A) /\ Delivered = c
    BY <1>2, TxnsFinite, LogIs DEF RankOf
  <1>7. RankOf(ledger, r.seq) = c + 1 /\ Delivered' = c + 1
    <2>1. Cardinality(A \cup {t}) = c + 1
      <3> HIDE DEF A
      <3> QED
        BY <1>5, <1>6, FS_AddElement
    <2> QED
      BY <1>3, <1>5, <2>1, LogIs DEF RankOf
  <1>8. RankOf(ledger, t) = c + 1
    <2>1. {m \in TxnsOf(ledger) : m <= t} = {m \in TxnsOf(ledger) : m <= r.seq}
      <3>1. \A m \in A : m <= t
        BY <1>1, <1>2, <1>3 DEF TxnsOf
      <3>2. t <= t
        BY <1>1, <1>2
      <3>3. \A m \in TxnsOf(ledger) : m <= t => m <= r.seq
        BY <1>1, <1>2 DEF TxnsOf
      <3> HIDE DEF A
      <3> QED
        BY <1>5, <3>1, <3>2, <3>3
    <2> QED
      BY <1>7, <2>1 DEF RankOf
  <1> HIDE DEF c, A
  <1>9. c + 1 \in 1..Cardinality(TxnsOf(ledger))
    <2>1. Cardinality(TxnsOf(ledger)) \in Nat /\ IsFiniteSet(TxnsOf(ledger))
      BY <1>2, TxnsFinite
    <2>2. RankOf(ledger, t) <= Cardinality(TxnsOf(ledger))
      BY <2>1, FS_Subset DEF RankOf
    <2> QED
      BY <1>6, <1>8, <2>1, <2>2
  <1>10. TxnAt(ledger, c + 1) = t
    BY <1>2, <1>5, <1>8, <1>9, TxnAtIs, RankTells
  <1>11. /\ Len(TxnLog) = Cardinality(TxnsOf(ledger))
         /\ TxnLog[c + 1] = Texts(PlainRows(ledger, t))
         /\ TxnLog' = TxnLog
    BY <1>2, <1>9, <1>10, TxnsFinite, LogIs DEF LogOf
  <1>12. Delivered < Len(TxnLog)
    BY <1>2, <1>6, <1>9, <1>11, TxnsFinite
  <1> DEFINE B == UpTo(ldb.seq)
             D == {q \in ledger : q.txn = t}
  <1>13. UpTo(r.seq) = B \cup D
    <2>1. \A q \in D : q.seq <= r.seq
      BY <1>1, <1>2, <1>4 DEF Later
    <2>2. \A q \in B : q.seq <= r.seq
      BY <1>1, <1>2, <1>3 DEF UpTo
    <2>3. ASSUME NEW q \in ledger, q.seq <= r.seq
          PROVE  q \in B \/ q \in D
      BY <1>1, <1>2, <1>3, <2>3 DEF UpTo
    <2> QED
      BY <2>1, <2>2, <2>3 DEF UpTo
  <1>14. /\ B \in FiniteRows /\ D \in FiniteRows /\ DistinctSeqs(D)
         /\ \A b \in B, q \in D : b.seq < q.seq
    <2>1. B \in FiniteRows /\ D \in FiniteRows
      BY <1>2, SubsetsFinite DEF UpTo
    <2>2. \A b \in B, q \in D : b.seq < q.seq
      BY <1>1, <1>2, <1>3 DEF UpTo
    <2> QED
      BY <1>2, <2>1, <2>2 DEF DistinctSeqs
  <1>15. {q \in D : q.st \notin Markers} = PlainRows(ledger, t)
    BY DEF PlainRows
  <1> HIDE DEF B, D
  <1>16. Replay(B \cup D) = RunAll(Replay(B), Texts(PlainRows(ledger, t)))
    BY <1>14, <1>15, ReplayOnTop
  <1> QED
    BY <1>4, <1>6, <1>7, <1>11, <1>12, <1>13, <1>16 DEF B
-----------------------------------------------------------------------------
(* Every step is one of the store's *)

Stutters == UNCHANGED <<TxnLog, Delivered, ldb.db>>

\* Deliver, with the fold of its INSTANCE.
LEMMA DeliverIs ==
    ASSUME Delivered < Len(TxnLog), Delivered' = Delivered + 1,
           ldb'.db = RunAll(ldb.db, TxnLog[Delivered + 1]), TxnLog' = TxnLog
    PROVE  Store!Deliver
  <1>1. ASSUME NEW d, NEW q
        PROVE  RunAll(d, q) =
                 (CHOOSE f : f = [s \in SUBSET DOMAIN q |->
                     IF s = {} THEN d ELSE Exec(f[s \ {Max(s)}], q[Max(s)])])[DOMAIN q]
    BY DEF RunAll, Fold, FoldFn, FoldBase, FoldStep, LastOf
  <1> QED
    BY <1>1 DEF Store!Deliver, Store!FoldLeft, Store!MapThenFoldSet, Store!Max, Max

LEMMA SameLog ==
    ASSUME ledger' = ledger, ldb' = ldb
    PROVE  Stutters
  BY LogIs DEF Stutters

\* Committed rows lie above everything a shovel has applied.
LEMMA CommitAbove ==
    ASSUME AloneIInv, NEW h \in Handlers, NEW r \in req[h].rows
    PROVE  /\ r.txn = req[h].txn /\ req[h].txn \in Nat /\ r \in Rows
           /\ \A q \in ledger : q.txn < r.txn
           /\ ldb.seq < r.txn /\ shovel.work.seq < r.seq
  <1>1. /\ r.txn = req[h].txn /\ req[h].txn \in Nat /\ r \in Rows /\ r.txn <= r.seq
        /\ r.seq \in Nat /\ r.txn \in Nat
        /\ \A q \in ledger : q.seq \in Nat /\ q.txn \in Nat /\ q.txn <= q.seq /\ q.seq < r.txn
    BY RowFacts DEF AloneIInv, BodyIInv, OpenAbove
  <1>2. r.txn # 0
    <2>1. PICK f \in req[h].rows : f.txn = r.txn /\ f.seq = r.txn
      BY DEF AloneIInv, BodyIInv, RowsApart, Begun
    <2> QED
      BY <2>1, RowFacts DEF AloneIInv, BodyIInv
  <1>3. /\ ldb.seq \in Nat /\ shovel.work.seq \in Nat
        /\ Reached(ldb.seq) /\ Reached(shovel.work.seq)
    BY ShovelFields DEF AloneIInv, ShovelFollows, Follows
  <1>4. ldb.seq < r.txn /\ shovel.work.seq < r.txn
    BY <1>1, <1>2, <1>3 DEF Reached
  <1>5. \A q \in ledger : q.txn < r.txn
    BY <1>1
  <1>6. shovel.work.seq < r.seq
    BY <1>1, <1>3, <1>4
  <1> QED
    BY <1>1, <1>4, <1>5, <1>6

\* A commit on ctldb is a commit of the store.
LEMMA ExecutiveCommits ==
    ASSUME AloneIInv, OneTxn, NEW h \in Handlers, ledger' = ledger \cup req[h].rows,
           UNCHANGED reflVars
    PROVE  OneTxn' /\ (Store!Commit \/ Stutters)
  <1> DEFINE N == req[h].rows
  <1>0. ldb' = ldb /\ shovel' = shovel /\ ledger' = ledger \cup N
    BY DEF reflVars
  <1>1. OneTxn'
    <2>1. \A q \in ledger' : q.seq <= shovel.work.seq => q \in ledger
      <3> SUFFICES ASSUME NEW q \in N, q.seq <= shovel.work.seq PROVE FALSE
        BY <1>0
      <3>1. shovel.work.seq < q.seq /\ q \in Rows
        BY CommitAbove
      <3>2. shovel.work.seq \in Nat /\ q.seq \in Nat
        BY <3>1, ShovelFields, SeqType DEF AloneIInv
      <3> QED
        BY <3>1, <3>2
    <2> QED
      BY <1>0, <2>1 DEF OneTxn
  <1>2. CASE N = {}
    <2>1. ledger' = ledger
      BY <1>0, <1>2
    <2> QED
      BY <1>0, <1>1, <2>1, SameLog
  <1>3. CASE N # {}
    <2> DEFINE t == req[h].txn
    <2>1. /\ t \in Nat /\ \A r \in N : r.txn = t /\ r \in Rows
          /\ \A q \in ledger : q.txn < t
          /\ ldb.seq < t
      BY <1>3, CommitAbove
    <2>2. ledger \in FiniteRows /\ N \in FiniteRows /\ ldb.seq \in Nat
      BY <2>1, RowFacts, ShovelFields DEF AloneIInv, BodyIInv, RowsApart, FiniteRows
    <2> HIDE DEF t, N
    <2>3. /\ Len(LogOf(ledger \cup N)) = Len(LogOf(ledger)) + 1
          /\ SubSeq(LogOf(ledger \cup N), 1, Len(LogOf(ledger))) = LogOf(ledger)
          /\ RankOf(ledger \cup N, ldb.seq) = RankOf(ledger, ldb.seq)
      <3>1. N # {} /\ \A r \in N : r.txn = t
        BY <1>3, <2>1
      <3>2. /\ Len(LogOf(ledger \cup N)) = Len(LogOf(ledger)) + 1
            /\ SubSeq(LogOf(ledger \cup N), 1, Len(LogOf(ledger))) = LogOf(ledger)
            /\ \A n \in Nat : n < t => RankOf(ledger \cup N, n) = RankOf(ledger, n)
        BY <2>1, <2>2, <3>1, LogGrows
      <3> QED
        BY <2>1, <2>2, <3>2
    <2>4. Store!Commit
      BY <1>0, <2>3, LogIs DEF Store!Commit
    <2> QED
      BY <1>1, <2>4
  <1> QED
    BY <1>2, <1>3

LEMMA ReflectorRefines ==
    ASSUME AloneIInv, OneTxn, ReflectorStep
    PROVE  OneTxn' /\ (Store!Deliver \/ Stutters)
  <1>1. /\ ledger' = ledger
        /\ Reset \/ Reads \/ \E r \in Rows : Applies(r)
    BY ReflKinds DEF ReflectorStep, AloneIInv
  <1>2. /\ ldb.seq \in Nat /\ shovel.work.seq \in Nat
        /\ \A q \in ledger : q.seq \in Nat
    BY ShovelFields, RowFacts DEF AloneIInv, BodyIInv
  <1>3. CASE Reset
    <2>1. ldb' = ldb /\ shovel'.work = ldb
      BY <1>3 DEF Reset
    <2>2. OneTxn'
      BY <1>1, <1>2, <2>1 DEF OneTxn
    <2> QED
      BY <1>1, <2>1, <2>2, SameLog
  <1>4. CASE Reads
    <2>1. ldb' = ldb /\ shovel'.work = shovel.work
      BY <1>4 DEF Reads
    <2>2. OneTxn'
      BY <1>1, <2>1 DEF OneTxn
    <2> QED
      BY <1>1, <2>1, <2>2, SameLog
  <1>5. ASSUME NEW r \in Rows, Applies(r)
        PROVE  OneTxn' /\ (Store!Deliver \/ Stutters)
    <2>1. /\ shovel'.work.seq = r.seq /\ r.seq \in Nat
          /\ shovel'.work = Applied(r) /\ (ldb' = ldb \/ ldb' = Applied(r))
      BY <1>5, SeqType DEF Applies, Applied
    <2>2. CASE ldb' = ldb
      <3>1. OneTxn'
        BY <1>1, <1>5, <2>1, <2>2, NextOfTxn DEF OneTxn
      <3> QED
        BY <1>1, <2>2, <3>1, SameLog
    <2>3. CASE ldb' = Applied(r)
      <3>1. OneTxn'
        BY <1>1, <1>2, <2>1, <2>3 DEF OneTxn
      <3>2. Store!Deliver
        BY <1>1, <1>5, <2>3, ReflectorDelivers, DeliverIs
      <3> QED
        BY <3>1, <3>2
    <2> QED
      BY <2>1, <2>2, <2>3
  <1> QED
    BY <1>1, <1>3, <1>4, <1>5

LEMMA StepRefines ==
    ASSUME AloneIInv, OneTxn, [Next /\ ControlAlone']_vars
    PROVE  OneTxn' /\ (Store!Commit \/ Store!Deliver \/ Stutters)
  <1>1. CASE UNCHANGED <<ledger, ldb, shovel>>
    <2>1. OneTxn'
      BY <1>1 DEF OneTxn
    <2> QED
      BY <1>1, <2>1, SameLog
  <1>2. CASE ExecutiveStep
    <2>1. UNCHANGED reflVars /\ [ExecNext]_execVars /\ BodyIInv
      BY <1>2 DEF ExecutiveStep, AloneIInv
    <2>2. CASE ledger' = ledger
      BY <1>1, <2>1, <2>2 DEF reflVars
    <2>3. ASSUME NEW h \in Handlers, ledger' = ledger \cup req[h].rows
          PROVE  OneTxn' /\ (Store!Commit \/ Store!Deliver \/ Stutters)
      BY <2>1, <2>3, ExecutiveCommits
    <2>4. ledger' = ledger \/ \E h \in Handlers : ledger' = ledger \cup req[h].rows
      <3>1. ASSUME NEW h \in Handlers, MutateAppend(h) \/ ControlLog(h)
            PROVE  ledger' = ledger
        BY <3>1 DEF MutateAppend, ControlLog
      <3>2. ASSUME NEW h \in Handlers, MutateCommit(h) \/ ControlCommit(h)
            PROVE  ledger' = ledger \cup req[h].rows
        BY <3>2 DEF MutateCommit, ControlCommit
      <3> QED
        BY <2>1, <3>1, <3>2, StepKinds
    <2> QED
      BY <2>2, <2>3, <2>4
  <1>3. CASE ReflectorStep
    BY <1>3, ReflectorRefines
  <1>4. CASE UNCHANGED vars
    BY <1>1, <1>4 DEF vars, execVars, reflVars
  <1> QED
    BY <1>2, <1>3, <1>4 DEF Next

LEMMA InitRefines == Init => OneTxn /\ Store!StoreInit
  <1> SUFFICES ASSUME ExecInit, ReflInit PROVE OneTxn /\ Store!StoreInit
    BY DEF Init
  <1>1. ledger = {} /\ ldb.seq = 0 /\ ldb.db = EmptyDatabase
    BY ReflInitType DEF ExecInit
  <1>2. OneTxn
    BY <1>1 DEF OneTxn
  <1>3. TxnsOf(ledger) = {} /\ {m \in TxnsOf(ledger) : m <= 0} = {}
    BY <1>1 DEF TxnsOf
  <1>4. Cardinality(TxnsOf(ledger)) = 0 /\ RankOf(ledger, 0) = 0
    BY <1>3, FS_EmptySet DEF RankOf
  <1>5. LogOf(ledger) = << >>
    BY <1>4 DEF LogOf
  <1> QED
    BY <1>1, <1>2, <1>4, <1>5, LogIs DEF Store!StoreInit

\* The pipeline implements ReplicatedStore: for every reader of the LDB the
\* transactions of ctldb arrive whole, one at a time and in commit order,
\* whatever blocks the source reads, and whenever a shovel fails or the process
\* is restarted between BEGIN and COMMIT.
THEOREM PipelineImplementsStore == AloneSpec => ImplementsStore
  <1>1. Init => OneTxn /\ Store!StoreInit
    BY InitRefines
  <1>2. AloneIInv /\ OneTxn /\ [Next /\ ControlAlone']_vars => OneTxn'
    BY StepRefines
  <1>3. AloneIInv /\ OneTxn /\ [Next /\ ControlAlone']_vars =>
            [Store!Commit \/ Store!Deliver]_<<TxnLog, Delivered, ldb.db>>
    BY StepRefines DEF Stutters
  <1> QED
    BY <1>1, <1>2, <1>3, AloneInvariant, PTL
       DEF AloneSpec, ImplementsStore, Store!StoreSpec, Store!storeVars
=============================================================================
