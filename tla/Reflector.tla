----------------------------- MODULE Reflector -----------------------------
(***************************************************************************)
(* The reflector of one host (pkg/reflector, pkg/ldbwriter): it tails the  *)
(* ledger and applies it to the LDB, a SQLite file of the host.            *)
(*                                                                         *)
(*   sqlDmlSource   reads the ledger in blocks (cursor, buffer)            *)
(*   shovel         takes statements from the source, stops on a gap, and  *)
(*                  hands them to the writer (lastSeq)                     *)
(*   SqlLdbWriter   applies a statement and its sequence in one SQLite     *)
(*                  transaction, which stays open from BEGIN to COMMIT     *)
(*   Reflector      rebuilds all three whenever the shovel returns an error*)
(***************************************************************************)
EXTENDS Ledger

CONSTANTS BlockSize,   \* QueryBlockSize: rows of one SELECT
          MaxFaults    \* bound: failures that have no cause in the ledger

ASSUME ReflectorAssumption == BlockSize \in Nat \ {0} /\ MaxFaults \in Nat

VARIABLES ldb,        \* committed LDB: its tables and its sequence tracker
          shovel,     \* the running shovel, its source and its writer
          maxKnown,   \* maxSeqOnStartup: max(seq) when the process started
          faults      \* failures so far (for MaxFaults)

reflVars == <<ldb, shovel, maxKnown, faults>>

LDBs == [seq : Nat, db : Databases]

(* up       FALSE while Reflector.Start sleeps between two shovels         *)
(* lastSeq  the sequence of the last statement this shovel applied, or 0   *)
(* cursor   sqlDmlSource.lastSequence                                      *)
(* buffer   sqlDmlSource.buffer                                            *)
(* open     SqlLdbWriter.LedgerTx # nil                                    *)
(* work     the LDB as LedgerTx sees it; the committed LDB if not open     *)

Shovels == [up : BOOLEAN, lastSeq : Nat, cursor : Nat, buffer : Seq(Rows),
            open : BOOLEAN, work : LDBs]

ReflTypeOK ==
    /\ ldb \in LDBs
    /\ shovel \in Shovels
    /\ maxKnown \in Nat
    /\ faults \in Nat

\* shovel.Close: LedgerTx is rolled back and the source is dropped.
Down == [up |-> FALSE, lastSeq |-> 0, cursor |-> 0, buffer |-> << >>,
         open |-> FALSE, work |-> ldb]

EmptyLDB == [seq |-> 0, db |-> EmptyDatabase]

ReflInit ==
    /\ ldb = EmptyLDB
    /\ shovel = [up |-> FALSE, lastSeq |-> 0, cursor |-> 0, buffer |-> << >>,
                 open |-> FALSE, work |-> EmptyLDB]
    /\ maxKnown = MaxSeq
    /\ faults = 0

-----------------------------------------------------------------------------
\* Mutant: the source starts at the head of the ledger.
ShovelStartAtHead ==
    /\ ~shovel.up
    /\ shovel' = [Down EXCEPT !.up = TRUE, !.cursor = MaxSeq]
    /\ UNCHANGED <<ledger, ldb, maxKnown, faults>>

\* The shovel factory of ReflectorFromConfig: everything new, and the source
\* starts after the sequence found in the LDB.
ShovelStart ==
    /\ ~shovel.up
    /\ shovel' = [Down EXCEPT !.up = TRUE, !.cursor = ldb.seq]
    /\ UNCHANGED <<ledger, ldb, maxKnown, faults>>

\* SELECT ... WHERE seq > lastSequence ORDER BY seq LIMIT blocksize.
Select(cursor) ==
    LET rows == OrderBySeq({r \in ledger : r.seq > cursor})
    IN  SubSeq(rows, 1, Min({Len(rows), BlockSize}))

\* sqlDmlSource.Next with an empty buffer.  When nothing is new the shovel
\* sleeps and polls again: no change.
SourceQuery ==
    LET rows == Select(shovel.cursor)
    IN  /\ shovel.up
        /\ shovel.buffer = << >>
        /\ rows # << >>
        /\ shovel' = [shovel EXCEPT !.buffer = rows, !.cursor = rows[Len(rows)].seq]
        /\ UNCHANGED <<ledger, ldb, maxKnown, faults>>

-----------------------------------------------------------------------------
(* One turn of the shovel's loop on the statement at the buffer's head.    *)

HasStatement == shovel.up /\ shovel.buffer # << >>

\* Mutant: the first statement of a shovel is compared with sequence 0.
SkippedFromZero(r) ==
    /\ r.seq > shovel.lastSeq + 1
    /\ r.seq > maxKnown

\* A skipped sequence that was not there when the process started.
Skipped(r) ==
    /\ shovel.lastSeq # 0
    /\ r.seq > shovel.lastSeq + 1
    /\ r.seq > maxKnown

\* A row ApplyDMLStatement refuses: the sequence tracker has seen it, BEGIN in
\* an open ledger transaction, COMMIT without one, or text that does not run.
Replayed(r) == r.seq <= shovel.work.seq
Misplaced(r) == \/ r.st = BeginKey /\ shovel.open
                \/ r.st = EndKey /\ ~shovel.open
Refused(r) == \/ Replayed(r)
              \/ Misplaced(r)
              \/ ~Runs(shovel.work.db, r.st)

\* Mutant: INSERT, not INSERT OR REPLACE, into the sequence tracker.
AppliedKeepSeq(r) ==
    [seq |-> IF shovel.work.seq = 0 THEN r.seq ELSE shovel.work.seq,
     db  |-> Exec(shovel.work.db, r.st)]

\* The LDB, in the writer's transaction, after row r.
Applied(r) == [seq |-> r.seq, db |-> Exec(shovel.work.db, r.st)]

\* The shovel aborts on the gap, or the writer returns an error: shovel.Start
\* returns and the reflector closes the shovel.
ShovelAbort ==
    /\ HasStatement
    /\ Skipped(Head(shovel.buffer)) \/ Refused(Head(shovel.buffer))
    /\ shovel' = Down
    /\ UNCHANGED <<ledger, ldb, maxKnown, faults>>

\* The shovel once row r is applied; open tells whether LedgerTx is left open.
Advanced(r, open) ==
    [shovel EXCEPT !.buffer = Tail(@), !.lastSeq = r.seq,
                   !.open = open, !.work = Applied(r)]

Accepted(r) == ~Skipped(r) /\ ~Refused(r)

\* Mutants: statements inside a ledger transaction are committed one by one;
\* BEGIN does not leave LedgerTx open.
ApplyInTxCommitting ==
    /\ HasStatement
    /\ LET r == Head(shovel.buffer)
       IN  /\ Accepted(r)
           /\ r.st = BeginKey \/ (shovel.open /\ r.st # EndKey)
           /\ shovel' = Advanced(r, TRUE)
           /\ ldb' = Applied(r)
    /\ UNCHANGED <<ledger, maxKnown, faults>>

ApplyInTxNotOpened ==
    /\ HasStatement
    /\ LET r == Head(shovel.buffer)
       IN  /\ Accepted(r)
           /\ r.st = BeginKey \/ (shovel.open /\ r.st # EndKey)
           /\ shovel' = Advanced(r, FALSE)
    /\ UNCHANGED <<ledger, ldb, maxKnown, faults>>

\* BEGIN, or a statement inside a ledger transaction: nothing is committed.
ApplyInTx ==
    /\ HasStatement
    /\ LET r == Head(shovel.buffer)
       IN  /\ Accepted(r)
           /\ r.st = BeginKey \/ (shovel.open /\ r.st # EndKey)
           /\ shovel' = Advanced(r, TRUE)
    /\ UNCHANGED <<ledger, ldb, maxKnown, faults>>

\* COMMIT, or a statement outside any ledger transaction: tx.Commit.
ApplyAndCommit ==
    /\ HasStatement
    /\ LET r == Head(shovel.buffer)
       IN  /\ Accepted(r)
           /\ r.st = EndKey \/ (~shovel.open /\ r.st # BeginKey)
           /\ shovel' = Advanced(r, FALSE)
           /\ ldb' = Applied(r)
    /\ UNCHANGED <<ledger, maxKnown, faults>>

-----------------------------------------------------------------------------
(* Failures.  Each one loses the open SQLite transaction and the buffer.   *)

\* A query error or timeout, a SQLite error, Reflector.Stop, a cancelled
\* context.
ShovelFail ==
    /\ shovel.up
    /\ faults < MaxFaults
    /\ faults' = faults + 1
    /\ shovel' = Down
    /\ UNCHANGED <<ledger, ldb, maxKnown>>

\* The process dies and is started again on the same LDB file.
ProcessRestart ==
    /\ faults < MaxFaults
    /\ faults' = faults + 1
    /\ shovel' = Down
    /\ maxKnown' = MaxSeq
    /\ UNCHANGED <<ledger, ldb>>

ShovelStep ==
    \/ ShovelStart
    \/ SourceQuery
    \/ ShovelAbort
    \/ ApplyInTx
    \/ ApplyAndCommit

ReflNext == ShovelStep \/ ShovelFail \/ ProcessRestart
=============================================================================
