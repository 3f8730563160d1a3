------------------------------ MODULE Ctlstore ------------------------------
(***************************************************************************)
(* The replication pipeline: the executive writes ctldb and its ledger,    *)
(* the reflector of a host replays the ledger into the LDB.  They share    *)
(* nothing but the committed ledger rows.                                  *)
(***************************************************************************)
EXTENDS Executive, Reflector

vars == <<execVars, reflVars>>

TypeOK == ExecTypeOK /\ ReflTypeOK

Init == ExecInit /\ ReflInit

ExecutiveStep == ExecNext /\ UNCHANGED reflVars

ReflectorStep == ReflNext /\ UNCHANGED <<nextSeq, db, mutators, lock, req, started>>

Next == ExecutiveStep \/ ReflectorStep

Spec == Init /\ [][Next]_vars

\* The shovel's goroutine goes on: Reflector.Start restarts it whatever the
\* error was.  Nothing is assumed of the executive, nor of failures except
\* that there are at most MaxFaults of them.
Fairness == WF_vars(ShovelStep /\ UNCHANGED execVars)

-----------------------------------------------------------------------------
(* Control requests do not take the ledger lock, and the code does nothing *)
(* to keep them apart from mutations.  QuietSpec is the operators'         *)
(* discipline under which the pipeline is correct: a control request runs  *)
(* while no other request does, and does not fail once its DDL has run on  *)
(* ctldb.  Mutations interleave and fail freely.                           *)

ControlAlone ==
    \A h, g \in Handlers : Controlling(h) /\ h # g => ~InFlight(g)

ControlCompletes ==
    \A h \in Handlers :
        req[h].pc \in {"log", "commit"} /\ req'[h] = Idle => ledger' # ledger

QuietSpec == Init /\ [][Next /\ ControlAlone' /\ ControlCompletes]_vars

\* Half of the discipline each: control requests that run beside others but
\* never fail, and control requests that may fail but run alone.
CompleteSpec == Init /\ [][Next /\ ControlCompletes]_vars
AloneSpec    == Init /\ [][Next /\ ControlAlone']_vars

\* The discipline relaxed for ClearTable alone: CreateTable and AddFields run
\* by themselves and every control request completes, but a table may be
\* cleared beside mutations.
Clearing(h) ==
    /\ Controlling(h)
    /\ \A i \in 1..Len(req[h].todo) : req[h].todo[i].op = "clear"
    /\ \A r \in req[h].rows : r.st.op = "clear"

OnlyClearBeside ==
    \A h, g \in Handlers : Controlling(h) /\ ~Clearing(h) /\ h # g => ~InFlight(g)

\* Rows become visible in the order of their sequences.
AppearInOrder == \A r \in ledger' \ ledger : r.seq > MaxSeq

\* No sequence is missing inside the body of a transaction.
NoGapInBody ==
    \A r, s \in ledger : r.txn = s.txn =>
        \A n \in r.seq..s.seq : \E q \in ledger : q.seq = n

\* A ClearTable beside mutations whose row is neither lost nor late.
ClearSpec ==
    Init /\ [][Next /\ OnlyClearBeside' /\ ControlCompletes /\ AppearInOrder]_vars

\* A ClearTable beside mutations whose row is there as soon as the body it
\* falls into.
ClearInsideFairSpec ==
    /\ Init /\ [][Next /\ OnlyClearBeside' /\ ControlCompletes /\ NoGapInBody']_vars
    /\ Fairness

QuietFairSpec == QuietSpec /\ Fairness

-----------------------------------------------------------------------------
(* Properties *)

\* The LDB a reader sees is what the ledger up to the LDB's own sequence
\* tracker produces: no statement lost, repeated or reordered, whatever the
\* blocks, restarts and failures on the way.
LdbIsLedgerPrefix == ldb.db = Replay({r \in ledger : r.seq <= ldb.seq})

\* The committed LDB never holds part of a transaction.
NoTornTransaction ==
    \A r, s \in ledger : r.txn = s.txn /\ r.seq <= ldb.seq => s.seq <= ldb.seq

\* Rows never appear at a sequence the reflector has already read through
\* (the comment on the ledger lock in Mutate).
NoRowBehindReader ==
    [][\A r \in ledger' \ ledger : r.seq > shovel.cursor /\ r.seq > ldb.seq]_ledger

\* The branches of ApplyDMLStatement for "something is very, very wrong with
\* the ledger processing" and for replays are not reached.
NoInvariantViolation ==
    HasStatement => ~Misplaced(Head(shovel.buffer)) /\ ~Replayed(Head(shovel.buffer))

\* An LDB that has applied the whole ledger holds what ctldb holds, unless a
\* control request is between its DDL and its ledger row.
Converged ==
    /\ ldb.seq = MaxSeq
    /\ \A h \in Handlers : ~Controlling(h)
    => ldb.db = db

\* The sequence tracker never goes back, and moves only with a commit of the
\* statements up to it.
TrackerAdvances == [][ldb'.seq > ldb.seq]_ldb

\* The LDB catches up with the ledger again and again.
CatchesUp == []<>(ldb.seq = MaxSeq)

-----------------------------------------------------------------------------
(* The pipeline implements ReplicatedStore.                                *)

Txns == {r.txn : r \in ledger}

\* The statements of transaction n without its markers.
StatementsOf(n) ==
    LET rows == OrderBySeq({r \in ledger : r.txn = n /\ r.st \notin Markers})
    IN  [i \in 1..Len(rows) |-> rows[i].st]

\* How many transactions begin at or below sequence n.
Rank(n) == Cardinality({m \in Txns : m <= n})

\* The committed transactions in the order of their first sequence.
TxnLog == [i \in 1..Cardinality(Txns) |-> StatementsOf(CHOOSE n \in Txns : Rank(n) = i)]

Delivered == Rank(ldb.seq)

Store == INSTANCE ReplicatedStore
         WITH Empty <- EmptyDatabase, Effect <- Exec,
              log <- TxnLog, delivered <- Delivered, copy <- ldb.db

\* Every behaviour of the pipeline is one of the abstract store.
ImplementsStore == Store!StoreSpec
=============================================================================
