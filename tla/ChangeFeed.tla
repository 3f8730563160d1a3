----------------------------- MODULE ChangeFeed -----------------------------
(***************************************************************************)
(* How a process of the host learns that rows of the LDB changed           *)
(* (pkg/sqlite, pkg/ldbwriter, pkg/event), composed with the reflector.    *)
(*                                                                         *)
(*   pre-update hook    puts every row a statement touches into a buffer   *)
(*   CallbackWriter     empties the buffer after each statement            *)
(*   ChangelogCallback  numbers the rows and writes them to the changelog  *)
(*   client             keeps copies of LDB rows and drops the copy of a   *)
(*                      row that is announced, or all on ErrOutOfSync      *)
(*                                                                         *)
(* The changelog is whole here; module Changelog is about its files.       *)
(***************************************************************************)
EXTENDS Reflector, SequencesExt

CONSTANTS NoCopy,        \* the client has no copy of the row
          MaxBatch,      \* bound: statements in one mutation
          MaxTxns,       \* bound: transactions in the ledger
          MaxGap         \* bound: sequences lost before a transaction

ASSUME ChangeFeedAssumption ==
    /\ NoCopy \notin Vals \cup {NoRow}
    /\ IsFiniteSet(Keys)
    /\ MaxBatch \in Nat /\ MaxTxns \in Nat /\ MaxGap \in Nat

VARIABLES captured,   \* SQLChangeBuffer: rows touched and not yet popped
          changes,    \* rows popped whose announcement is not yet written
          number,     \* ChangelogCallback.Seq
          log,        \* the changelog: announced rows with their numbers
          pos,        \* how much of the log the client has read
          prev,       \* Iterator.previous: the number of that event, or 0
          copy,       \* the client's copies
          early,      \* history: copies taken of a row that an open ledger
                      \* transaction had changed already
          lost        \* history: copies whose announcement was lost

feedVars   == <<captured, changes, number, log>>
clientVars == <<pos, prev, copy, early, lost>>
vars       == <<ledger, reflVars, feedVars, clientVars>>

RowIds == Tables \X Keys
RowOf(d, id) == d.rows[id[1]][id[2]]

Entries == [row : RowIds, number : Nat]

FeedTypeOK ==
    /\ ReflTypeOK
    /\ captured \in Seq(RowIds) /\ changes \in Seq(RowIds)
    /\ number \in Nat
    /\ log \in Seq(Entries)
    /\ pos \in 0..Len(log)
    /\ prev \in Nat
    /\ copy \in [RowIds -> Vals \cup {NoRow, NoCopy}]
    /\ early \subseteq RowIds /\ lost \subseteq RowIds

Init ==
    /\ ledger = {}
    /\ ReflInit
    /\ captured = << >> /\ changes = << >> /\ number = 0 /\ log = << >>
    /\ pos = 0 /\ prev = 0
    /\ copy = [id \in RowIds |-> NoCopy]
    /\ early = {} /\ lost = {}

-----------------------------------------------------------------------------
(* The ledger grows by whole transactions (see Executive), with gaps where *)
(* others were rolled back.                                                *)

MutationsOf(d) ==
    UNION {{[op |-> "upsert", tbl |-> t, key |-> k, val |-> v, fs |-> d.schema[t]]
               : k \in Keys, v \in Vals}
           \cup {[op |-> "delete", tbl |-> t, key |-> k] : k \in Keys}
           : t \in {u \in Tables : Exists(d, u)}}

ControlsOf(d) ==
    {IF Exists(d, t) THEN [op |-> "clear", tbl |-> t]
                     ELSE [op |-> "create", tbl |-> t, fs |-> Fields] : t \in Tables}

Bodies(d) ==
    {<<st>> : st \in MutationsOf(d) \cup ControlsOf(d)}
    \cup {<<BeginKey>> \o sts \o <<EndKey>> :
             sts \in UNION {[1..n -> MutationsOf(d)] : n \in 2..MaxBatch}}

LedgerGrows(body, gap) ==
    LET first == MaxSeq + 1 + gap
    IN  /\ Cardinality({r.txn : r \in ledger}) < MaxTxns
        /\ ledger' = ledger \cup {[seq |-> first + i - 1, txn |-> first, st |-> body[i]]
                                  : i \in 1..Len(body)}
        /\ UNCHANGED <<reflVars, feedVars, clientVars>>

-----------------------------------------------------------------------------
(* The reflector with its hook and its callbacks *)

\* Mutant: only the new row of a change is looked at.
CapturedNew(d, st) ==
    IF st.op = "upsert" THEN <<<<st.tbl, st.key>>>> ELSE << >>

\* The rows for which the hook fires: the one that is replaced or deleted,
\* if it is there, or inserted; every row of a table that is cleared.  (A row
\* that is replaced may be captured twice, as old and as new row: once here.)
Captured(d, st) ==
    LET hit == {k \in Keys : /\ st.op = "clear" \/ st.key = k
                             /\ d.rows[st.tbl][k] # NoRow}
    IN  IF st.op = "upsert" THEN <<<<st.tbl, st.key>>>>
        ELSE IF st.op \in {"delete", "clear"}
             THEN SetToSeq({<<st.tbl, k>> : k \in hit})
             ELSE << >>

\* The shovel's goroutine is in no callback.
Calm == changes = << >>

\* Mutant: the buffer is emptied before the statement is applied.
ApplyPopFirst ==
    /\ Calm
    /\ ApplyInTx \/ ApplyAndCommit
    /\ changes' = captured
    /\ captured' = Captured(shovel.work.db, Head(shovel.buffer).st)
    /\ UNCHANGED <<number, log, clientVars>>

\* CallbackWriter.ApplyDMLStatement: the delegate succeeds, then Pop.
Apply ==
    /\ Calm
    /\ ApplyInTx \/ ApplyAndCommit
    /\ changes' = captured \o Captured(shovel.work.db, Head(shovel.buffer).st)
    /\ captured' = << >>
    /\ UNCHANGED <<number, log, clientVars>>

\* The delegate fails after it has executed the statement, at its commit or
\* before: the rows stay in the buffer, which outlives the shovel.
ApplyFails ==
    /\ Calm
    /\ HasStatement
    /\ Accepted(Head(shovel.buffer))
    /\ ShovelFail
    /\ captured' = captured \o Captured(shovel.work.db, Head(shovel.buffer).st)
    /\ UNCHANGED <<changes, number, log, clientVars>>

\* A new shovel has a new callback, which counts from 0.
Restart ==
    /\ Calm
    /\ ShovelStart
    /\ number' = 0
    /\ UNCHANGED <<captured, changes, log, clientVars>>

\* One turn of the loops in ChangelogCallback.LDBWritten.
Announce ==
    /\ ~Calm
    /\ log' = Append(log, [row |-> Head(changes), number |-> number + 1])
    /\ number' = number + 1
    /\ changes' = Tail(changes)
    /\ UNCHANGED <<ledger, reflVars, captured, clientVars>>

\* "Skipped logging change": the keys cannot be extracted, or the entry, whose
\* number is taken, cannot be written.
AnnounceFails ==
    /\ ~Calm
    /\ faults < MaxFaults
    /\ faults' = faults + 1
    /\ number' \in {number, number + 1}
    /\ changes' = Tail(changes)
    /\ lost' = lost \cup {Head(changes)}
    /\ UNCHANGED <<ledger, ldb, shovel, maxKnown, captured, log, pos, prev, copy, early>>

\* The process dies, in a callback or not; buffer and callback are gone.  What
\* an open ledger transaction changed will be applied and announced again.
Crash ==
    /\ ProcessRestart
    /\ captured' = << >> /\ changes' = << >> /\ number' = 0
    /\ lost' = lost \cup (IF shovel.open THEN {} ELSE ToSet(changes))
    /\ UNCHANGED <<log, pos, prev, copy, early>>

-----------------------------------------------------------------------------
(* The client *)

\* A copy is taken of the row as committed in the LDB.
Fill(id) ==
    /\ copy[id] = NoCopy
    /\ copy' = [copy EXCEPT ![id] = RowOf(ldb.db, id)]
    /\ early' = IF RowOf(shovel.work.db, id) # RowOf(ldb.db, id) THEN early \cup {id}
                                                                 ELSE early \ {id}
    /\ lost' = lost \ {id}
    /\ UNCHANGED <<ledger, reflVars, feedVars, pos, prev>>

\* Iterator.Next: the copies to drop are the announced one, or on ErrOutOfSync
\* all of them.
IteratorNext ==
    LET e    == log[pos + 1]
        drop == IF prev # 0 /\ e.number # prev + 1 THEN RowIds ELSE {e.row}
    IN  /\ pos < Len(log)
        /\ pos' = pos + 1
        /\ prev' = e.number
        /\ copy' = [id \in RowIds |-> IF id \in drop THEN NoCopy ELSE copy[id]]
        /\ early' = early \ drop
        /\ lost' = lost \ drop
        /\ UNCHANGED <<ledger, reflVars, feedVars>>

-----------------------------------------------------------------------------
\* What the shovel's goroutine does of itself.
ShovelOn ==
    \/ Apply
    \/ Restart
    \/ Calm /\ (SourceQuery \/ ShovelAbort) /\ UNCHANGED <<feedVars, clientVars>>

Next ==
    \/ \E body \in Bodies(Replay(ledger)), gap \in 0..MaxGap : LedgerGrows(body, gap)
    \/ ShovelOn
    \/ Calm /\ ShovelFail /\ UNCHANGED <<feedVars, clientVars>>
    \/ ApplyFails \/ Announce \/ AnnounceFails \/ Crash
    \/ \E id \in RowIds : Fill(id)
    \/ IteratorNext

Spec == Init /\ [][Next]_vars

\* The shovel's goroutine goes on, and so does a client that calls Next.
Fairness == WF_vars(ShovelOn) /\ WF_vars(Announce) /\ WF_vars(IteratorNext)

FairSpec == Spec /\ Fairness

-----------------------------------------------------------------------------
(* Properties *)

Stale(id) == copy[id] \notin {NoCopy, RowOf(ldb.db, id)}

\* Rows whose announcement is being written or waits to be read.
ToCome == ToSet(changes) \cup {log[i].row : i \in pos + 1..Len(log)}

\* A copy that differs from the committed row will be dropped: its row is in
\* the callback or in the log, whatever failed or was rolled back and applied
\* again before.  Excepted are copies taken between a statement of a ledger
\* transaction and its COMMIT, and announcements that were themselves lost.
CacheHonest == \A id \in RowIds : Stale(id) => id \in ToCome \cup early \cup lost

\* And in the end it is dropped.
StaleHeals ==
    \A id \in RowIds : Stale(id) ~> (~Stale(id) \/ id \in early \cup lost)

\* When ApplyDMLStatement returns, the statement is committed and then its
\* rows are announced: no copy taken after an announcement is out of date.
CacheFresh == \A id \in RowIds : Stale(id) => id \in ToCome \cup lost
=============================================================================
