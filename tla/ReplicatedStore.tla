-------------------------- MODULE ReplicatedStore --------------------------
(***************************************************************************)
(* What ctlstore promises a reader of the LDB, without ledger rows,        *)
(* sequences, locks, blocks or crashes: transactions are committed one     *)
(* after the other, and a copy on the host goes through the very same      *)
(* states, one whole transaction at a time, in commit order.               *)
(***************************************************************************)
EXTENDS Sequences, Naturals, SequencesExt

CONSTANTS Empty,          \* the database before any transaction
          Effect(_, _)    \* Effect(d, st): database d after statement st

VARIABLES log,         \* the committed transactions, each a statement list
          delivered,   \* how many of them the copy holds
          copy         \* the database on the host

storeVars == <<log, delivered, copy>>

StoreInit ==
    /\ log = << >>
    /\ delivered = 0
    /\ copy = Empty

\* A transaction commits: it goes to the end of the log.
Commit ==
    /\ Len(log') = Len(log) + 1
    /\ SubSeq(log', 1, Len(log)) = log
    /\ UNCHANGED <<delivered, copy>>

\* The copy takes in the next transaction, all of it at once.
Deliver ==
    /\ delivered < Len(log)
    /\ delivered' = delivered + 1
    /\ copy' = FoldLeft(Effect, copy, log[delivered + 1])
    /\ UNCHANGED log

StoreSpec == StoreInit /\ [][Commit \/ Deliver]_storeVars
=============================================================================
