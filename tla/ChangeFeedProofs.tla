-------------------------- MODULE ChangeFeedProofs --------------------------
(***************************************************************************)
(* Proofs about the change feed: for any number of tables, keys, values,   *)
(* transactions and failures, a client that drops what is announced keeps  *)
(* no copy of a row that is out of date for good.                          *)
(***************************************************************************)
EXTENDS ChangeFeed, LedgerProofs, TLAPS

USE ReflectorAssumption, ChangeFeedAssumption

-----------------------------------------------------------------------------
(* The inductive invariant *)

LedgerOK == ledger \in FiniteRows /\ DistinctSeqs(ledger)

\* Rows announced in the log that the client has not come to.
Unread == {log[i].row : i \in pos + 1..Len(log)}

\* The client has a copy of the row that is not the row in database d.
Differs(id, d) == copy[id] # NoCopy /\ copy[id] # RowOf(d, id)

\* A copy that is not what LedgerTx sees will be dropped.  While LedgerTx is
\* open the row under announcement may be one it changed and still roll back,
\* so a copy that is not what is committed must be announced in the log.
CopiesCovered ==
    \A id \in RowIds :
        /\ Differs(id, shovel.work.db) => id \in ToSet(changes) \cup Unread \cup early \cup lost
        /\ shovel.open = TRUE /\ Differs(id, ldb.db) => id \in Unread \cup early \cup lost

\* Without LedgerTx the writer sees what is committed.
WorkIsLdb == shovel.open = FALSE => shovel.work = ldb

FeedIInv == LedgerOK /\ FeedTypeOK /\ WorkIsLdb /\ CopiesCovered

-----------------------------------------------------------------------------
(* The pre-update hook sees every row that a statement changes.            *)

LEMMA SetToSeqLists ==
    ASSUME NEW S, IsFiniteSet(S)
    PROVE  SetToSeq(S) \in Seq(S) /\ ToSet(SetToSeq(S)) = S
  <1> DEFINE n == Cardinality(S)
             f == SetToSeq(S)
  <1>1. n \in Nat /\ ExistsBijection(1..n, S)
    BY FS_CardinalityType
  <1>2. \E g \in [1..n -> S] : IsInjective(g)
    BY <1>1 DEF ExistsBijection, Bijection, Injection, IsInjective
  <1>3. f \in [1..n -> S] /\ IsInjective(f)
    BY <1>2 DEF SetToSeq
  <1> HIDE DEF n, f
  <1>4. f \in Injection(1..n, S)
    BY <1>3 DEF Injection, IsInjective
  <1>5. Cardinality(1..n) = n /\ IsFiniteSet(1..n)
    BY <1>1, FS_Interval
  <1>6. f \in Surjection(1..n, S)
    BY <1>4, <1>5, FS_Injection DEF n
  <1>7. ToSet(f) = S
    BY <1>3, <1>6 DEF ToSet, Surjection
  <1>8. f \in Seq(S)
    BY <1>1, <1>3
  <1> QED
    BY <1>7, <1>8 DEF f

LEMMA HitFinite ==
    ASSUME NEW K \in SUBSET Keys, NEW t
    PROVE  IsFiniteSet({<<t, k>> : k \in K})
  <1> DEFINE T == {<<t, k>> : k \in K}
             f == [k \in K |-> <<t, k>>]
  <1>1. IsFiniteSet(K)
    BY FS_Subset
  <1>2. f \in Surjection(K, T)
    BY DEF Surjection
  <1> QED
    BY <1>1, <1>2, FS_Surjection

\* What the hook captures are rows, among them every row that changes.
LEMMA CapturedCovers ==
    ASSUME NEW d \in Databases, NEW st \in Statements
    PROVE  /\ Captured(d, st) \in Seq(RowIds)
           /\ \A id \in RowIds : RowOf(Exec(d, st), id) # RowOf(d, id)
                                    => id \in ToSet(Captured(d, st))
  <1>1. CASE st \in UpsertDML
    <2>1. st.op = "upsert" /\ st.tbl \in Tables /\ st.key \in Keys
      BY <1>1 DEF UpsertDML
    <2>2. Captured(d, st) = <<<<st.tbl, st.key>>>>
      BY <2>1 DEF Captured
    <2>3. ToSet(Captured(d, st)) = {<<st.tbl, st.key>>} /\ Captured(d, st) \in Seq(RowIds)
      BY <2>1, <2>2 DEF ToSet, RowIds
    <2>4. ASSUME NEW id \in RowIds, id # <<st.tbl, st.key>>
          PROVE  RowOf(Exec(d, st), id) = RowOf(d, id)
      BY <2>1, <2>4 DEF RowOf, RowIds, Exec, Overwrite, Databases
    <2> QED
      BY <2>3, <2>4
  <1>2. CASE st \in DeleteDML \cup ClearTableDDL
    <2> DEFINE K == {k \in Keys : (st.op = "clear" \/ st.key = k) /\ d.rows[st.tbl][k] # NoRow}
               S == {<<st.tbl, k>> : k \in K}
    <2>1. st.op \in {"delete", "clear"} /\ st.tbl \in Tables
      BY <1>2 DEF DeleteDML, ClearTableDDL
    <2>2. Captured(d, st) = SetToSeq(S)
      BY <2>1 DEF Captured
    <2>3. IsFiniteSet(S)
      <3>1. K \in SUBSET Keys
        OBVIOUS
      <3> HIDE DEF K
      <3> QED
        BY <3>1, HitFinite
    <2>4. SetToSeq(S) \in Seq(S) /\ ToSet(SetToSeq(S)) = S
      <3> HIDE DEF S
      <3> QED
        BY <2>3, SetToSeqLists
    <2>5. S \subseteq RowIds
      BY <2>1 DEF RowIds
    <2>6. SetToSeq(S) \in Seq(RowIds)
      <3> HIDE DEF S
      <3> QED
        BY <2>4, <2>5
    <2>7. ASSUME NEW id \in RowIds, RowOf(Exec(d, st), id) # RowOf(d, id)
          PROVE  id \in S
      <3>1. PICK t \in Tables, k \in Keys : id = <<t, k>>
        BY DEF RowIds
      <3>2. RowOf(Exec(d, st), id) = Overwrite(d.rows, st)[t][k] /\ RowOf(d, id) = d.rows[t][k]
        BY <3>1 DEF RowOf, Exec
      <3>3. d.rows \in [Tables -> [Keys -> Vals \cup {NoRow}]]
        BY DEF Databases
      <3>4. Overwrite(d.rows, st)[t][k] = IF t = st.tbl /\ (st.op = "clear" \/ st.key = k)
                                          THEN NoRow ELSE d.rows[t][k]
        BY <2>1, <3>3 DEF Overwrite
      <3> QED
        BY <2>7, <3>1, <3>2, <3>4
    <2> QED
      BY <2>2, <2>4, <2>6, <2>7
  <1>3. CASE st \in Markers \cup CreateTableDDL \cup AddColumnDDL
    <2>1. st.op \notin {"upsert", "delete", "clear"}
      BY <1>3 DEF Markers, BeginKey, EndKey, CreateTableDDL, AddColumnDDL
    <2>2. Captured(d, st) = << >> /\ Exec(d, st).rows = d.rows
      BY <2>1 DEF Captured, Exec, Overwrite
    <2> QED
      BY <2>2 DEF RowOf
  <1> QED
    BY <1>1, <1>2, <1>3 DEF Statements, DMLs, Controls

-----------------------------------------------------------------------------
(* The ledger *)

LEMMA MutationStatements ==
    ASSUME NEW d \in Databases
    PROVE  MutationsOf(d) \subseteq Statements /\ ControlsOf(d) \subseteq Statements
  <1>1. \A t \in Tables : d.schema[t] \in SUBSET Fields
    BY DEF Databases
  <1>2. ASSUME NEW st \in MutationsOf(d)
        PROVE  st \in UpsertDML \cup DeleteDML
    <2>1. PICK t \in Tables : \/ \E k \in Keys, v \in Vals :
                                    st = [op |-> "upsert", tbl |-> t, key |-> k, val |-> v,
                                          fs |-> d.schema[t]]
                              \/ \E k \in Keys : st = [op |-> "delete", tbl |-> t, key |-> k]
      BY <1>2 DEF MutationsOf
    <2> QED
      BY <1>1, <2>1 DEF UpsertDML, DeleteDML
  <1>3. ASSUME NEW st \in ControlsOf(d)
        PROVE  st \in CreateTableDDL \cup ClearTableDDL
    BY <1>3 DEF ControlsOf, CreateTableDDL, ClearTableDDL
  <1> QED
    BY <1>2, <1>3 DEF Statements, DMLs, Controls

LEMMA BodyStatements ==
    ASSUME NEW d \in Databases, NEW body \in Bodies(d)
    PROVE  body \in Seq(Statements)
  <1>1. CASE \E st \in MutationsOf(d) \cup ControlsOf(d) : body = <<st>>
    <2>1. PICK st \in Statements : body = <<st>>
      BY <1>1, MutationStatements
    <2> QED
      BY <2>1
  <1>2. CASE \E n \in 2..MaxBatch : \E sts \in [1..n -> MutationsOf(d)] :
                body = <<BeginKey>> \o sts \o <<EndKey>>
    <2>1. PICK n \in 2..MaxBatch : \E sts \in [1..n -> MutationsOf(d)] :
                  body = <<BeginKey>> \o sts \o <<EndKey>>
      BY <1>2
    <2>2. PICK sts \in [1..n -> MutationsOf(d)] : body = <<BeginKey>> \o sts \o <<EndKey>>
      BY <2>1
    <2>3. n \in Nat
      OBVIOUS
    <2>4. \A i \in 1..n : sts[i] \in Statements
      BY MutationStatements
    <2>5. sts \in Seq(Statements)
      BY <2>3, <2>4
    <2>6. BeginKey \in Statements /\ EndKey \in Statements
      BY DEF Statements, Markers
    <2>7. <<BeginKey>> \in Seq(Statements) /\ <<EndKey>> \in Seq(Statements)
      BY <2>6
    <2> HIDE DEF BeginKey, EndKey
    <2> QED
      BY <2>2, <2>5, <2>7
  <1> QED
    BY <1>1, <1>2 DEF Bodies

LEMMA LedgerKept ==
    ASSUME LedgerOK, NEW body \in Seq(Statements), NEW gap \in Nat, LedgerGrows(body, gap)
    PROVE  LedgerOK'
  <1> DEFINE first == MaxSeq + 1 + gap
             n == Len(body)
             f == [i \in 1..n |-> [seq |-> first + i - 1, txn |-> first, st |-> body[i]]]
             T == {f[i] : i \in 1..n}
  <1>1. MaxSeq \in Nat /\ \A r \in ledger : r.seq <= MaxSeq
    BY MaxSeqIs DEF LedgerOK
  <1>2. ledger' = ledger \cup T
    BY DEF LedgerGrows
  <1>3. n \in Nat /\ first \in Nat \ {0}
    BY <1>1
  <1>4. \A i \in 1..n : /\ f[i] \in Rows /\ f[i].seq = first + i - 1 /\ f[i].seq > MaxSeq
                        /\ f[i].seq \in Nat
    <2> HIDE DEF first
    <2>1. \A i \in 1..n : first + i - 1 \in Nat \ {0} /\ body[i] \in Statements
      BY <1>3
    <2>2. \A i \in 1..n : f[i].seq = first + i - 1
      OBVIOUS
    <2>3. \A i \in 1..n : f[i] \in Rows
      BY <1>3, <2>1 DEF Rows
    <2> QED
      BY <1>1, <1>3, <2>1, <2>2, <2>3 DEF first
  <1>5. f \in Surjection(1..n, T)
    BY DEF Surjection
  <1> HIDE DEF f, first, n
  <1>6. IsFiniteSet(T)
    <2>1. IsFiniteSet(1..n)
      BY <1>3, FS_Interval
    <2> HIDE DEF T
    <2> QED
      BY <1>5, <2>1, FS_Surjection
  <1>7. ledger' \in FiniteRows
    <2>1. T \in SUBSET Rows
      BY <1>4
    <2> HIDE DEF T
    <2> QED
      BY <1>2, <1>6, <2>1, FS_Union DEF LedgerOK, FiniteRows
  <1>8. DistinctSeqs(ledger')
    <2> SUFFICES ASSUME NEW q \in ledger', NEW r \in ledger', q.seq = r.seq PROVE q = r
      BY DEF DistinctSeqs
    <2>1. CASE q \in ledger /\ r \in ledger
      BY <2>1 DEF LedgerOK, DistinctSeqs
    <2>2. CASE \E i, j \in 1..n : q = f[i] /\ r = f[j]
      <3>1. PICK i \in 1..n, j \in 1..n : q = f[i] /\ r = f[j]
        BY <2>2
      <3>2. first + i - 1 = first + j - 1
        BY <1>4, <3>1
      <3> QED
        BY <1>3, <3>1, <3>2
    <2>3. \A i \in 1..n, p \in ledger : f[i].seq # p.seq
      <3>1. \A p \in ledger : p.seq \in Nat
        BY SeqType DEF LedgerOK, FiniteRows
      <3> QED
        BY <1>1, <1>4, <3>1
    <2> QED
      BY <1>2, <2>1, <2>2, <2>3
  <1> QED
    BY <1>7, <1>8 DEF LedgerOK

-----------------------------------------------------------------------------
(* The reflector *)

LEMMA ShovelFields ==
    ASSUME ReflTypeOK
    PROVE  /\ ldb \in LDBs /\ ldb.seq \in Nat /\ ldb.db \in Databases
           /\ shovel.up \in BOOLEAN /\ shovel.open \in BOOLEAN
           /\ shovel.lastSeq \in Nat /\ shovel.cursor \in Nat
           /\ shovel.buffer \in Seq(Rows) /\ shovel.work \in LDBs
           /\ shovel.work.seq \in Nat /\ shovel.work.db \in Databases
           /\ shovel \in Shovels /\ maxKnown \in Nat /\ faults \in Nat
  BY DEF ReflTypeOK, Shovels, LDBs

\* Every way the shovel ends or starts: LedgerTx is rolled back.
LEMMA ShovelDown ==
    ASSUME LedgerOK, ReflTypeOK, ShovelStart \/ ShovelAbort \/ ShovelFail \/ ProcessRestart
    PROVE  /\ ReflTypeOK' /\ ledger' = ledger /\ ldb' = ldb
           /\ shovel'.open = FALSE /\ shovel'.work = ldb
  <1>1. FALSE \in BOOLEAN /\ TRUE \in BOOLEAN /\ 0 \in Nat /\ << >> \in Seq(Rows)
    OBVIOUS
  <1>2. Down \in Shovels /\ Down.open = FALSE /\ Down.work = ldb
    BY <1>1, ShovelFields DEF Down, Shovels
  <1>3. CASE ShovelStart
    <2> DEFINE s == [Down EXCEPT !.up = TRUE, !.cursor = ldb.seq]
    <2>1. s \in Shovels /\ s.open = FALSE /\ s.work = ldb
      BY <1>1, <1>2, ShovelFields DEF Shovels
    <2>2. shovel' = s /\ UNCHANGED <<ledger, ldb, maxKnown, faults>>
      BY <1>3 DEF ShovelStart
    <2> HIDE DEF s
    <2> QED
      BY <2>1, <2>2, ShovelFields DEF ReflTypeOK
  <1>4. CASE ShovelAbort \/ ShovelFail \/ ProcessRestart
    <2>1. MaxSeq \in Nat
      BY MaxSeqIs DEF LedgerOK
    <2>2. /\ shovel' = Down /\ UNCHANGED <<ledger, ldb>>
          /\ maxKnown' \in Nat /\ faults' \in Nat
      BY <1>4, <2>1, ShovelFields DEF ShovelAbort, ShovelFail, ProcessRestart
    <2> QED
      BY <1>2, <2>2, ShovelFields DEF ReflTypeOK
  <1> QED
    BY <1>3, <1>4

LEMMA QueryStep ==
    ASSUME LedgerOK, ReflTypeOK, SourceQuery
    PROVE  /\ ReflTypeOK' /\ ledger' = ledger /\ ldb' = ldb
           /\ shovel'.open = shovel.open /\ shovel'.work = shovel.work
  <1> DEFINE S == {r \in ledger : r.seq > shovel.cursor}
             rows == Select(shovel.cursor)
             s == [shovel EXCEPT !.buffer = rows, !.cursor = rows[Len(rows)].seq]
  <1>1. shovel' = s /\ rows # << >> /\ UNCHANGED <<ledger, ldb, maxKnown, faults>>
    BY DEF SourceQuery
  <1>2. S \in FiniteRows /\ DistinctSeqs(S)
    BY SubsetsFinite DEF LedgerOK, DistinctSeqs
  <1>3. rows = SubSeq(OrderBySeq(S), 1, Min({Len(OrderBySeq(S)), BlockSize}))
    BY DEF Select
  <1> HIDE DEF S, rows
  <1>4. rows \in Seq(Rows) /\ rows[Len(rows)] \in S
    BY <1>1, <1>2, <1>3, LimitLists
  <1>5. rows[Len(rows)].seq \in Nat
    BY <1>2, <1>4, SeqType DEF FiniteRows
  <1>6. s \in Shovels /\ s.open = shovel.open /\ s.work = shovel.work
    BY <1>4, <1>5, ShovelFields DEF Shovels
  <1> HIDE DEF s
  <1> QED
    BY <1>1, <1>6, ShovelFields DEF ReflTypeOK

LEMMA ApplyStep ==
    ASSUME ReflTypeOK, ApplyInTx \/ ApplyAndCommit
    PROVE  LET r == Head(shovel.buffer)
           IN  /\ ReflTypeOK' /\ ledger' = ledger /\ r.st \in Statements
               /\ shovel'.work.db = Exec(shovel.work.db, r.st)
               /\ \/ shovel'.open = TRUE /\ ldb' = ldb
                  \/ shovel'.open = FALSE /\ ldb' = shovel'.work
  <1> DEFINE r == Head(shovel.buffer)
  <1>1. r \in Rows /\ Tail(shovel.buffer) \in Seq(Rows)
    <2>1. shovel.buffer # << >>
      BY DEF ApplyInTx, ApplyAndCommit, HasStatement
    <2> QED
      BY <2>1, ShovelFields
  <1>2. r.seq \in Nat /\ r.st \in Statements
    BY <1>1, SeqType
  <1>3. Applied(r) \in LDBs /\ Applied(r).db = Exec(shovel.work.db, r.st)
    BY <1>2, ShovelFields, ExecType DEF Applied, LDBs
  <1> HIDE DEF r
  <1>4. ASSUME NEW o \in BOOLEAN
        PROVE  LET s == [shovel EXCEPT !.buffer = Tail(@), !.lastSeq = r.seq,
                                       !.open = o, !.work = Applied(r)]
               IN  s \in Shovels /\ s.work = Applied(r) /\ s.open = o
    BY <1>1, <1>2, <1>3, ShovelFields DEF Shovels
  <1>5. TRUE \in BOOLEAN /\ FALSE \in BOOLEAN
    OBVIOUS
  <1>6. CASE ApplyInTx
    <2>1. shovel' = Advanced(r, TRUE) /\ UNCHANGED <<ledger, ldb, maxKnown, faults>>
      BY <1>6 DEF ApplyInTx, r
    <2>2. shovel' \in Shovels /\ shovel'.work = Applied(r) /\ shovel'.open = TRUE
      BY <1>4, <1>5, <2>1 DEF Advanced
    <2> QED
      BY <1>2, <1>3, <2>1, <2>2, ShovelFields DEF ReflTypeOK, r
  <1>7. CASE ApplyAndCommit
    <2>1. shovel' = Advanced(r, FALSE) /\ ldb' = Applied(r) /\ UNCHANGED <<ledger, maxKnown, faults>>
      BY <1>7 DEF ApplyAndCommit, r
    <2>2. shovel' \in Shovels /\ shovel'.work = Applied(r) /\ shovel'.open = FALSE
      BY <1>4, <1>5, <2>1 DEF Advanced
    <2> QED
      BY <1>2, <1>3, <2>1, <2>2, ShovelFields DEF ReflTypeOK, r
  <1> QED
    BY <1>6, <1>7

-----------------------------------------------------------------------------
(* One lemma per kind of step *)

\* The types of what the reflector's module does not declare.
LEMMA FeedFields ==
    ASSUME FeedTypeOK
    PROVE  /\ ReflTypeOK /\ captured \in Seq(RowIds) /\ changes \in Seq(RowIds)
           /\ number \in Nat /\ log \in Seq(Entries) /\ pos \in 0..Len(log) /\ prev \in Nat
           /\ copy \in [RowIds -> Vals \cup {NoRow, NoCopy}]
           /\ early \subseteq RowIds /\ lost \subseteq RowIds
  BY DEF FeedTypeOK

LEMMA NothingToAnnounce ==
    ASSUME Calm
    PROVE  ToSet(changes) = {}
  BY DEF Calm, ToSet

\* A shovel ends or starts outside a callback: what LedgerTx changed is as if
\* it had not been.
LEMMA KeptDown ==
    ASSUME FeedIInv, Calm, ShovelStart \/ ShovelAbort \/ ShovelFail,
           captured' \in Seq(RowIds), number' \in Nat, UNCHANGED <<changes, log, clientVars>>
    PROVE  FeedIInv'
  <1>1. /\ ReflTypeOK' /\ ledger' = ledger /\ ldb' = ldb
        /\ shovel'.open = FALSE /\ shovel'.work = ldb
    BY ShovelDown, FeedFields DEF FeedIInv
  <1>2. shovel.open \in BOOLEAN
    BY FeedFields, ShovelFields DEF FeedIInv
  <1>3. CopiesCovered'
    <2> SUFFICES ASSUME NEW id \in RowIds, copy[id] # NoCopy, copy[id] # RowOf(ldb.db, id)
                 PROVE  id \in Unread \cup early \cup lost
      BY <1>1 DEF CopiesCovered, Differs, Unread, clientVars
    <2> QED
      BY <1>2, NothingToAnnounce DEF FeedIInv, CopiesCovered, WorkIsLdb, Differs
  <1> QED
    BY <1>1, <1>3 DEF FeedIInv, FeedTypeOK, LedgerOK, WorkIsLdb, clientVars

\* The ledger grows, or the source reads it.
LEMMA KeptRead ==
    ASSUME FeedIInv, LedgerOK', ReflTypeOK', ldb' = ldb, shovel'.open = shovel.open,
           shovel'.work = shovel.work, UNCHANGED <<feedVars, clientVars>>
    PROVE  FeedIInv'
  <1>1. CopiesCovered'
    BY DEF FeedIInv, CopiesCovered, Differs, Unread, feedVars, clientVars
  <1> QED
    BY <1>1 DEF FeedIInv, FeedTypeOK, WorkIsLdb, feedVars, clientVars

\* A statement is applied: a copy it makes wrong is of a row it captured.
LEMMA KeptApply ==
    ASSUME FeedIInv, Apply
    PROVE  FeedIInv'
  <1> DEFINE d == shovel.work.db
             st == Head(shovel.buffer).st
             c == Captured(d, st)
  <1>1. /\ ReflTypeOK' /\ ledger' = ledger /\ st \in Statements
        /\ shovel'.work.db = Exec(d, st)
        /\ \/ shovel'.open = TRUE /\ ldb' = ldb
           \/ shovel'.open = FALSE /\ ldb' = shovel'.work
    BY ApplyStep, FeedFields DEF FeedIInv, Apply
  <1>2. /\ c \in Seq(RowIds)
        /\ \A id \in RowIds : RowOf(Exec(d, st), id) # RowOf(d, id) => id \in ToSet(c)
    BY <1>1, CapturedCovers, FeedFields, ShovelFields DEF FeedIInv
  <1>3. /\ changes' = captured \o c /\ captured' = << >>
        /\ UNCHANGED <<number, log, clientVars>> /\ Calm
    BY DEF Apply
  <1> HIDE DEF c, st
  <1>4. captured \in Seq(RowIds)
    BY FeedFields DEF FeedIInv
  <1>5. changes' \in Seq(RowIds) /\ ToSet(c) \subseteq ToSet(changes')
    <2>1. \A i \in 1..Len(c) : /\ Len(captured) + i \in 1..Len(captured \o c)
                               /\ (captured \o c)[Len(captured) + i] = c[i]
      BY <1>2, <1>4
    <2>2. DOMAIN c = 1..Len(c) /\ DOMAIN (captured \o c) = 1..Len(captured \o c)
      BY <1>2, <1>4
    <2>3. captured \o c \in Seq(RowIds)
      BY <1>2, <1>4
    <2> HIDE DEF d
    <2> QED
      BY <1>3, <2>1, <2>2, <2>3 DEF ToSet
  <1>6. shovel.open \in BOOLEAN /\ ToSet(changes) = {}
    BY <1>3, FeedFields, ShovelFields, NothingToAnnounce DEF FeedIInv
  <1>7. ASSUME NEW id \in RowIds, copy[id] # NoCopy, copy[id] # RowOf(Exec(d, st), id)
        PROVE  id \in ToSet(c) \cup Unread \cup early \cup lost
    <2>1. CASE copy[id] # RowOf(d, id)
      BY <1>6, <1>7, <2>1 DEF FeedIInv, CopiesCovered, Differs
    <2>2. CASE copy[id] = RowOf(d, id)
      BY <1>2, <1>7, <2>2
    <2> QED
      BY <2>1, <2>2
  <1>8. ASSUME NEW id \in RowIds, copy[id] # NoCopy, copy[id] # RowOf(ldb.db, id)
        PROVE  id \in Unread \cup early \cup lost
    BY <1>6, <1>8 DEF FeedIInv, CopiesCovered, WorkIsLdb, Differs
  <1>9. Unread' = Unread /\ copy' = copy /\ early' = early /\ lost' = lost
    BY <1>3 DEF Unread, clientVars
  <1>10. CopiesCovered'
    <2>1. ASSUME NEW id \in RowIds, copy'[id] # NoCopy, copy'[id] # RowOf(shovel'.work.db, id)
          PROVE  id \in ToSet(changes') \cup Unread' \cup early' \cup lost'
      BY <1>1, <1>5, <1>7, <1>9, <2>1
    <2>2. ASSUME NEW id \in RowIds, shovel'.open = TRUE, copy'[id] # NoCopy,
                 copy'[id] # RowOf(ldb'.db, id)
          PROVE  id \in Unread' \cup early' \cup lost'
      BY <1>1, <1>8, <1>9, <2>2
    <2> QED
      BY <2>1, <2>2 DEF CopiesCovered, Differs
  <1>11. FeedTypeOK'
    <2>1. captured' \in Seq(RowIds)
      BY <1>3
    <2> QED
      BY <1>1, <1>3, <1>5, <2>1 DEF FeedIInv, FeedTypeOK, clientVars
  <1>12. WorkIsLdb' /\ LedgerOK'
    BY <1>1 DEF WorkIsLdb, LedgerOK, FeedIInv
  <1> QED
    BY <1>10, <1>11, <1>12 DEF FeedIInv

LEMMA HeadAndTail ==
    ASSUME NEW s \in Seq(RowIds), s # << >>
    PROVE  /\ Head(s) \in RowIds /\ Tail(s) \in Seq(RowIds)
           /\ ToSet(s) = {Head(s)} \cup ToSet(Tail(s))
  <1>1. /\ Len(s) \in Nat /\ 1 \in 1..Len(s) /\ Head(s) = s[1] /\ DOMAIN s = 1..Len(s)
        /\ Tail(s) \in Seq(RowIds) /\ DOMAIN Tail(s) = 1..(Len(s) - 1)
        /\ \A i \in 1..(Len(s) - 1) : Tail(s)[i] = s[i + 1] /\ i + 1 \in 1..Len(s)
        /\ \A i \in 1..Len(s) : s[i] \in RowIds
    OBVIOUS
  <1>2. \A i \in 1..Len(s) : i = 1 \/ (i - 1 \in 1..(Len(s) - 1) /\ Tail(s)[i - 1] = s[i])
    BY <1>1
  <1>3. ToSet(s) \subseteq {Head(s)} \cup ToSet(Tail(s))
    <2> SUFFICES ASSUME NEW i \in 1..Len(s)
                 PROVE  s[i] \in {Head(s)} \cup ToSet(Tail(s))
      BY <1>1 DEF ToSet
    <2>1. CASE i = 1
      BY <1>1, <2>1
    <2>2. CASE i - 1 \in 1..(Len(s) - 1) /\ Tail(s)[i - 1] = s[i]
      BY <1>1, <2>2 DEF ToSet
    <2> QED
      BY <1>2, <2>1, <2>2
  <1>4. {Head(s)} \cup ToSet(Tail(s)) \subseteq ToSet(s)
    BY <1>1 DEF ToSet
  <1> QED
    BY <1>1, <1>3, <1>4

\* An announcement moves a row from the callback to the log, or loses it.
LEMMA KeptAnnounce ==
    ASSUME FeedIInv, Announce \/ AnnounceFails
    PROVE  FeedIInv'
  <1> DEFINE id0 == Head(changes)
  <1>1. /\ id0 \in RowIds /\ changes' \in Seq(RowIds)
        /\ ToSet(changes) = {id0} \cup ToSet(changes')
        /\ changes' = Tail(changes)
    <2>1. changes # << >> /\ changes' = Tail(changes)
      BY DEF Announce, AnnounceFails, Calm
    <2> QED
      BY <2>1, HeadAndTail, FeedFields DEF FeedIInv
  <1> HIDE DEF id0
  <1>2. /\ log \in Seq(Entries) /\ pos \in 0..Len(log) /\ number \in Nat /\ Len(log) \in Nat
        /\ faults \in Nat /\ lost \subseteq RowIds
    BY FeedFields, ShovelFields DEF FeedIInv
  <1>3. /\ UNCHANGED <<ledger, ldb, shovel, maxKnown, captured, pos, prev, copy, early>>
        /\ number' \in Nat /\ faults' \in Nat
    BY <1>2 DEF Announce, AnnounceFails, reflVars, clientVars
  <1>4. /\ log' \in Seq(Entries) /\ pos \in 0..Len(log') /\ lost' \subseteq RowIds
        /\ Unread \cup lost \subseteq Unread' \cup lost'
        /\ id0 \in Unread' \cup lost'
    <2>1. CASE Announce
      <3> DEFINE e == [row |-> id0, number |-> number + 1]
      <3>1. log' = Append(log, e) /\ lost' = lost
        BY <2>1 DEF Announce, clientVars, id0
      <3>2. e \in Entries /\ e.row = id0
        BY <1>1, <1>2 DEF Entries
      <3> HIDE DEF e
      <3>3. /\ log' \in Seq(Entries) /\ Len(log') = Len(log) + 1 /\ log'[Len(log) + 1] = e
            /\ \A i \in 1..Len(log) : log'[i] = log[i]
        BY <1>2, <3>1, <3>2
      <3>4. /\ \A i \in pos + 1..Len(log) : i \in pos + 1..Len(log') /\ log'[i] = log[i]
            /\ Len(log) + 1 \in pos + 1..Len(log') /\ pos \in 0..Len(log')
        BY <1>2, <3>3
      <3>5. Unread \subseteq Unread' /\ id0 \in Unread'
        BY <1>3, <3>2, <3>3, <3>4 DEF Unread
      <3> QED
        BY <1>2, <3>1, <3>3, <3>4, <3>5
    <2>2. CASE AnnounceFails
      <3>1. log' = log /\ lost' = lost \cup {id0}
        BY <2>2 DEF AnnounceFails, id0
      <3>2. Unread' = Unread
        BY <1>3, <3>1 DEF Unread
      <3> QED
        BY <1>1, <1>2, <3>1, <3>2
    <2> QED
      BY <2>1, <2>2
  <1>5. CopiesCovered'
    <2>1. ASSUME NEW id \in RowIds, copy[id] # NoCopy, copy[id] # RowOf(shovel.work.db, id)
          PROVE  id \in ToSet(changes') \cup Unread' \cup early \cup lost'
      BY <1>1, <1>4, <2>1 DEF FeedIInv, CopiesCovered, Differs
    <2>2. ASSUME NEW id \in RowIds, shovel.open = TRUE, copy[id] # NoCopy,
                 copy[id] # RowOf(ldb.db, id)
          PROVE  id \in Unread' \cup early \cup lost'
      BY <1>4, <2>2 DEF FeedIInv, CopiesCovered, Differs
    <2> QED
      BY <1>3, <2>1, <2>2 DEF CopiesCovered, Differs
  <1>6. FeedTypeOK'
    BY <1>1, <1>3, <1>4 DEF FeedIInv, FeedTypeOK, ReflTypeOK
  <1> QED
    BY <1>3, <1>5, <1>6 DEF FeedIInv, LedgerOK, WorkIsLdb

\* The process dies: rows under announcement are lost only if committed.
LEMMA KeptCrash ==
    ASSUME FeedIInv, Crash
    PROVE  FeedIInv'
  <1>1. /\ ReflTypeOK' /\ ledger' = ledger /\ ldb' = ldb
        /\ shovel'.open = FALSE /\ shovel'.work = ldb
    BY ShovelDown, FeedFields DEF FeedIInv, Crash
  <1>2. /\ captured' = << >> /\ changes' = << >> /\ number' = 0
        /\ UNCHANGED <<log, pos, prev, copy, early>>
        /\ lost' = lost \cup (IF shovel.open = TRUE THEN {} ELSE ToSet(changes))
    BY FeedFields, ShovelFields DEF Crash, FeedIInv
  <1>3. shovel.open \in BOOLEAN /\ ToSet(changes) \subseteq RowIds /\ lost \subseteq RowIds
    <2>1. changes \in Seq(RowIds)
      BY FeedFields DEF FeedIInv
    <2>2. ToSet(changes) \subseteq RowIds
      BY <2>1 DEF ToSet
    <2> QED
      BY <2>2, FeedFields, ShovelFields DEF FeedIInv
  <1>4. CopiesCovered'
    <2>1. ASSUME NEW id \in RowIds, copy[id] # NoCopy, copy[id] # RowOf(ldb.db, id)
          PROVE  id \in Unread \cup early \cup lost'
      <3>1. CASE shovel.open = TRUE
        BY <1>2, <2>1, <3>1 DEF FeedIInv, CopiesCovered, Differs
      <3>2. CASE shovel.open = FALSE
        <4>1. Differs(id, shovel.work.db)
          BY <2>1, <3>2 DEF FeedIInv, WorkIsLdb, Differs
        <4>2. lost' = lost \cup ToSet(changes)
          BY <1>2, <3>2
        <4> QED
          BY <4>1, <4>2 DEF FeedIInv, CopiesCovered
      <3> QED
        BY <1>3, <3>1, <3>2
    <2>2. Unread' = Unread
      BY <1>2 DEF Unread
    <2> QED
      BY <1>1, <1>2, <2>1, <2>2 DEF CopiesCovered, Differs
  <1>5. FeedTypeOK'
    <2>1. captured' \in Seq(RowIds) /\ changes' \in Seq(RowIds) /\ number' \in Nat
      BY <1>2
    <2>2. lost' \subseteq RowIds
      BY <1>2, <1>3
    <2> QED
      BY <1>1, <1>2, <2>1, <2>2 DEF FeedIInv, FeedTypeOK
  <1> QED
    BY <1>1, <1>4, <1>5 DEF FeedIInv, LedgerOK, WorkIsLdb

\* A copy is taken: it is what is committed, and early if LedgerTx sees more.
LEMMA KeptFill ==
    ASSUME FeedIInv, NEW id0 \in RowIds, Fill(id0)
    PROVE  FeedIInv'
  <1> DEFINE v == RowOf(ldb.db, id0)
  <1>1. /\ copy' = [copy EXCEPT ![id0] = v] /\ lost' = lost \ {id0}
        /\ early' = IF RowOf(shovel.work.db, id0) # v THEN early \cup {id0} ELSE early \ {id0}
        /\ UNCHANGED <<ledger, reflVars, feedVars, pos, prev>>
    BY DEF Fill
  <1>2. v \in Vals \cup {NoRow}
    <2>1. ldb.db.rows \in [Tables -> [Keys -> Vals \cup {NoRow}]]
      BY FeedFields, ShovelFields DEF FeedIInv, Databases
    <2> QED
      BY <2>1 DEF RowOf, RowIds
  <1> HIDE DEF v
  <1>3. /\ copy \in [RowIds -> Vals \cup {NoRow, NoCopy}]
        /\ early \subseteq RowIds /\ lost \subseteq RowIds
    BY FeedFields DEF FeedIInv
  <1>4. /\ copy' \in [RowIds -> Vals \cup {NoRow, NoCopy}] /\ copy'[id0] = v
        /\ early' \subseteq RowIds /\ lost' \subseteq RowIds
        /\ \A id \in RowIds : id # id0 => copy'[id] = copy[id]
        /\ \A id \in RowIds : id # id0 => (id \in early' <=> id \in early)
        /\ \A id \in RowIds : id # id0 => (id \in lost' <=> id \in lost)
    BY <1>1, <1>2, <1>3
  <1>5. Unread' = Unread /\ UNCHANGED <<ldb, shovel, changes, log>>
    BY <1>1 DEF Unread, reflVars, feedVars
  <1>6. CopiesCovered'
    <2> SUFFICES ASSUME NEW id \in RowIds
                 PROVE  /\ copy'[id] # NoCopy /\ copy'[id] # RowOf(shovel.work.db, id)
                              => id \in ToSet(changes) \cup Unread \cup early' \cup lost'
                        /\ shovel.open = TRUE /\ copy'[id] # NoCopy /\ copy'[id] # RowOf(ldb.db, id)
                              => id \in Unread \cup early' \cup lost'
      BY <1>5 DEF CopiesCovered, Differs
    <2>1. CASE id = id0
      BY <1>1, <1>4, <2>1 DEF v
    <2>2. CASE id # id0
      BY <1>4, <2>2 DEF FeedIInv, CopiesCovered, Differs
    <2> QED
      BY <2>1, <2>2
  <1>7. FeedTypeOK'
    BY <1>1, <1>4 DEF FeedIInv, FeedTypeOK, ReflTypeOK, reflVars, feedVars
  <1> QED
    BY <1>1, <1>6, <1>7 DEF FeedIInv, LedgerOK, WorkIsLdb, reflVars

\* The client reads an entry: it drops the copy the entry is about.
LEMMA KeptNext ==
    ASSUME FeedIInv, IteratorNext
    PROVE  FeedIInv'
  <1> DEFINE e == log[pos + 1]
             drop == IF prev # 0 /\ e.number # prev + 1 THEN RowIds ELSE {e.row}
  <1>1. /\ pos < Len(log) /\ pos' = pos + 1 /\ prev' = e.number
        /\ copy' = [id \in RowIds |-> IF id \in drop THEN NoCopy ELSE copy[id]]
        /\ early' = early \ drop /\ lost' = lost \ drop
        /\ UNCHANGED <<ledger, reflVars, feedVars>>
    BY DEF IteratorNext
  <1>2. /\ log \in Seq(Entries) /\ pos \in 0..Len(log) /\ Len(log) \in Nat
        /\ copy \in [RowIds -> Vals \cup {NoRow, NoCopy}]
        /\ early \subseteq RowIds /\ lost \subseteq RowIds
    BY FeedFields DEF FeedIInv
  <1>3. pos + 1 \in 1..Len(log) /\ pos' \in 0..Len(log)
    BY <1>1, <1>2
  <1>4. e \in Entries
    BY <1>2, <1>3
  <1>5. e.row \in RowIds /\ e.number \in Nat /\ e.row \in drop
    BY <1>4 DEF Entries
  <1> HIDE DEF drop
  <1>6. \A id : id \in Unread /\ id \notin drop => id \in Unread'
    <2> SUFFICES ASSUME NEW id, id \in Unread, id \notin drop PROVE id \in Unread'
      OBVIOUS
    <2>1. PICK i \in pos + 1..Len(log) : id = log[i].row
      BY DEF Unread
    <2>2. i # pos + 1
      BY <1>5, <2>1
    <2>3. i \in pos' + 1..Len(log)
      BY <1>1, <1>2, <2>1, <2>2
    <2>4. log' = log
      BY <1>1 DEF feedVars
    <2> QED
      BY <2>1, <2>3, <2>4 DEF Unread
  <1> HIDE DEF e
  <1>7. /\ copy' \in [RowIds -> Vals \cup {NoRow, NoCopy}]
        /\ \A id \in RowIds : copy'[id] # NoCopy => copy'[id] = copy[id] /\ id \notin drop
        /\ early' \subseteq RowIds /\ lost' \subseteq RowIds
    BY <1>1, <1>2
  <1>8. CopiesCovered'
    <2>1. UNCHANGED <<ldb, shovel, changes>>
      BY <1>1 DEF reflVars, feedVars
    <2> SUFFICES ASSUME NEW id \in RowIds, copy'[id] # NoCopy
                 PROVE  /\ copy'[id] # RowOf(shovel.work.db, id)
                              => id \in ToSet(changes) \cup Unread' \cup early' \cup lost'
                        /\ shovel.open = TRUE /\ copy'[id] # RowOf(ldb.db, id)
                              => id \in Unread' \cup early' \cup lost'
      BY <2>1 DEF CopiesCovered, Differs
    <2>2. copy'[id] = copy[id] /\ id \notin drop
      BY <1>7
    <2>3. id \in Unread \cup early \cup lost => id \in Unread' \cup early' \cup lost'
      BY <1>1, <1>6, <2>2
    <2> QED
      BY <2>2, <2>3 DEF FeedIInv, CopiesCovered, Differs
  <1>9. FeedTypeOK'
    BY <1>1, <1>3, <1>5, <1>7 DEF FeedIInv, FeedTypeOK, ReflTypeOK, reflVars, feedVars
  <1> QED
    BY <1>1, <1>8, <1>9 DEF FeedIInv, LedgerOK, WorkIsLdb, reflVars

-----------------------------------------------------------------------------
(* All together *)

LEMMA FeedInit == Init => FeedIInv
  <1> SUFFICES ASSUME Init PROVE FeedIInv
    OBVIOUS
  <1>1. ledger = {} /\ {} \in FiniteRows
    BY FS_EmptySet DEF Init, FiniteRows
  <1>2. LedgerOK
    BY <1>1 DEF LedgerOK, DistinctSeqs
  <1>3. MaxSeq \in Nat
    BY <1>2, MaxSeqIs DEF LedgerOK
  <1>4. FALSE \in BOOLEAN /\ 0 \in Nat /\ << >> \in Seq(Rows)
    OBVIOUS
  <1>5. EmptyLDB \in LDBs
    BY <1>4, EmptyDatabaseType DEF EmptyLDB, LDBs
  <1>6. ReflTypeOK /\ shovel.open = FALSE /\ shovel.work = ldb
    <2>1. shovel \in Shovels /\ shovel.open = FALSE /\ shovel.work = ldb
      BY <1>4, <1>5 DEF Init, ReflInit, Shovels
    <2> QED
      BY <1>3, <1>4, <1>5, <2>1 DEF Init, ReflInit, ReflTypeOK
  <1>7. FeedTypeOK
    <2>1. << >> \in Seq(RowIds) /\ << >> \in Seq(Entries) /\ 0 \in 0..Len(<< >>)
      OBVIOUS
    <2>2. copy \in [RowIds -> Vals \cup {NoRow, NoCopy}]
      BY DEF Init
    <2>3. early \subseteq RowIds /\ lost \subseteq RowIds
      BY DEF Init
    <2> QED
      BY <1>4, <1>6, <2>1, <2>2, <2>3 DEF Init, FeedTypeOK
  <1>8. CopiesCovered
    BY DEF Init, CopiesCovered, Differs
  <1> QED
    BY <1>2, <1>6, <1>7, <1>8 DEF FeedIInv, WorkIsLdb

LEMMA FeedStep ==
    ASSUME FeedIInv, [Next]_vars
    PROVE  FeedIInv'
  <1>0. LedgerOK /\ ReflTypeOK /\ captured \in Seq(RowIds) /\ number \in Nat
    BY FeedFields DEF FeedIInv
  <1>1. ASSUME NEW body \in Bodies(Replay(ledger)), NEW gap \in 0..MaxGap, LedgerGrows(body, gap)
        PROVE  FeedIInv'
    <2>1. Replay(ledger) \in Databases
      BY <1>0, ReplayType DEF LedgerOK
    <2>2. body \in Seq(Statements)
      BY <1>1, <2>1, BodyStatements
    <2>3. gap \in Nat
      OBVIOUS
    <2>4. LedgerOK'
      BY <1>0, <1>1, <2>2, <2>3, LedgerKept
    <2>5. UNCHANGED <<reflVars, feedVars, clientVars>>
      BY <1>1 DEF LedgerGrows
    <2>6. ReflTypeOK' /\ UNCHANGED <<ldb, shovel>>
      BY <1>0, <2>5 DEF ReflTypeOK, reflVars
    <2> QED
      BY <2>4, <2>5, <2>6, KeptRead
  <1>2. CASE Apply
    BY <1>2, KeptApply
  <1>3. CASE Restart
    <2>1. Calm /\ ShovelStart /\ number' = 0 /\ UNCHANGED <<captured, changes, log, clientVars>>
      BY <1>3 DEF Restart
    <2> QED
      BY <1>0, <2>1, KeptDown
  <1>4. CASE Calm /\ SourceQuery /\ UNCHANGED <<feedVars, clientVars>>
    <2>1. LedgerOK'
      BY <1>0, <1>4, QueryStep DEF LedgerOK
    <2> QED
      BY <1>0, <1>4, <2>1, QueryStep, KeptRead
  <1>5. CASE Calm /\ (ShovelAbort \/ ShovelFail) /\ UNCHANGED <<feedVars, clientVars>>
    <2>1. captured' \in Seq(RowIds) /\ number' \in Nat /\ UNCHANGED <<changes, log, clientVars>>
      BY <1>0, <1>5 DEF feedVars
    <2> QED
      BY <1>5, <2>1, KeptDown
  <1>6. CASE ApplyFails
    <2> DEFINE r == Head(shovel.buffer)
               c == Captured(shovel.work.db, r.st)
    <2>1. /\ Calm /\ ShovelFail /\ shovel.buffer # << >> /\ captured' = captured \o c
          /\ UNCHANGED <<changes, number, log, clientVars>>
      BY <1>6 DEF ApplyFails, HasStatement
    <2>2. r \in Rows
      BY <1>0, <2>1, ShovelFields
    <2>3. c \in Seq(RowIds)
      BY <1>0, <2>2, SeqType, ShovelFields, CapturedCovers
    <2> HIDE DEF c
    <2>4. captured' \in Seq(RowIds)
      BY <1>0, <2>1, <2>3
    <2> QED
      BY <1>0, <2>1, <2>4, KeptDown
  <1>7. CASE Announce \/ AnnounceFails
    BY <1>7, KeptAnnounce
  <1>8. CASE Crash
    BY <1>8, KeptCrash
  <1>9. CASE \E id \in RowIds : Fill(id)
    BY <1>9, KeptFill
  <1>10. CASE IteratorNext
    BY <1>10, KeptNext
  <1>11. CASE UNCHANGED vars
    <2>1. UNCHANGED <<ledger, reflVars, feedVars, clientVars>>
      BY <1>11 DEF vars
    <2>2. ReflTypeOK' /\ UNCHANGED <<ldb, shovel>> /\ LedgerOK'
      BY <1>0, <2>1 DEF ReflTypeOK, reflVars, LedgerOK
    <2> QED
      BY <2>1, <2>2, KeptRead
  <1> QED
    BY <1>1, <1>2, <1>3, <1>4, <1>5, <1>6, <1>7, <1>8, <1>9, <1>10, <1>11
       DEF Next, ShovelOn

LEMMA FeedInvariant == Spec => []FeedIInv
  BY FeedInit, FeedStep, PTL DEF Spec

\* The variables of reflector, hook, callback, changelog and client keep their
\* types: in particular an Iterator is never past the end of the log.
THEOREM FeedTypeCorrect == Spec => []FeedTypeOK
  <1>1. FeedIInv => FeedTypeOK
    BY DEF FeedIInv
  <1> QED
    BY <1>1, FeedInvariant, PTL

\* A copy that differs from the committed row is about to be dropped, except
\* for the two kinds of copies that CallbackWriter and ChangelogCallback cannot
\* keep honest, whatever fails, dies or is applied again, and however the
\* client's reads of the LDB fall between the steps of the callback.
THEOREM CopiesAreHonest == Spec => []CacheHonest
  <1>1. FeedIInv => CacheHonest
    <2> SUFFICES ASSUME FeedIInv, NEW id \in RowIds, Stale(id)
                 PROVE  id \in ToCome \cup early \cup lost
      BY DEF CacheHonest
    <2>1. Differs(id, ldb.db)
      BY DEF Stale, Differs
    <2>2. shovel.open \in BOOLEAN
      BY FeedFields, ShovelFields DEF FeedIInv
    <2>3. ToCome = ToSet(changes) \cup Unread
      BY DEF ToCome, Unread
    <2>4. CASE shovel.open = TRUE
      BY <2>1, <2>3, <2>4 DEF FeedIInv, CopiesCovered
    <2>5. CASE shovel.open = FALSE
      <3>1. Differs(id, shovel.work.db)
        BY <2>1, <2>5 DEF FeedIInv, WorkIsLdb
      <3> QED
        BY <2>3, <3>1 DEF FeedIInv, CopiesCovered
    <2> QED
      BY <2>2, <2>4, <2>5
  <1> QED
    BY <1>1, FeedInvariant, PTL
=============================================================================
