---------------------------- MODULE LedgerProofs ----------------------------
(***************************************************************************)
(* Facts about finite sets of ledger rows: they have a last row, ORDER BY  *)
(* seq lists them, and replaying them executes the last one last.          *)
(*                                                                         *)
(* OrderBySeq and Replay are folds: each is the value at S of a function   *)
(* on the subsets of S that is defined by recursion.  Such a function      *)
(* exists only because S is finite, and everything known of it comes by    *)
(* induction on the number of rows.  The induction is carried out on an    *)
(* explicit set of natural numbers, with WFMin.                            *)
(***************************************************************************)
EXTENDS Ledger, FiniteSetTheorems, WellFoundedInduction, TLAPS

-----------------------------------------------------------------------------
(* Statements and databases *)

LEMMA EmptyDatabaseType == EmptyDatabase \in Databases
  BY DEF EmptyDatabase, Databases

\* A statement writes values and NoRow only.
LEMMA OverwriteType ==
    ASSUME NEW V, Vals \subseteq V, NoRow \in V,
           NEW rows \in [Tables -> [Keys -> V]], NEW st \in Statements
    PROVE  Overwrite(rows, st) \in [Tables -> [Keys -> V]]
  <1>1. CASE st \in UpsertDML
    BY <1>1 DEF Overwrite, UpsertDML
  <1>2. CASE st \in DeleteDML
    BY <1>2 DEF Overwrite, DeleteDML
  <1>3. CASE st \in ClearTableDDL
    BY <1>3 DEF Overwrite, ClearTableDDL
  <1>4. CASE st \in Markers \cup CreateTableDDL \cup AddColumnDDL
    BY <1>4 DEF Overwrite, Markers, BeginKey, EndKey, CreateTableDDL, AddColumnDDL
  <1> QED
    BY <1>1, <1>2, <1>3, <1>4 DEF Statements, DMLs, Controls

\* Executing a statement on a database gives a database.
LEMMA ExecType ==
    ASSUME NEW d \in Databases, NEW st \in Statements
    PROVE  Exec(d, st) \in Databases
  <1>1. Overwrite(d.rows, st) \in [Tables -> [Keys -> Vals \cup {NoRow}]]
    BY OverwriteType DEF Databases
  <1>2. CASE st \in CreateTableDDL \cup AddColumnDDL
    BY <1>1, <1>2 DEF Exec, Databases, CreateTableDDL, AddColumnDDL
  <1>3. CASE st \in Markers \cup DMLs \cup ClearTableDDL
    <2>1. st.op \notin {"create", "add"}
      BY <1>3 DEF Markers, BeginKey, EndKey, DMLs, UpsertDML, DeleteDML, ClearTableDDL
    <2> QED
      BY <1>1, <2>1 DEF Exec, Databases
  <1> QED
    BY <1>2, <1>3 DEF Statements, Controls

LEMMA KindsOfStatements ==
    /\ \A st \in Markers \cup DMLs : st \in Statements
                                  /\ st.op \in {"begin", "commit", "upsert", "delete"}
    /\ \A st \in Controls : st \in Statements
                         /\ st.op \notin {"begin", "commit", "upsert", "delete"}
  BY DEF Statements, Markers, BeginKey, EndKey, DMLs, UpsertDML, DeleteDML,
         Controls, CreateTableDDL, AddColumnDDL, ClearTableDDL

-----------------------------------------------------------------------------
(* Finite sets of rows *)

FiniteRows == {S \in SUBSET Rows : IsFiniteSet(S)}

\* A nonempty set of natural numbers has a least element.
LEMMA LeastNumber ==
    ASSUME NEW T, T \subseteq Nat, T # {}
    PROVE  \E n \in T : \A m \in Nat : m < n => m \notin T
  <1>1. IsWellFoundedOn(OpToRel(<, Nat), Nat)
    BY NatLessThanWellFounded
  <1>2. PICK n \in T : \A m \in T : ~ (<<m, n>> \in OpToRel(<, Nat))
    BY <1>1, WFMin
  <1>3. \A m \in T : ~(m < n)
    BY <1>2 DEF OpToRel
  <1> QED
    BY <1>3

LEMMA SeqType == \A r \in Rows : r.seq \in Nat \ {0} /\ r.txn \in Nat /\ r.st \in Statements
  BY DEF Rows

\* Induction on the number of elements: a family of finite sets that is not
\* empty has a member none of whose proper subsets is in the family.
LEMMA SmallestSet ==
    ASSUME NEW Bad, \A S \in Bad : IsFiniteSet(S), Bad # {}
    PROVE  \E S \in Bad : \A T \in SUBSET S : T # S => T \notin Bad
  <1> DEFINE sizes == {n \in Nat : \E S \in Bad : Cardinality(S) = n}
  <1>1. \A S \in Bad : IsFiniteSet(S) /\ Cardinality(S) \in Nat
    BY FS_CardinalityType
  <1>2. sizes # {}
    BY <1>1
  <1>3. PICK n \in sizes : \A m \in Nat : m < n => m \notin sizes
    BY <1>2, LeastNumber
  <1>4. PICK S \in Bad : Cardinality(S) = n
    BY <1>3
  <1>5. ASSUME NEW T \in SUBSET S, T # S, T \in Bad
        PROVE  FALSE
    <2>1. Cardinality(T) < Cardinality(S)
      BY <1>1, <1>5, FS_Subset, FS_CardinalityType
    <2>2. Cardinality(T) \in sizes
      BY <1>1, <1>5
    <2> QED
      BY <1>1, <1>3, <1>4, <1>5, <2>1, <2>2
  <1> QED
    BY <1>5

LEMMA SmallestRows ==
    ASSUME NEW Bad, Bad \subseteq FiniteRows, Bad # {}
    PROVE  \E S \in Bad : \A T \in SUBSET S : T # S => T \notin Bad
  BY SmallestSet DEF FiniteRows

LEMMA SubsetsFinite ==
    ASSUME NEW S \in FiniteRows, NEW T \in SUBSET S
    PROVE  T \in FiniteRows
  BY FS_Subset DEF FiniteRows

\* LastRow is well defined.
LEMMA LastRowExists ==
    ASSUME NEW S \in FiniteRows, S # {}
    PROVE  LastRow(S) \in S /\ \A q \in S : q.seq <= LastRow(S).seq
  <1> DEFINE HasLast(T) == \E r \in T : \A q \in T : q.seq <= r.seq
             bad == {T \in FiniteRows : T # {} /\ ~HasLast(T)}
  <1>1. SUFFICES bad = {}
    BY <1>1 DEF LastRow
  <1>2. SUFFICES ASSUME bad # {} PROVE FALSE
    OBVIOUS
  <1>3. PICK T \in bad : \A U \in SUBSET T : U # T => U \notin bad
    <2>1. bad \subseteq FiniteRows
      OBVIOUS
    <2> HIDE DEF bad
    <2> QED
      BY <1>2, <2>1, SmallestRows
  <1>4. PICK x \in T : TRUE
    OBVIOUS
  <1>5. T \ {x} \in FiniteRows /\ T \ {x} # T
    BY SubsetsFinite
  <1>6. T \ {x} = {} \/ HasLast(T \ {x})
    BY <1>3, <1>5
  <1>7. \A r \in T : r.seq \in Nat
    BY SeqType DEF FiniteRows
  <1>8. T \ {x} # {}
    <2>1. T \ {x} = {} => T = {x}
      OBVIOUS
    <2> QED
      BY <1>3, <1>7, <2>1
  <1>9. PICK r \in T \ {x} : \A q \in T \ {x} : q.seq <= r.seq
    BY <1>6, <1>8
  <1>10. CASE x.seq <= r.seq
    <2>1. \A q \in T : q.seq <= r.seq
      BY <1>9, <1>10
    <2> QED
      BY <1>3, <2>1
  <1>11. CASE ~(x.seq <= r.seq)
    <2>1. \A q \in T : q.seq <= x.seq
      BY <1>7, <1>9, <1>11
    <2> QED
      BY <1>3, <2>1
  <1> QED
    BY <1>10, <1>11

\* A row above all others is the last row.
LEMMA LastRowIs ==
    ASSUME NEW S \in SUBSET Rows, NEW r \in Rows, \A q \in S : q.seq < r.seq
    PROVE  LastRow(S \cup {r}) = r /\ (S \cup {r}) \ {r} = S
  <1>1. \A q \in S \cup {r} : q.seq <= r.seq
    BY SeqType
  <1>2. \A x \in S \cup {r} : (\A q \in S \cup {r} : q.seq <= x.seq) => x = r
    BY SeqType
  <1> QED
    BY <1>1, <1>2, SeqType DEF LastRow

\* max(seq) of a finite ledger: no row is above it, and it is the sequence of
\* a row unless there is none.
LEMMA MaxSeqIs ==
    ASSUME ledger \in FiniteRows
    PROVE  /\ MaxSeq \in Nat
           /\ \A r \in ledger : r.seq <= MaxSeq
           /\ MaxSeq = 0 \/ \E r \in ledger : r.seq = MaxSeq
  <1> DEFINE T == {r.seq : r \in ledger} \cup {0}
  <1>1. \A r \in ledger : r.seq \in Nat
    BY SeqType DEF FiniteRows
  <1>2. \E m \in T : \A y \in T : m >= y
    <2>1. CASE ledger = {}
      BY <2>1
    <2>2. CASE ledger # {}
      BY <1>1, <2>2, LastRowExists
    <2> QED
      BY <2>1, <2>2
  <1>3. MaxSeq \in T /\ \A y \in T : MaxSeq >= y
    BY <1>2 DEF MaxSeq, Max
  <1> QED
    BY <1>1, <1>3

-----------------------------------------------------------------------------
(* Folds.  A fold lists rows, replays rows, or executes the statements of  *)
(* a sequence p[2] from p[1] on; the kinds differ in what they start from, *)
(* which element comes last, and what they do with it.                     *)

FiniteNumbers == {S \in SUBSET Nat : IsFiniteSet(S)}

Foldable(k) == IF k = "run" THEN FiniteNumbers ELSE FiniteRows

LastOf(k, S) == IF k = "run" THEN Max(S) ELSE LastRow(S)

FoldBase(k, p) == IF k = "run" THEN p[1] ELSE IF k = "list" THEN << >> ELSE EmptyDatabase

FoldStep(k, p, done, x) ==
    IF k = "run" THEN Exec(done, p[2][x])
    ELSE IF k = "list" THEN Append(done, x) ELSE Exec(done, x.st)

\* f computes the fold of kind k on the subsets of S.
FoldFn(k, p, S, f) ==
    f = [s \in SUBSET S |-> IF s = {} THEN FoldBase(k, p)
                            ELSE FoldStep(k, p, f[s \ {LastOf(k, s)}], LastOf(k, s))]

Fold(k, p, S) == (CHOOSE f : FoldFn(k, p, S, f))[S]

\* The database after the statements of sequence q: FoldLeft(Exec, d, q).
RunAll(d, q) == Fold("run", <<d, q>>, DOMAIN q)

LEMMA FoldsAre ==
    ASSUME NEW S
    PROVE  OrderBySeq(S) = Fold("list", << >>, S) /\ Replay(S) = Fold("replay", << >>, S)
  <1>1. OrderBySeq(S) = Fold("list", << >>, S)
    BY DEF OrderBySeq, MapThenFoldSet, Fold, FoldFn, FoldBase, FoldStep, LastOf
  <1>2. Replay(S) = Fold("replay", << >>, S)
    BY DEF Replay, MapThenFoldSet, Fold, FoldFn, FoldBase, FoldStep, LastOf
  <1> QED
    BY <1>1, <1>2

\* The greatest of finitely many numbers.
LEMMA MaxIs ==
    ASSUME NEW S \in FiniteNumbers, S # {}
    PROVE  Max(S) \in S /\ \A y \in S : y <= Max(S)
  <1> DEFINE HasMax(T) == \E x \in T : \A y \in T : x >= y
             bad == {T \in FiniteNumbers : T # {} /\ ~HasMax(T)}
  <1>1. SUFFICES bad = {}
    <2>1. PICK x \in S : \A y \in S : x >= y
      BY <1>1
    <2>2. Max(S) \in S /\ \A y \in S : Max(S) >= y
      BY <2>1 DEF Max
    <2> QED
      BY <2>2 DEF FiniteNumbers
  <1>2. SUFFICES ASSUME bad # {} PROVE FALSE
    OBVIOUS
  <1>3. PICK T \in bad : \A U \in SUBSET T : U # T => U \notin bad
    <2>1. \A T \in bad : IsFiniteSet(T)
      BY DEF FiniteNumbers
    <2> HIDE DEF bad
    <2> QED
      BY <1>2, <2>1, SmallestSet
  <1>4. PICK x \in T : TRUE
    OBVIOUS
  <1>5. T \ {x} \in FiniteNumbers /\ T \ {x} # T /\ T \subseteq Nat
    BY <1>3, <1>4, FS_Subset DEF FiniteNumbers
  <1>6. T \ {x} = {} \/ HasMax(T \ {x})
    BY <1>3, <1>5
  <1>7. CASE T \ {x} = {}
    <2>1. T = {x} /\ x >= x
      BY <1>4, <1>5, <1>7
    <2> QED
      BY <1>3, <2>1
  <1>8. CASE HasMax(T \ {x})
    <2>1. PICK m \in T \ {x} : \A y \in T \ {x} : m >= y
      BY <1>8
    <2>2. CASE x <= m
      <3>1. \A y \in T : m >= y
        BY <1>5, <2>1, <2>2
      <3> QED
        BY <1>3, <2>1, <3>1
    <2>3. CASE ~(x <= m)
      <3>1. \A y \in T : x >= y
        BY <1>4, <1>5, <2>1, <2>3
      <3> QED
        BY <1>3, <1>4, <3>1
    <2> QED
      BY <2>2, <2>3
  <1> QED
    BY <1>6, <1>7, <1>8

\* A fold goes from a set it can handle to smaller ones.
LEMMA LastOfExists ==
    ASSUME NEW k, NEW S \in Foldable(k)
    PROVE  /\ S # {} => LastOf(k, S) \in S
           /\ IsFiniteSet(S)
           /\ \A T \in SUBSET S : T \in Foldable(k)
  <1>1. CASE k = "run"
    <2>1. S \in FiniteNumbers /\ Foldable(k) = FiniteNumbers
      BY <1>1 DEF Foldable
    <2>2. \A T \in SUBSET S : T \in FiniteNumbers
      BY <2>1, FS_Subset DEF FiniteNumbers
    <2>3. IsFiniteSet(S)
      BY <2>1 DEF FiniteNumbers
    <2> QED
      BY <1>1, <2>1, <2>2, <2>3, MaxIs DEF LastOf
  <1>2. CASE k # "run"
    <2>1. S \in FiniteRows /\ Foldable(k) = FiniteRows
      BY <1>2 DEF Foldable
    <2>2. \A T \in SUBSET S : T \in FiniteRows
      BY <2>1, SubsetsFinite
    <2>3. IsFiniteSet(S)
      BY <2>1 DEF FiniteRows
    <2> QED
      BY <1>2, <2>1, <2>2, <2>3, LastRowExists DEF LastOf
  <1> QED
    BY <1>1, <1>2

\* Two such functions agree where both are defined.
LEMMA FoldFnUnique ==
    ASSUME NEW k, NEW p, NEW S, NEW T, NEW f, NEW g, FoldFn(k, p, S, f), FoldFn(k, p, T, g),
           NEW s \in Foldable(k), s \subseteq S, s \subseteq T
    PROVE  f[s] = g[s]
  <1> DEFINE bad == {u \in Foldable(k) : u \subseteq S /\ u \subseteq T /\ f[u] # g[u]}
  <1>1. SUFFICES bad = {}
    BY <1>1
  <1>2. SUFFICES ASSUME bad # {} PROVE FALSE
    OBVIOUS
  <1>3. PICK u \in bad : \A v \in SUBSET u : v # u => v \notin bad
    <2>1. \A t \in bad : IsFiniteSet(t)
      BY LastOfExists
    <2> HIDE DEF bad
    <2> QED
      BY <1>2, <2>1, SmallestSet
  <1>4. u \in SUBSET S /\ u \in SUBSET T /\ u \in Foldable(k) /\ f[u] # g[u]
    BY <1>3
  <1>5. u # {}
    BY <1>4 DEF FoldFn
  <1> DEFINE x == LastOf(k, u)
             v == u \ {x}
  <1>6. x \in u /\ v # u
    BY <1>4, <1>5, LastOfExists
  <1>7. v \in Foldable(k)
    BY <1>4, LastOfExists
  <1>8. f[v] = g[v]
    BY <1>3, <1>4, <1>6, <1>7
  <1>9. f[u] = FoldStep(k, p, f[v], x) /\ g[u] = FoldStep(k, p, g[v], x)
    BY <1>4, <1>5 DEF FoldFn
  <1> QED
    BY <1>4, <1>8, <1>9

\* Such a function exists.
LEMMA FoldFnExists ==
    ASSUME NEW k, NEW p, NEW S \in Foldable(k)
    PROVE  \E f : FoldFn(k, p, S, f)
  <1> DEFINE bad == {T \in Foldable(k) : ~\E f : FoldFn(k, p, T, f)}
  <1>1. SUFFICES bad = {}
    BY <1>1
  <1>2. SUFFICES ASSUME bad # {} PROVE FALSE
    OBVIOUS
  <1>3. PICK T \in bad : \A U \in SUBSET T : U # T => U \notin bad
    <2>1. \A t \in bad : IsFiniteSet(t)
      BY LastOfExists
    <2> HIDE DEF bad
    <2> QED
      BY <1>2, <2>1, SmallestSet
  <1>4. \A U \in SUBSET T : U # T => FoldFn(k, p, U, CHOOSE f : FoldFn(k, p, U, f))
    BY <1>3, LastOfExists
  <1> DEFINE g == [s \in SUBSET T |-> IF s = {} THEN FoldBase(k, p)
                       ELSE FoldStep(k, p, Fold(k, p, s \ {LastOf(k, s)}), LastOf(k, s))]
  <1>5. ASSUME NEW s \in SUBSET T, s # T
        PROVE  g[s] = Fold(k, p, s)
    <2> DEFINE f == CHOOSE w : FoldFn(k, p, s, w)
    <2>1. FoldFn(k, p, s, f) /\ Fold(k, p, s) = f[s]
      BY <1>4, <1>5 DEF Fold
    <2>2. CASE s = {}
      BY <2>1, <2>2 DEF FoldFn
    <2>3. CASE s # {}
      <3> DEFINE v == s \ {LastOf(k, s)}
                 fv == CHOOSE h : FoldFn(k, p, v, h)
      <3>1. v \in SUBSET T /\ v # T /\ v \in Foldable(k) /\ v \in SUBSET s
        <4>1. T \in Foldable(k) /\ v \in SUBSET T /\ v \in SUBSET s
          BY <1>3
        <4>2. v # T
          BY <1>5
        <4> QED
          BY <4>1, <4>2, LastOfExists
      <3>2. FoldFn(k, p, v, fv) /\ Fold(k, p, v) = fv[v]
        BY <1>4, <3>1 DEF Fold
      <3>3. f[v] = fv[v]
        <4> HIDE DEF f, fv, v
        <4> QED
          BY <2>1, <3>1, <3>2, FoldFnUnique
      <3>4. f[s] = FoldStep(k, p, f[v], LastOf(k, s))
        BY <2>1, <2>3 DEF FoldFn
      <3> QED
        BY <2>1, <2>3, <3>2, <3>3, <3>4
    <2> QED
      BY <2>2, <2>3
  <1>6. FoldFn(k, p, T, g)
    <2>1. ASSUME NEW s \in SUBSET T, s # {}
          PROVE  s \ {LastOf(k, s)} # T /\ s \ {LastOf(k, s)} \in SUBSET T
      BY <1>3, <2>1, LastOfExists
    <2>2. \A s \in SUBSET T : s # {} =>
              g[s \ {LastOf(k, s)}] = Fold(k, p, s \ {LastOf(k, s)})
      BY <1>5, <2>1
    <2> QED
      BY <2>2 DEF FoldFn
  <1> QED
    BY <1>3, <1>6

\* The fold of a nonempty set of rows handles its last row last.
LEMMA FoldUnfold ==
    ASSUME NEW k, NEW p
    PROVE  /\ Fold(k, p, {}) = FoldBase(k, p)
           /\ \A S \in Foldable(k) : S # {} =>
                 Fold(k, p, S) = FoldStep(k, p, Fold(k, p, S \ {LastOf(k, S)}), LastOf(k, S))
  <1>1. ASSUME NEW S \in Foldable(k)
        PROVE  FoldFn(k, p, S, CHOOSE f : FoldFn(k, p, S, f))
    BY FoldFnExists
  <1>2. Fold(k, p, {}) = FoldBase(k, p)
    <2>1. {} \in Foldable(k)
      BY FS_EmptySet DEF Foldable, FiniteRows, FiniteNumbers
    <2> QED
      BY <1>1, <2>1 DEF Fold, FoldFn
  <1>3. ASSUME NEW S \in Foldable(k), S # {}
        PROVE  Fold(k, p, S) = FoldStep(k, p, Fold(k, p, S \ {LastOf(k, S)}), LastOf(k, S))
    <2> DEFINE v == S \ {LastOf(k, S)}
               f == CHOOSE w : FoldFn(k, p, S, w)
               g == CHOOSE w : FoldFn(k, p, v, w)
    <2>1. v \in Foldable(k) /\ v \in SUBSET S
      BY LastOfExists
    <2>2. FoldFn(k, p, S, f) /\ FoldFn(k, p, v, g) /\ Fold(k, p, S) = f[S] /\ Fold(k, p, v) = g[v]
      BY <1>1, <2>1 DEF Fold
    <2>3. f[v] = g[v]
      <3> HIDE DEF f, g, v
      <3> QED
        BY <2>1, <2>2, FoldFnUnique
    <2>4. f[S] = FoldStep(k, p, f[v], LastOf(k, S))
      BY <1>3, <2>2 DEF FoldFn
    <2> QED
      BY <2>2, <2>3, <2>4
  <1> QED
    BY <1>2, <1>3

LEMMA RowFolds ==
    /\ OrderBySeq({}) = << >> /\ Replay({}) = EmptyDatabase
    /\ \A S \in FiniteRows : S # {} =>
          /\ OrderBySeq(S) = Append(OrderBySeq(S \ {LastRow(S)}), LastRow(S))
          /\ Replay(S) = Exec(Replay(S \ {LastRow(S)}), LastRow(S).st)
  <1>1. OrderBySeq({}) = << >> /\ Replay({}) = EmptyDatabase
    BY FoldsAre, FoldUnfold DEF FoldBase
  <1>2. ASSUME NEW S \in FiniteRows, S # {}
        PROVE  /\ OrderBySeq(S) = Append(OrderBySeq(S \ {LastRow(S)}), LastRow(S))
               /\ Replay(S) = Exec(Replay(S \ {LastRow(S)}), LastRow(S).st)
    <2>1. ASSUME NEW k \in {"list", "replay"}
          PROVE  /\ LastOf(k, S) = LastRow(S) /\ S \in Foldable(k)
                 /\ Fold(k, << >>, S) =
                       FoldStep(k, << >>, Fold(k, << >>, S \ {LastRow(S)}), LastRow(S))
      <3>1. LastOf(k, S) = LastRow(S) /\ S \in Foldable(k)
        BY DEF LastOf, Foldable
      <3> QED
        BY <1>2, <3>1, FoldUnfold
    <2> QED
      BY <2>1, FoldsAre DEF FoldStep
  <1> QED
    BY <1>1, <1>2

-----------------------------------------------------------------------------
(* What the folds compute *)

\* Replaying one more row, above all others, executes its statement.
LEMMA ReplayNext ==
    /\ Replay({}) = EmptyDatabase
    /\ \A S \in FiniteRows, r \in Rows :
          (\A q \in S : q.seq < r.seq) => Replay(S \cup {r}) = Exec(Replay(S), r.st)
  <1>1. ASSUME NEW S \in FiniteRows, NEW r \in Rows, \A q \in S : q.seq < r.seq
        PROVE  Replay(S \cup {r}) = Exec(Replay(S), r.st)
    <2>1. S \cup {r} \in FiniteRows /\ S \cup {r} # {}
      BY FS_AddElement DEF FiniteRows
    <2>2. LastRow(S \cup {r}) = r /\ (S \cup {r}) \ {r} = S
      BY <1>1, LastRowIs DEF FiniteRows
    <2> QED
      BY <2>1, <2>2, RowFolds
  <1> QED
    BY <1>1, RowFolds

\* b lists the rows of S in the order of their sequences.
Lists(b, S) ==
    /\ b \in Seq(Rows)
    /\ \A i, j \in 1..Len(b) : i < j => b[i].seq < b[j].seq
    /\ S = {b[i] : i \in 1..Len(b)}

\* No two rows have the same sequence.
DistinctSeqs(S) == \A q, r \in S : q.seq = r.seq => q = r

LEMMA AppendLists ==
    ASSUME NEW S \in SUBSET Rows, NEW b, NEW r \in Rows, Lists(b, S),
           \A q \in S : q.seq < r.seq
    PROVE  Lists(Append(b, r), S \cup {r})
  <1> DEFINE c == Append(b, r)
  <1>1. b \in Seq(Rows) /\ Len(b) \in Nat
    BY DEF Lists
  <1>2. /\ c \in Seq(Rows) /\ Len(c) = Len(b) + 1 /\ c[Len(c)] = r
        /\ \A i \in 1..Len(b) : c[i] = b[i] /\ b[i] \in S
    BY <1>1 DEF Lists
  <1>3. \A i, j \in 1..Len(c) : i < j => c[i].seq < c[j].seq
    <2> SUFFICES ASSUME NEW i \in 1..Len(c), NEW j \in 1..Len(c), i < j
                 PROVE  c[i].seq < c[j].seq
      OBVIOUS
    <2>1. i \in 1..Len(b) /\ (j \in 1..Len(b) \/ j = Len(c))
      BY <1>1, <1>2
    <2> HIDE DEF c
    <2> QED
      BY <1>2, <2>1 DEF Lists
  <1>4. S \cup {r} = {c[i] : i \in 1..Len(c)}
    <2>1. \A i \in 1..Len(c) : i \in 1..Len(b) \/ i = Len(c)
      BY <1>1, <1>2
    <2>2. 1..Len(b) \subseteq 1..Len(c) /\ Len(c) \in 1..Len(c)
      BY <1>1, <1>2
    <2> HIDE DEF c
    <2> QED
      BY <1>2, <2>1, <2>2 DEF Lists
  <1> HIDE DEF c
  <1>5. Lists(c, S \cup {r})
    BY <1>2, <1>3, <1>4 DEF Lists
  <1> QED
    BY <1>5 DEF c

\* ORDER BY seq lists every row once, in the order of the sequences.
LEMMA OrderByLists ==
    ASSUME NEW S \in FiniteRows, DistinctSeqs(S)
    PROVE  Lists(OrderBySeq(S), S)
  <1> DEFINE bad == {T \in FiniteRows : DistinctSeqs(T) /\ ~Lists(OrderBySeq(T), T)}
  <1>1. SUFFICES bad = {}
    BY <1>1
  <1>2. SUFFICES ASSUME bad # {} PROVE FALSE
    OBVIOUS
  <1>3. PICK T \in bad : \A U \in SUBSET T : U # T => U \notin bad
    <2>1. bad \subseteq FiniteRows
      OBVIOUS
    <2> HIDE DEF bad
    <2> QED
      BY <1>2, <2>1, SmallestRows
  <1>4. T # {}
    <2>1. OrderBySeq({}) = << >>
      BY RowFolds
    <2>2. Lists(<< >>, {})
      BY DEF Lists
    <2> QED
      BY <1>3, <2>1, <2>2
  <1> DEFINE x == LastRow(T)
             U == T \ {x}
  <1>5. x \in T /\ \A q \in T : q.seq <= x.seq
    BY <1>3, <1>4, LastRowExists
  <1>6. U \in FiniteRows /\ U # T /\ U \in SUBSET T /\ DistinctSeqs(U) /\ T = U \cup {x}
        /\ U \in SUBSET Rows /\ x \in Rows
    BY <1>3, <1>5, SubsetsFinite DEF DistinctSeqs, FiniteRows
  <1>7. Lists(OrderBySeq(U), U)
    BY <1>3, <1>6
  <1>8. \A q \in U : q.seq < x.seq
    <2> SUFFICES ASSUME NEW q \in U PROVE q.seq < x.seq
      OBVIOUS
    <2>1. q.seq # x.seq /\ q.seq <= x.seq
      BY <1>3, <1>5 DEF DistinctSeqs
    <2>2. q.seq \in Nat /\ x.seq \in Nat
      BY <1>6, SeqType
    <2> QED
      BY <2>1, <2>2
  <1>9. OrderBySeq(T) = Append(OrderBySeq(U), x)
    BY <1>3, <1>4, RowFolds
  <1>10. Lists(Append(OrderBySeq(U), x), U \cup {x})
    <2> HIDE DEF x, U
    <2> QED
      BY <1>6, <1>7, <1>8, AppendLists
  <1> QED
    BY <1>3, <1>6, <1>9, <1>10

\* LIMIT: the first rows of a listing list the rows up to the last of them.
LEMMA PrefixLists ==
    ASSUME NEW b, NEW S, Lists(b, S), NEW n \in 1..Len(b)
    PROVE  /\ Lists(SubSeq(b, 1, n), {r \in S : r.seq <= b[n].seq})
           /\ Len(SubSeq(b, 1, n)) = n /\ SubSeq(b, 1, n)[n] = b[n] /\ b[n] \in S
  <1> DEFINE c == SubSeq(b, 1, n)
  <1>1. b \in Seq(Rows) /\ Len(b) \in Nat /\ \A i \in 1..Len(b) : b[i] \in Rows /\ b[i] \in S
    BY DEF Lists
  <1>2. c \in Seq(Rows) /\ Len(c) = n /\ \A i \in 1..n : c[i] = b[i] /\ i \in 1..Len(b)
    BY <1>1
  <1>3. \A i \in 1..Len(b) : b[i].seq <= b[n].seq <=> i \in 1..n
    <2> SUFFICES ASSUME NEW i \in 1..Len(b)
                 PROVE  b[i].seq <= b[n].seq <=> i \in 1..n
      OBVIOUS
    <2>1. b[i].seq \in Nat /\ b[n].seq \in Nat
      BY <1>1, SeqType
    <2>2. /\ i < n => b[i].seq < b[n].seq
          /\ n < i => b[n].seq < b[i].seq
      BY DEF Lists
    <2> QED
      BY <1>1, <2>1, <2>2
  <1>4. {r \in S : r.seq <= b[n].seq} = {c[i] : i \in 1..Len(c)}
    <2> HIDE DEF c
    <2> QED
      BY <1>2, <1>3 DEF Lists
  <1>5. \A i, j \in 1..Len(c) : i < j => c[i].seq < c[j].seq
    <2> HIDE DEF c
    <2> QED
      BY <1>2 DEF Lists
  <1>6. n \in 1..n
    OBVIOUS
  <1> HIDE DEF c
  <1>7. Lists(c, {r \in S : r.seq <= b[n].seq})
    BY <1>2, <1>4, <1>5 DEF Lists
  <1> QED
    BY <1>1, <1>2, <1>6, <1>7 DEF c

\* The head of a listing is the first row, its tail lists the others.
LEMMA TailLists ==
    ASSUME NEW b, NEW S, Lists(b, S), b # << >>
    PROVE  /\ Head(b) \in S /\ Head(b) \in Rows
           /\ \A q \in S : q # Head(b) => Head(b).seq < q.seq
           /\ Lists(Tail(b), S \ {Head(b)})
  <1> DEFINE c == Tail(b)
  <1>1. b \in Seq(Rows) /\ Len(b) \in Nat /\ \A i \in 1..Len(b) : b[i] \in Rows /\ b[i] \in S
    BY DEF Lists
  <1>2. /\ 1 \in 1..Len(b) /\ Head(b) = b[1] /\ c \in Seq(Rows) /\ Len(c) = Len(b) - 1
        /\ \A i \in 1..Len(c) : c[i] = b[i + 1] /\ i + 1 \in 1..Len(b)
    BY <1>1
  <1>3. \A j \in 2..Len(b) : b[1].seq < b[j].seq /\ b[j] # b[1]
    <2> SUFFICES ASSUME NEW j \in 2..Len(b)
                 PROVE  b[1].seq < b[j].seq /\ b[j] # b[1]
      OBVIOUS
    <2>1. j \in 1..Len(b) /\ 1 < j
      BY <1>1
    <2>2. b[1].seq < b[j].seq
      BY <1>2, <2>1 DEF Lists
    <2>3. b[1].seq \in Nat /\ b[j].seq \in Nat
      BY <1>1, <1>2, <2>1, SeqType
    <2> QED
      BY <2>2, <2>3
  <1>4. \A i \in 1..Len(b) : i = 1 \/ (i \in 2..Len(b) /\ i - 1 \in 1..Len(c) /\ c[i - 1] = b[i])
    BY <1>1, <1>2
  <1>5. \A q \in S : q # b[1] => b[1].seq < q.seq
    BY <1>3, <1>4 DEF Lists
  <1>6. S \ {b[1]} = {c[i] : i \in 1..Len(c)}
    <2>1. \A i \in 1..Len(c) : i + 1 \in 2..Len(b)
      BY <1>1, <1>2
    <2> HIDE DEF c
    <2> QED
      BY <1>2, <1>3, <1>4, <2>1 DEF Lists
  <1>7. \A i, j \in 1..Len(c) : i < j => c[i].seq < c[j].seq
    <2>1. \A i, j \in 1..Len(c) : i < j => i + 1 < j + 1
      BY <1>1, <1>2
    <2> HIDE DEF c
    <2> QED
      BY <1>2, <2>1 DEF Lists
  <1> HIDE DEF c
  <1>8. Lists(c, S \ {b[1]})
    BY <1>2, <1>6, <1>7 DEF Lists
  <1> QED
    BY <1>1, <1>2, <1>5, <1>8 DEF c

LEMMA MinOfTwo ==
    ASSUME NEW a \in Nat, NEW b \in Nat
    PROVE  /\ Min({a, b}) \in {a, b}
           /\ Min({a, b}) <= a /\ Min({a, b}) <= b
  <1>1. \E x \in {a, b} : \A y \in {a, b} : x <= y
    OBVIOUS
  <1>2. Min({a, b}) \in {a, b} /\ \A y \in {a, b} : Min({a, b}) <= y
    BY <1>1 DEF Min
  <1> QED
    BY <1>2

\* ORDER BY seq LIMIT n: an answer that is not empty lists the rows up to its
\* last one.
LEMMA LimitLists ==
    ASSUME NEW S \in FiniteRows, DistinctSeqs(S), NEW limit \in Nat \ {0}, NEW b, b # << >>,
           b = SubSeq(OrderBySeq(S), 1, Min({Len(OrderBySeq(S)), limit}))
    PROVE  /\ b \in Seq(Rows) /\ b[Len(b)] \in S
           /\ Lists(b, {r \in S : r.seq <= b[Len(b)].seq})
  <1> DEFINE all == OrderBySeq(S)
             n == Min({Len(all), limit})
  <1>1. Lists(all, S) /\ b = SubSeq(all, 1, n)
    <2>1. Lists(all, S)
      BY OrderByLists
    <2> QED
      BY <2>1
  <1>2. all \in Seq(Rows) /\ Len(all) \in Nat
    BY <1>1 DEF Lists
  <1> HIDE DEF all, n
  <1>3. n \in 0..Len(all)
    BY <1>2, MinOfTwo DEF n
  <1>4. n # 0
    <2>1. SubSeq(all, 1, 0) = << >>
      BY <1>2
    <2> QED
      BY <1>1, <2>1
  <1>5. n \in 1..Len(all)
    BY <1>2, <1>3, <1>4
  <1>6. /\ Lists(b, {r \in S : r.seq <= all[n].seq})
        /\ Len(b) = n /\ b[n] = all[n] /\ all[n] \in S
    <2>1. Lists(all, S)
      BY <1>1
    <2>2. /\ Lists(SubSeq(all, 1, n), {r \in S : r.seq <= all[n].seq})
          /\ Len(SubSeq(all, 1, n)) = n /\ SubSeq(all, 1, n)[n] = all[n] /\ all[n] \in S
      BY <1>5, <2>1, PrefixLists
    <2> QED
      BY <1>1, <2>2
  <1>7. b \in Seq(Rows)
    BY <1>6 DEF Lists
  <1> QED
    BY <1>6, <1>7

\* Replaying rows gives a database.
LEMMA ReplayType ==
    ASSUME NEW S \in FiniteRows
    PROVE  Replay(S) \in Databases
  <1> DEFINE bad == {T \in FiniteRows : Replay(T) \notin Databases}
  <1>1. SUFFICES bad = {}
    BY <1>1
  <1>2. SUFFICES ASSUME bad # {} PROVE FALSE
    OBVIOUS
  <1>3. PICK T \in bad : \A U \in SUBSET T : U # T => U \notin bad
    <2>1. bad \subseteq FiniteRows
      OBVIOUS
    <2> HIDE DEF bad
    <2> QED
      BY <1>2, <2>1, SmallestRows
  <1>4. T # {}
    BY <1>3, ReplayNext, EmptyDatabaseType
  <1> DEFINE x == LastRow(T)
             U == T \ {x}
  <1>5. x \in T /\ U \in FiniteRows /\ U # T /\ U \in SUBSET T
    BY <1>3, <1>4, LastRowExists, SubsetsFinite
  <1>6. Replay(U) \in Databases
    BY <1>3, <1>5
  <1>7. Replay(T) = Exec(Replay(U), x.st)
    BY <1>3, <1>4, RowFolds
  <1>8. x.st \in Statements
    BY <1>3, <1>5, SeqType DEF FiniteRows
  <1> QED
    BY <1>3, <1>6, <1>7, <1>8, ExecType
-----------------------------------------------------------------------------
(* Executing the statements of rows one after the other *)

LEMMA IntervalFinite ==
    ASSUME NEW n \in Nat
    PROVE  \A s \in SUBSET (1..n) : s \in FiniteNumbers
  <1>1. IsFiniteSet(1..n) /\ 1..n \subseteq Nat
    BY FS_Interval
  <1> QED
    BY <1>1, FS_Subset DEF FiniteNumbers

LEMMA MaxOfInterval ==
    ASSUME NEW n \in Nat
    PROVE  Max(1..(n + 1)) = n + 1 /\ (1..(n + 1)) \ {n + 1} = 1..n
  <1>1. \A x \in 1..(n + 1) : (\A y \in 1..(n + 1) : x >= y) <=> x = n + 1
    OBVIOUS
  <1>2. n + 1 \in 1..(n + 1)
    OBVIOUS
  <1>3. Max(1..(n + 1)) = n + 1
    BY <1>1, <1>2 DEF Max
  <1> QED
    BY <1>3

\* What comes after the first n statements of a sequence does not matter to
\* the database after them.
LEMMA SameRun ==
    ASSUME NEW d, NEW q, NEW p, NEW n \in Nat, \A i \in 1..n : q[i] = p[i]
    PROVE  Fold("run", <<d, q>>, 1..n) = Fold("run", <<d, p>>, 1..n)
  <1> DEFINE F(s) == Fold("run", <<d, q>>, s)
             G(s) == Fold("run", <<d, p>>, s)
             bad == {s \in SUBSET (1..n) : F(s) # G(s)}
  <1>1. SUFFICES bad = {}
    BY <1>1
  <1>2. SUFFICES ASSUME bad # {} PROVE FALSE
    OBVIOUS
  <1>3. \A s \in SUBSET (1..n) : s \in FiniteNumbers
    BY IntervalFinite
  <1>4. PICK s \in bad : \A t \in SUBSET s : t # s => t \notin bad
    <2>1. \A t \in bad : IsFiniteSet(t)
      BY <1>3 DEF FiniteNumbers
    <2> HIDE DEF bad
    <2> QED
      BY <1>2, <2>1, SmallestSet
  <1>5. Foldable("run") = FiniteNumbers /\ LastOf("run", s) = Max(s)
    BY DEF Foldable, LastOf
  <1>6. /\ F({}) = d /\ G({}) = d
        /\ s # {} => /\ F(s) = Exec(F(s \ {Max(s)}), q[Max(s)])
                     /\ G(s) = Exec(G(s \ {Max(s)}), p[Max(s)])
    <2>1. ASSUME NEW z
          PROVE  /\ Fold("run", <<d, z>>, {}) = d
                 /\ s # {} => Fold("run", <<d, z>>, s) =
                       Exec(Fold("run", <<d, z>>, s \ {Max(s)}), z[Max(s)])
      <3>1. /\ Fold("run", <<d, z>>, {}) = FoldBase("run", <<d, z>>)
            /\ s # {} => Fold("run", <<d, z>>, s) =
                  FoldStep("run", <<d, z>>, Fold("run", <<d, z>>, s \ {Max(s)}), Max(s))
        <4>1. s \in FiniteNumbers
          BY <1>3, <1>4
        <4> DEFINE y == <<d, z>>
        <4> HIDE DEF y
        <4>2. /\ Fold("run", y, {}) = FoldBase("run", y)
              /\ s # {} => Fold("run", y, s) =
                    FoldStep("run", y, Fold("run", y, s \ {Max(s)}), Max(s))
          BY <1>5, <4>1, FoldUnfold
        <4> QED
          BY <4>2 DEF y
      <3> QED
        BY <3>1 DEF FoldBase, FoldStep
    <2> QED
      BY <2>1
  <1>7. s # {}
    BY <1>4, <1>6
  <1>8. Max(s) \in s /\ Max(s) \in 1..n /\ s \ {Max(s)} \in SUBSET s
    BY <1>3, <1>4, <1>7, MaxIs
  <1>9. F(s \ {Max(s)}) = G(s \ {Max(s)})
    <2>1. s \ {Max(s)} \in SUBSET (1..n) /\ s \ {Max(s)} # s
      BY <1>4, <1>8
    <2> HIDE DEF F, G
    <2> QED
      BY <1>4, <1>8, <2>1
  <1> QED
    BY <1>4, <1>6, <1>7, <1>8, <1>9

LEMMA RunNext ==
    /\ \A d : RunAll(d, << >>) = d
    /\ \A d, X : \A q \in Seq(X), x \in X : RunAll(d, Append(q, x)) = Exec(RunAll(d, q), x)
  <1>1. ASSUME NEW d
        PROVE  RunAll(d, << >>) = d
    <2>1. DOMAIN << >> = {}
      OBVIOUS
    <2> QED
      BY <2>1, FoldUnfold DEF RunAll, FoldBase
  <1>2. ASSUME NEW d, NEW X, NEW q \in Seq(X), NEW x \in X
        PROVE  RunAll(d, Append(q, x)) = Exec(RunAll(d, q), x)
    <2> DEFINE n == Len(q)
               p == Append(q, x)
               S == 1..(n + 1)
    <2>1. /\ n \in Nat /\ DOMAIN q = 1..n /\ DOMAIN p = S /\ p[n + 1] = x
          /\ \A i \in 1..n : p[i] = q[i]
      OBVIOUS
    <2> HIDE DEF p, n
    <2>2. S \in FiniteNumbers /\ S # {}
      <3>1. n + 1 \in Nat /\ n + 1 \in S
        BY <2>1
      <3> QED
        BY <3>1, IntervalFinite
    <2>3. S \in Foldable("run") /\ LastOf("run", S) = n + 1 /\ S \ {n + 1} = 1..n
      BY <2>1, <2>2, MaxOfInterval DEF Foldable, LastOf
    <2>4. Fold("run", <<d, p>>, S) =
            FoldStep("run", <<d, p>>, Fold("run", <<d, p>>, 1..n), n + 1)
      BY <2>2, <2>3, FoldUnfold
    <2>5. Fold("run", <<d, p>>, S) = Exec(Fold("run", <<d, p>>, 1..n), x)
      BY <2>1, <2>4 DEF FoldStep
    <2>6. Fold("run", <<d, p>>, 1..n) = Fold("run", <<d, q>>, 1..n)
      BY <2>1, SameRun
    <2> QED
      BY <2>1, <2>5, <2>6 DEF RunAll, p
  <1> QED
    BY <1>1, <1>2

\* The statements of rows in the order of their sequences.
Texts(S) == LET rows == OrderBySeq(S) IN [i \in 1..Len(rows) |-> rows[i].st]

LEMMA TextsNext ==
    /\ Texts({}) = << >>
    /\ \A S \in FiniteRows, r \in Rows :
          DistinctSeqs(S) /\ (\A q \in S : q.seq < r.seq) =>
             Texts(S) \in Seq(Statements) /\ Texts(S \cup {r}) = Append(Texts(S), r.st)
  <1>1. Texts({}) = << >>
    BY RowFolds DEF Texts
  <1>2. ASSUME NEW S \in FiniteRows, NEW r \in Rows, DistinctSeqs(S), \A q \in S : q.seq < r.seq
        PROVE  Texts(S) \in Seq(Statements) /\ Texts(S \cup {r}) = Append(Texts(S), r.st)
    <2>1. S \cup {r} \in FiniteRows /\ S \cup {r} # {}
      BY FS_AddElement DEF FiniteRows
    <2>2. LastRow(S \cup {r}) = r /\ (S \cup {r}) \ {r} = S
      BY <1>2, LastRowIs DEF FiniteRows
    <2>3. OrderBySeq(S \cup {r}) = Append(OrderBySeq(S), r)
      BY <2>1, <2>2, RowFolds
    <2>4. OrderBySeq(S) \in Seq(Rows)
      BY <1>2, OrderByLists DEF Lists
    <2>5. ASSUME NEW b \in Seq(Rows)
          PROVE  LET texts == [i \in 1..Len(b) |-> b[i].st]
                     more == Append(b, r)
                 IN  /\ texts \in Seq(Statements)
                     /\ [i \in 1..Len(more) |-> more[i].st] = Append(texts, r.st)
      <3> DEFINE texts == [i \in 1..Len(b) |-> b[i].st]
                 more == Append(b, r)
                 long == [i \in 1..Len(more) |-> more[i].st]
      <3>1. \A i \in 1..Len(b) : b[i].st \in Statements
        BY SeqType
      <3>2. texts \in Seq(Statements) /\ Len(texts) = Len(b) /\ r.st \in Statements
        BY <3>1, SeqType
      <3>3. Len(more) = Len(b) + 1 /\ \A i \in 1..Len(more) : more[i] \in Rows
        OBVIOUS
      <3>4. long \in Seq(Statements) /\ Len(long) = Len(b) + 1
        BY <3>3, SeqType
      <3>5. \A i \in 1..(Len(b) + 1) : long[i] = Append(texts, r.st)[i]
        <4> SUFFICES ASSUME NEW i \in 1..(Len(b) + 1) PROVE long[i] = Append(texts, r.st)[i]
          OBVIOUS
        <4>1. CASE i \in 1..Len(b)
          <5>1. long[i] = b[i].st /\ texts[i] = b[i].st
            BY <3>3, <4>1
          <5> HIDE DEF texts, long
          <5> QED
            BY <3>2, <4>1, <5>1
        <4>2. CASE i = Len(b) + 1
          <5>1. long[i] = r.st
            BY <3>3, <4>2
          <5> HIDE DEF texts, long
          <5> QED
            BY <3>2, <4>2, <5>1
        <4> QED
          BY <4>1, <4>2
      <3>6. long = Append(texts, r.st)
        <4> HIDE DEF texts, long
        <4> QED
          BY <3>2, <3>4, <3>5
      <3> QED
        BY <3>2, <3>6
    <2> QED
      BY <2>3, <2>4, <2>5 DEF Texts
  <1> QED
    BY <1>1, <1>2

\* A marker changes nothing.
LEMMA MarkerRuns ==
    ASSUME NEW d \in Databases, NEW st \in Markers
    PROVE  Exec(d, st) = d
  BY DEF Exec, Overwrite, Markers, BeginKey, EndKey, Databases

\* Replaying rows D above rows B executes, on what B produces, the statements
\* of D without its markers.
LEMMA ReplayOnTop ==
    ASSUME NEW B \in FiniteRows, NEW D \in FiniteRows, DistinctSeqs(D),
           \A b \in B, r \in D : b.seq < r.seq
    PROVE  Replay(B \cup D) = RunAll(Replay(B), Texts({r \in D : r.st \notin Markers}))
  <1> DEFINE Plain(S) == {r \in S : r.st \notin Markers}
             Holds(S) == Replay(B \cup S) = RunAll(Replay(B), Texts(Plain(S)))
             bad == {S \in SUBSET D : ~Holds(S)}
  <1>1. SUFFICES bad = {}
    BY <1>1
  <1>2. SUFFICES ASSUME bad # {} PROVE FALSE
    OBVIOUS
  <1>3. PICK S \in bad : \A T \in SUBSET S : T # S => T \notin bad
    <2>1. bad \subseteq FiniteRows
      BY SubsetsFinite
    <2> HIDE DEF bad
    <2> QED
      BY <1>2, <2>1, SmallestRows
  <1>4. S \in SUBSET D /\ S \in FiniteRows /\ ~Holds(S)
    BY <1>3, SubsetsFinite
  <1>5. S # {}
    <2>1. Plain({}) = {} /\ B \cup {} = B
      OBVIOUS
    <2> QED
      BY <1>4, <2>1, TextsNext, RunNext
  <1> DEFINE x == LastRow(S)
             T == S \ {x}
  <1>6. x \in S /\ \A q \in S : q.seq <= x.seq
    BY <1>4, <1>5, LastRowExists
  <1>7. /\ x \in Rows /\ x \in D /\ T \in SUBSET S /\ T # S /\ T \in SUBSET D
        /\ T \in FiniteRows /\ S = T \cup {x}
    BY <1>4, <1>6, SubsetsFinite DEF FiniteRows
  <1> HIDE DEF Holds, x, T
  <1>8. Holds(T)
    BY <1>3, <1>7
  <1>9. \A q \in B \cup T : q.seq < x.seq
    <2>1. \A q \in T : q.seq # x.seq /\ q.seq <= x.seq
      BY <1>4, <1>6, <1>7 DEF DistinctSeqs, T
    <2>2. \A q \in T : q.seq \in Nat
      BY <1>7, SeqType DEF FiniteRows
    <2> QED
      BY <1>7, <2>1, <2>2, SeqType
  <1>10. B \cup T \in FiniteRows /\ B \cup S = (B \cup T) \cup {x}
    BY <1>7, FS_Union DEF FiniteRows
  <1>11. Replay(B \cup S) = Exec(Replay(B \cup T), x.st)
    BY <1>7, <1>9, <1>10, ReplayNext
  <1>12. CASE x.st \in Markers
    <2>1. Plain(S) = Plain(T)
      BY <1>7, <1>12
    <2>2. Replay(B \cup S) = Replay(B \cup T)
      BY <1>10, <1>11, <1>12, ReplayType, MarkerRuns
    <2> QED
      BY <1>4, <1>8, <2>1, <2>2 DEF Holds
  <1>13. CASE x.st \notin Markers
    <2>1. Plain(S) = Plain(T) \cup {x}
      BY <1>7, <1>13
    <2>2. Plain(T) \in FiniteRows /\ DistinctSeqs(Plain(T)) /\ \A q \in Plain(T) : q.seq < x.seq
      <3>1. Plain(T) \in SUBSET T
        OBVIOUS
      <3> QED
        BY <1>7, <1>9, <3>1, SubsetsFinite DEF DistinctSeqs
    <2> HIDE DEF Plain
    <2>3. Texts(Plain(T)) \in Seq(Statements) /\ Texts(Plain(S)) = Append(Texts(Plain(T)), x.st)
      BY <1>7, <2>1, <2>2, TextsNext
    <2>4. x.st \in Statements
      BY <1>7, SeqType
    <2>5. RunAll(Replay(B), Texts(Plain(S))) = Exec(RunAll(Replay(B), Texts(Plain(T))), x.st)
      BY <2>3, <2>4, RunNext
    <2> QED
      BY <1>4, <1>8, <1>11, <2>5 DEF Holds
  <1> QED
    BY <1>12, <1>13
=============================================================================
