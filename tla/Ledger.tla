------------------------------- MODULE Ledger -------------------------------
(***************************************************************************)
(* What the executive and the reflector share: the statements recorded in  *)
(* the DML ledger, the database a statement is executed on (ctldb, or the  *)
(* LDB of a host), and the committed rows of table ctlstore_dml_ledger.    *)
(*                                                                         *)
(* A statement is SQL text in the code.  Here it is a record that keeps    *)
(* what decides whether the text runs and what it changes: the table, the  *)
(* primary key, the value written and the columns the text names.          *)
(***************************************************************************)
EXTENDS Integers, Sequences, FiniteSetsExt, Folds

CONSTANTS Tables,   \* names of family tables
          Fields,   \* column names
          Keys,     \* primary key values
          Vals,     \* row contents
          NoRow     \* there is no row with this key

ASSUME LedgerAssumption == NoRow \notin Vals

VARIABLE ledger     \* the set of committed ledger rows

-----------------------------------------------------------------------------
(* Statements *)

\* The markers "--- BEGIN" and "--- COMMIT" around the body of a mutation.
BeginKey == [op |-> "begin"]
EndKey   == [op |-> "commit"]
Markers  == {BeginKey, EndKey}

\* REPLACE INTO tbl (fs) VALUES ... and DELETE FROM tbl WHERE key = ...
UpsertDML == [op : {"upsert"}, tbl : Tables, key : Keys, val : Vals, fs : SUBSET Fields]
DeleteDML == [op : {"delete"}, tbl : Tables, key : Keys]

\* CREATE TABLE tbl (fs), ALTER TABLE tbl ADD COLUMN fs, DELETE FROM tbl.
CreateTableDDL == [op : {"create"}, tbl : Tables, fs : SUBSET Fields]
AddColumnDDL   == [op : {"add"},    tbl : Tables, fs : SUBSET Fields]
ClearTableDDL  == [op : {"clear"},  tbl : Tables]

DMLs       == UpsertDML \cup DeleteDML
Controls   == CreateTableDDL \cup AddColumnDDL \cup ClearTableDDL
Statements == Markers \cup DMLs \cup Controls

-----------------------------------------------------------------------------
(* Databases.  A table exists when it has columns: CreateTable insists on  *)
(* at least one key field.                                                 *)

Databases == [schema : [Tables -> SUBSET Fields],
              rows   : [Tables -> [Keys -> Vals \cup {NoRow}]]]

EmptyDatabase == [schema |-> [t \in Tables |-> {}],
                  rows   |-> [t \in Tables |-> [k \in Keys |-> NoRow]]]

\* A table exists when fetchMetaTablesByName finds columns of it.
Exists(d, t) == d.schema[t] # {}

\* Does the database accept the text of statement st?  Markers are never
\* executed, and change nothing.
Runs(d, st) ==
    /\ st.op = "create" => ~Exists(d, st.tbl)
    /\ st.op \in {"upsert", "delete", "add", "clear"} => Exists(d, st.tbl)
    /\ st.op = "upsert" => st.fs \subseteq d.schema[st.tbl]
    /\ st.op = "add" => st.fs \cap d.schema[st.tbl] = {}

\* The rows of all tables after statement st: an upsert or delete replaces
\* one row, a clear every row of the table.
Overwrite(rows, st) ==
    IF st.op \in {"upsert", "delete", "clear"}
    THEN [rows EXCEPT ![st.tbl] =
            [k \in Keys |-> IF st.op = "clear" \/ st.key = k
                            THEN IF st.op = "upsert" THEN st.val ELSE NoRow
                            ELSE @[k]]]
    ELSE rows

\* The database after statement st.
Exec(d, st) ==
    [schema |-> IF st.op \in {"create", "add"}
                THEN [d.schema EXCEPT ![st.tbl] = @ \cup st.fs]
                ELSE d.schema,
     rows   |-> Overwrite(d.rows, st)]

-----------------------------------------------------------------------------
(* Ledger rows.  seq is the AUTO_INCREMENT primary key; txn names the      *)
(* ctldb transaction that wrote the row by the sequence of its first row.  *)
(* The table has no such column: only properties look at it.               *)

Rows == [seq : Nat \ {0}, txn : Nat, st : Statements]

\* A row written by Mutate rather than by CreateTable, AddFields, ClearTable.
IsMutation(r) == r.st.op \in {"begin", "commit", "upsert", "delete"}

\* SELECT max(seq) FROM ctlstore_dml_ledger, NULL read as 0.
MaxSeq == Max({r.seq : r \in ledger} \cup {0})

\* The row with the highest sequence in a nonempty set of rows.
LastRow(S) == CHOOSE r \in S : \A q \in S : q.seq <= r.seq

\* A set of rows in the order of their sequences: ORDER BY seq.
OrderBySeq(S) ==
    MapThenFoldSet(LAMBDA r, rows : Append(rows, r), << >>, LAMBDA r : r, LastRow, S)

\* What executing the statements of a set of rows in sequence order makes of
\* an empty database: the reference the LDB is compared with.
Replay(S) ==
    MapThenFoldSet(LAMBDA r, d : Exec(d, r.st), EmptyDatabase, LAMBDA r : r, LastRow, S)
=============================================================================
