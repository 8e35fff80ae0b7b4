--------------------------- MODULE TableMutations ---------------------------
(***************************************************************************)
(* INSERT, REPLACE, ON DUPLICATE KEY UPDATE, UPDATE and DELETE on one      *)
(* table (mutation_ops.rs, wal_ops.rs).                                    *)
(*                                                                         *)
(* A statement first decides what it appends, from the rows and indexes it *)
(* finds, and then appends one WAL record or one block of records at a     *)
(* time, each with its changes to the unique indexes.  It runs alone,      *)
(* under the write lock of the server, but an append may fail and the      *)
(* server may stop between any two of them.  A statement of a committing   *)
(* transaction writes into the transaction's write group, whose records    *)
(* are visible only once the group is committed.                           *)
(*                                                                         *)
(* A row has two fields: k, which "pk" makes the primary key, and v, on    *)
(* which "uk" is a second unique index.                                    *)
(***************************************************************************)
EXTENDS RuntimeIndex

CONSTANTS
  FieldValues,       \* values of a field
  StatementRows,     \* bound on the rows of an INSERT
  BlockRows,         \* INSERT_VALUE_BLOCK_MAX_ROWS
  MaxRecords,        \* bound on the transaction ids of the stream
  MaxTableFaults     \* bound on failing appends and on crashes

VARIABLES
  constrained,   \* the unique indexes the table has
  live,          \* transaction id -> row: the committed live rows
  last,          \* latest transaction id of the stream
  uniques,       \* the runtime index of each unique index
  statement,     \* the statement being executed, or NoStatement
  group,         \* records of the open write group, or NoGroup
  tableFaults,   \* failing appends and crashes so far
  suspects       \* history: statements whose form does not keep keys unique

mutationVars == <<constrained, live, last, uniques, statement, group, tableFaults, suspects>>

NoStatement == [ok |-> FALSE]
NoGroup == <<[first |-> -1]>>
Null == 0
Rows == [k : FieldValues, v : FieldValues]

\* build_insert_payload_row: k may not be NULL.
Valid(row) == row.k # Null
Invalid == [k |-> Null, v |-> CHOOSE x \in FieldValues : TRUE]

Field(i) == IF i = "pk" THEN "k" ELSE "v"
\* index_value_tuple: a missing value is the empty value, so NULLs are equal keys.
KeyOf(i, row) == row[Field(i)]
LiveIds(rowset) == SortedSeq(DOMAIN rowset)

DeleteOp(id, row) == [kind |-> "delete", ref |-> id, rows |-> <<row>>]
InsertOp(rs) == [kind |-> "insert", ref |-> 0, rows |-> rs]

-----------------------------------------------------------------------------
(* Appending *)

\* One record in the index: append_row_payload_record with apply_table_row_mutation,
\* or a block of them: append_row_payload_records_batch.
IndexOp(i, st, op, first) ==
  IF op.kind = "delete" THEN RemoveWithRowRef(st, KeyOf(i, op.rows[1]), op.ref)
  ELSE FoldLeft(LAMBDA s, n : InsertWithRowRef(s, KeyOf(i, op.rows[n]), first + n - 1),
                st, [n \in DOMAIN op.rows |-> n])

IndexAll(idx, op, first) == [i \in DOMAIN idx |-> IndexOp(i, idx[i], op, first)]

\* One record, or one block, in the live rows.
LiveOp(rowset, op, first) ==
  IF op.kind = "delete" THEN Without(rowset, op.ref)
  ELSE [id \in DOMAIN rowset \cup {first + n - 1 : n \in DOMAIN op.rows} |->
          IF id \in DOMAIN rowset THEN rowset[id] ELSE op.rows[id - first + 1]]

\* rebuild_runtime_indexes_for_table: from the committed live rows.
Rebuilt(idx, rowset) ==
  [i \in DOMAIN idx |->
     LET keys == {KeyOf(i, rowset[id]) : id \in DOMAIN rowset}
         refs == [k \in keys |-> SortedSeq({id \in DOMAIN rowset : KeyOf(i, rowset[id]) = k})]
     IN  RebuildWithRowRefs(idx[i], refs, SortedSeq(keys))]

\* append_insert_payloads_in_value_blocks for more than one row of VALUES.
Blocks(rs) ==
  [b \in 1..((Len(rs) + BlockRows - 1) \div BlockRows) |->
     InsertOp(SubSeq(rs, (b - 1) * BlockRows + 1,
                     IF b * BlockRows < Len(rs) THEN b * BlockRows ELSE Len(rs)))]

\* The rows of a SELECT are one block.
Batch(source, rs) ==
  IF rs = << >> THEN << >> ELSE IF source = "select" THEN <<InsertOp(rs)>> ELSE Blocks(rs)

-----------------------------------------------------------------------------
(* INSERT: the fast path of VALUES, which asks the runtime indexes *)

\* A unique index without keys, in a stream with records, is taken for one that was
\* never filled.
Cold == last > 0 /\ \E i \in constrained : KeyCount(uniques[i]) = 0

Warmed == IF Cold THEN Rebuilt(uniques, live) ELSE uniques

\* Row n has a key that an index contains or an earlier row of the statement took.
Duplicate(idx, rs, n) ==
  \E i \in constrained :
    \/ HasKey(idx[i], KeyOf(i, rs[n]))
    \/ \E m \in 1..n - 1 : KeyOf(i, rs[m]) = KeyOf(i, rs[n])

\* Mutant of FastInsert: the rows before the duplicate are appended.
FastInsertUpToDuplicate(idx, mode, rs) ==
  LET dups == {n \in DOMAIN rs : Duplicate(idx, rs, n)}
      upto == IF dups = {} THEN Len(rs) ELSE (CHOOSE n \in dups : \A m \in dups : n <= m) - 1
  IN  [ops |-> Blocks(SubSeq(rs, 1, upto)), ok |-> dups = {}]

\* A duplicate rejects the statement before anything is appended; with IGNORE it only
\* ends the checks of its row, which is appended with the others.
FastInsert(idx, mode, rs) ==
  LET ok == /\ \A n \in DOMAIN rs : Valid(rs[n])
            /\ mode = "ignore" \/ ~\E n \in DOMAIN rs : Duplicate(idx, rs, n)
  IN  [ops |-> IF ok THEN Blocks(rs) ELSE << >>, ok |-> ok]

\* Without a unique index every row is appended.
AppendOnly(source, rs) ==
  LET ok == \A n \in DOMAIN rs : Valid(rs[n])
  IN  [ops |-> IF ok THEN Batch(source, rs) ELSE << >>, ok |-> ok]

-----------------------------------------------------------------------------
(* INSERT: the general path, which loads the committed live rows *)

\* Of several rows with one key, the last.
ByKey(i, rowset) ==
  [k \in {KeyOf(i, rowset[id]) : id \in DOMAIN rowset} |->
     Last(SortedSeq({id \in DOMAIN rowset : KeyOf(i, rowset[id]) = k}))]

\* existing_unique_rows and existing_pk_rows, the staged rows with their positions,
\* the records appended on the way, and the runtime index of the primary key as
\* those records leave it.
Loaded(idx) ==
  [rows |-> live, unique |-> [i \in constrained |-> ByKey(i, live)],
   pk |-> IF "pk" \in constrained THEN ByKey("pk", live) ELSE NoFunction,
   staged |-> << >>, at |-> [i \in constrained |-> NoFunction], pkAt |-> NoFunction,
   ops |-> << >>, idx |-> idx, ok |-> TRUE]

Refused(acc) == [acc EXCEPT !.ok = FALSE]

\* find_unique_conflict: the first index, in the order of a hash map, on which the
\* row meets a staged row or an existing one.
Conflicts(acc, row, order) ==
  SelectSeq(order, LAMBDA i : KeyOf(i, row) \in DOMAIN acc.at[i] \cup DOMAIN acc.unique[i])

\* prepare_insert_on_duplicate_updated_row for `v = VALUES(v)'; the primary key may
\* not be assigned.
Updated(mode, old, row) == IF mode = "replace" THEN row ELSE [old EXCEPT !.v = row.v]

Rekeyed(f, i, old, new, value) == With(Without(f, KeyOf(i, old)), KeyOf(i, new), value)

\* An existing row: its Delete and the new row's Insert are appended at once; the new
\* row is remembered under the id of the deleted one.
ReplaceExisting(acc, mode, id, row) ==
  LET old == acc.rows[id]
      new == Updated(mode, old, row)
      ops == <<DeleteOp(id, old), InsertOp(<<new>>)>>
  IN  [acc EXCEPT !.rows = With(@, id, new), !.ops = @ \o ops,
                  !.unique = [i \in constrained |-> Rekeyed(@[i], i, old, new, id)],
                  !.idx = FoldLeft(LAMBDA x, op : IndexAll(x, op, last + 1), @, ops)]

\* A staged row is overwritten where it is; only ON DUPLICATE, which keeps the primary
\* key, also tells the staged primary keys.
ReplaceStaged(acc, mode, n, row) ==
  LET old == acc.staged[n]  new == Updated(mode, old, row) IN
  [acc EXCEPT !.staged[n] = new,
              !.at = [i \in constrained |-> Rekeyed(@[i], i, old, new, n)]]

Stage(acc, row) ==
  LET n == Len(acc.staged) + 1 IN
  [acc EXCEPT !.staged = Append(@, row),
              !.at = [i \in constrained |-> With(@[i], KeyOf(i, row), n)],
              !.pkAt = IF "pk" \in constrained THEN With(@, row.k, n) ELSE @]

\* A duplicate of a second unique index.
SecondaryDuplicate(acc, row) ==
  \E i \in constrained \ {"pk"} : KeyOf(i, row) \in DOMAIN acc.at[i] \cup DOMAIN acc.unique[i]

\* A duplicate primary key: in the runtime index, in the live rows or staged.
PrimaryDuplicate(acc, row) ==
  "pk" \in constrained /\
    (HasKey(acc.idx["pk"], row.k) \/ row.k \in DOMAIN acc.pk \cup DOMAIN acc.pkAt)

\* ON DUPLICATE for a primary key that find_unique_conflict has not seen.
ResolvePrimary(acc, mode, row) ==
  IF row.k \in DOMAIN acc.pk THEN ReplaceExisting(acc, mode, acc.pk[row.k], row)
  ELSE IF row.k \in DOMAIN acc.pkAt THEN ReplaceStaged(acc, mode, acc.pkAt[row.k], row)
  ELSE Refused(acc)

\* The primary key check, last for every mode.
CheckPrimary(acc, mode, row) ==
  IF ~PrimaryDuplicate(acc, row) THEN Stage(acc, row)
  ELSE CASE mode = "ondup"  -> ResolvePrimary(acc, mode, row)
         [] mode = "ignore" -> acc
         [] OTHER           -> Refused(acc)

\* One row of the statement.
InsertOne(acc, mode, row, order) ==
  LET conflicts == Conflicts(acc, row, order) IN
  IF ~acc.ok THEN acc
  ELSE IF ~Valid(row) THEN Refused(acc)
  ELSE IF mode \in {"replace", "ondup"} THEN
    IF conflicts = << >> THEN CheckPrimary(acc, mode, row)
    ELSE LET i == Head(conflicts)  k == KeyOf(i, row) IN
         IF k \in DOMAIN acc.at[i] THEN ReplaceStaged(acc, mode, acc.at[i][k], row)
         ELSE ReplaceExisting(acc, mode, acc.unique[i][k], row)
  ELSE IF SecondaryDuplicate(acc, row) THEN IF mode = "ignore" THEN acc ELSE Refused(acc)
  ELSE CheckPrimary(acc, mode, row)

\* The staged rows follow once every row is decided.
GeneralInsert(idx, mode, source, rs, order) ==
  LET acc == FoldLeft(LAMBDA a, row : InsertOne(a, mode, row, order), Loaded(idx), rs)
  IN  [ops |-> acc.ops \o (IF acc.ok THEN Batch(source, acc.staged) ELSE << >>), ok |-> acc.ok]

-----------------------------------------------------------------------------
(* Statements *)

Idling == statement = NoStatement

\* Nothing is asked of the statements that follow a suspicious one.
Ready == Idling /\ suspects = {}

\* Forms of statements that the code does not keep unique: see the README.
Suspicious(req) ==
  \/ req.mode = "ignore" /\ req.source = "values" /\ constrained # {}
  \/ req.mode \in {"replace", "ondup"} /\ (Len(req.rows) > 1 \/ Cardinality(constrained) > 1)
  \/ req.mode = "update" /\ \E i \in constrained : Field(i) = req.field
  \/ group # NoGroup /\ group # << >>

Run(req, plan) ==
  /\ statement' = [request |-> req, before |-> live, ops |-> plan.ops, ok |-> plan.ok]
  /\ suspects' = IF Suspicious(req) THEN suspects \cup {req.mode} ELSE suspects
  /\ UNCHANGED <<constrained, live, last, group, tableFaults>>

\* execute_insert_locked.  REPLACE and ON DUPLICATE need a unique index.
Insert(mode, source, rs) ==
  /\ Ready /\ last + 2 * Len(rs) <= MaxRecords
  /\ mode \in {"replace", "ondup"} => constrained # {}
  /\ LET req == [mode |-> mode, source |-> source, rows |-> rs]
     IN  IF mode \in {"plain", "ignore"} /\ source # "returning" /\ constrained = {}
           THEN Run(req, AppendOnly(source, rs)) /\ UNCHANGED uniques
         ELSE IF mode \in {"plain", "ignore"} /\ source = "values"
           THEN uniques' = Warmed /\ Run(req, FastInsert(Warmed, mode, rs))
         ELSE /\ UNCHANGED uniques
              /\ \E order \in SetToSeqs(constrained) :
                   Run(req, GeneralInsert(uniques, mode, source, rs, order))

\* load_mutation_rows and LIMIT: the condition is applied before the limit only when
\* the access plan can apply it.
Matching(where, id) == live[id] \in where
Targets(where, pushed, limit) ==
  Truncate(SelectSeq(LiveIds(live), LAMBDA id : ~pushed \/ Matching(where, id)), limit)

\* One row of an UPDATE: the primary key is checked against the loaded rows.
UpdateOne(acc, id, field, value) ==
  LET old == live[id]  new == [old EXCEPT ![field] = value] IN
  IF ~acc.ok THEN acc
  ELSE IF ~Valid(new) THEN Refused(acc)
  ELSE IF "pk" \in constrained /\ old.k # new.k /\ new.k \in acc.pk THEN Refused(acc)
  ELSE [ops |-> acc.ops \o <<DeleteOp(id, old), InsertOp(<<new>>)>>,
        pk |-> (acc.pk \ {old.k}) \cup {new.k}, ok |-> TRUE]

\* execute_update_locked
Update(field, value, where, pushed, limit) ==
  LET targets == Targets(where, pushed, limit)
      matching == SelectSeq(targets, LAMBDA id : Matching(where, id))
      start == [ops |-> << >>, pk |-> {live[id].k : id \in Range(targets)}, ok |-> TRUE]
      acc == FoldLeft(LAMBDA a, id : UpdateOne(a, id, field, value), start, matching)
  IN  /\ Ready /\ last + 2 * Len(matching) <= MaxRecords
      /\ Run([mode |-> "update", where |-> where, limit |-> limit, field |-> field, value |-> value],
             [ops |-> acc.ops, ok |-> acc.ok])
      /\ UNCHANGED uniques

\* execute_delete_locked
Delete(where, pushed, limit) ==
  LET matching == SelectSeq(Targets(where, pushed, limit), LAMBDA id : Matching(where, id))
  IN  /\ Ready /\ last + Len(matching) <= MaxRecords
      /\ Run([mode |-> "delete", where |-> where, limit |-> limit],
             [ops |-> [n \in DOMAIN matching |-> DeleteOp(matching[n], live[matching[n]])],
              ok |-> TRUE])
      /\ UNCHANGED uniques

\* Mutant of AppendRecords: the records of a group are visible at once.
AppendVisibly ==
  /\ ~Idling /\ statement.ops # << >>
  /\ LET op == Head(statement.ops) IN
     /\ uniques' = IndexAll(uniques, op, last + 1)
     /\ live' = LiveOp(live, op, last + 1) /\ UNCHANGED group
     /\ last' = last + Len(op.rows)
     /\ statement' = [statement EXCEPT !.ops = Tail(@)]
  /\ UNCHANGED <<constrained, tableFaults, suspects>>

\* The next record, or block, of the statement.
AppendRecords ==
  /\ ~Idling /\ statement.ops # << >>
  /\ LET op == Head(statement.ops) IN
     /\ uniques' = IndexAll(uniques, op, last + 1)
     /\ IF group = NoGroup THEN live' = LiveOp(live, op, last + 1) /\ UNCHANGED group
        ELSE group' = Append(group, [op |-> op, first |-> last + 1]) /\ UNCHANGED live
     /\ last' = last + Len(op.rows)
     /\ statement' = [statement EXCEPT !.ops = Tail(@)]
  /\ UNCHANGED <<constrained, tableFaults, suspects>>

\* The statement is answered.  A rejection outside a transaction leaves what was
\* appended; inside one, the commit that runs the statement aborts the group, and the
\* indexes are rebuilt.
FinishStatement ==
  /\ ~Idling /\ statement.ops = << >>
  /\ statement' = NoStatement
  /\ IF ~statement.ok /\ group # NoGroup
       THEN group' = NoGroup /\ uniques' = Rebuilt(uniques, live)
       ELSE UNCHANGED <<group, uniques>>
  /\ UNCHANGED <<constrained, live, last, tableFaults, suspects>>

\* Mutant of AppendFails: the rebuild is left to the next start.
AppendFailsQuietly ==
  /\ ~Idling /\ statement.ops # << >> /\ tableFaults < MaxTableFaults
  /\ statement' = NoStatement /\ group' = NoGroup /\ tableFaults' = tableFaults + 1
  /\ UNCHANGED <<constrained, live, last, uniques, suspects>>

\* The WAL refuses a record: the statement is rejected and the indexes are rebuilt.
AppendFails ==
  /\ ~Idling /\ statement.ops # << >> /\ tableFaults < MaxTableFaults
  /\ statement' = NoStatement /\ group' = NoGroup /\ tableFaults' = tableFaults + 1
  /\ uniques' = Rebuilt(uniques, live)
  /\ UNCHANGED <<constrained, live, last, suspects>>

-----------------------------------------------------------------------------
(* The write group of a committing transaction *)

BeginGroup ==
  /\ Idling /\ group = NoGroup
  /\ group' = << >>
  /\ UNCHANGED <<constrained, live, last, uniques, statement, tableFaults, suspects>>

\* commit_external_write_group: the WriteCommit record makes the group visible.
CommitGroup ==
  /\ Idling /\ group # NoGroup
  /\ live' = FoldLeft(LAMBDA rowset, r : LiveOp(rowset, r.op, r.first), live, group)
  /\ group' = NoGroup
  /\ UNCHANGED <<constrained, last, uniques, statement, tableFaults, suspects>>

\* abort_external_write_group
AbortGroup ==
  /\ Idling /\ group # NoGroup
  /\ group' = NoGroup /\ uniques' = Rebuilt(uniques, live)
  /\ UNCHANGED <<constrained, live, last, statement, tableFaults, suspects>>

\* The server stops and starts again; the indexes are built from the live rows.
CrashAndRestart ==
  /\ tableFaults < MaxTableFaults
  /\ tableFaults' = tableFaults + 1
  /\ statement' = NoStatement /\ group' = NoGroup
  /\ uniques' = Rebuilt(uniques, live)
  /\ UNCHANGED <<constrained, live, last, suspects>>

-----------------------------------------------------------------------------
MutationInit ==
  /\ constrained \in SUBSET {"pk", "uk"}
  /\ live = NoFunction /\ last = 0
  /\ uniques = [i \in constrained |-> NewIndex(TRUE, FALSE, FALSE)]
  /\ statement = NoStatement /\ group = NoGroup
  /\ tableFaults = 0 /\ suspects = {}

Sources == {"values", "select", "returning"}
MutationNext ==
  \/ \E rs \in UNION {[1..n -> Rows \cup {Invalid}] : n \in 1..StatementRows}, source \in Sources :
       \E mode \in {"plain", "ignore", "replace", "ondup"} : Insert(mode, source, rs)
  \/ \E where \in {{row} : row \in Rows} \cup {Rows}, pushed \in BOOLEAN, limit \in {1, MaxRecords} :
       \/ Delete(where, pushed, limit)
       \/ \E field \in {"k", "v"}, value \in FieldValues \cup {Null} :
            (field = "v" => value # Null) /\ Update(field, value, where, pushed, limit)
  \/ AppendRecords \/ FinishStatement \/ AppendFails
  \/ BeginGroup \/ CommitGroup \/ AbortGroup
  \/ CrashAndRestart

-----------------------------------------------------------------------------
(* Properties *)

\* The type of the state; the ids of live rows and of the group are below last.
MutationTypeOK ==
  /\ DOMAIN live \subseteq 1..last /\ last <= MaxRecords
  /\ \A id \in DOMAIN live : live[id] \in Rows
  /\ DOMAIN uniques = constrained
  /\ group # NoGroup => \A n \in DOMAIN group : group[n].first <= last
  /\ suspects \subseteq {"ignore", "replace", "ondup", "update", "plain", "delete"}

\* Two live rows never share a unique key, whatever appends fail and whenever the
\* server stops, as long as no statement was of a form that does not keep keys
\* unique: INSERT IGNORE ... VALUES, REPLACE or ON DUPLICATE KEY UPDATE of several
\* rows or with several unique indexes, an UPDATE of a key field, or a second
\* statement on the table in one transaction.
UniqueKeysHold ==
  suspects = {} =>
    \A i \in constrained : \A a, b \in DOMAIN live :
      KeyOf(i, live[a]) = KeyOf(i, live[b]) => a = b

\* Between statements and transactions every unique index has exactly the keys of the
\* live rows, each with the id of its row: after rejected statements, failed appends,
\* aborted groups and restarts alike.
UniqueIndexesAreExact ==
  Idling /\ group = NoGroup /\ suspects = {} =>
    \A i \in constrained, x \in FieldValues :
      RowRefsForKey(uniques[i], x) = SortedSeq({id \in DOMAIN live : KeyOf(i, live[id]) = x})

\* Keys are unique in the rows, and the indexes that keep them so hold those rows.
UniquenessHolds == UniqueKeysHold /\ UniqueIndexesAreExact

\* What SQL asks of an INSERT, row by row, on a bag of rows.
BagOf(rowset) == [row \in Rows |-> Cardinality({id \in DOMAIN rowset : rowset[id] = row})]
Meets(bag, row) ==
  {r \in Rows : bag[r] > 0 /\ \E i \in constrained : KeyOf(i, r) = KeyOf(i, row)}
ReferenceRow(acc, mode, row) ==
  LET met == Meets(acc.bag, row)
  IN  IF ~Valid(row) THEN Refused(acc)
      ELSE IF met = {} THEN [acc EXCEPT !.bag[row] = @ + 1]
      ELSE CASE mode = "plain"   -> Refused(acc)
             [] mode = "ignore"  -> acc
             [] mode = "replace" -> [acc EXCEPT !.bag = [r \in Rows |-> IF r \in met \ {row} THEN 0
                                                           ELSE IF r = row THEN 1 ELSE @[r]]]
             [] OTHER -> LET old == CHOOSE r \in met : TRUE
                             new == [old EXCEPT !.v = row.v]
                             rest == [acc.bag EXCEPT ![old] = @ - 1]
                         IN  [acc EXCEPT !.bag = [rest EXCEPT ![new] = @ + 1]]
ReferenceInsert(bag, req) ==
  FoldLeft(LAMBDA acc, row : IF acc.ok THEN ReferenceRow(acc, req.mode, row) ELSE acc,
           [bag |-> bag, ok |-> TRUE], req.rows)

\* Once all its records are appended, an INSERT in any of its forms that keep keys
\* unique has had the effect SQL gives it, or none at all when it is rejected: the
\* fast path over the runtime indexes, cold or warm, the general path and the split
\* into blocks agree with one row-by-row reference.
InsertMatchesReference ==
  ~Idling /\ statement.ops = << >> /\ group = NoGroup /\ suspects = {}
    /\ statement.request.mode \notin {"update", "delete"} =>
    LET ref == ReferenceInsert(BagOf(statement.before), statement.request) IN
    /\ statement.ok = ref.ok
    /\ BagOf(live) = IF ref.ok THEN ref.bag ELSE BagOf(statement.before)

\* A transaction's statements reach the live rows all together with its commit or not
\* at all: while its group is open, and when a statement of it is rejected, an append
\* fails or the server stops, the live rows stay as they were.
GroupsAreAllOrNothing ==
  [][group # NoGroup /\ live' # live => statement = NoStatement /\ group' = NoGroup]_mutationVars
=============================================================================
