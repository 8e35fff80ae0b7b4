--------------------------- MODULE SchemaEvolution ---------------------------
(****************************************************************************)
(* ALTER TABLE and the rows that were written before it.                    *)
(*                                                                          *)
(* A row is stored without column names: encode_row_payload writes one      *)
(* optional value per column, in the order of the columns' sequence numbers,*)
(* and decode_row_payload finds a column again by its position.  Which      *)
(* position depends on the schema at the time of the READ, so every ALTER   *)
(* TABLE changes what the stored rows mean unless it also rewrites them.    *)
(*                                                                          *)
(* execute_alter_table holds the application's write lock throughout, so    *)
(* no other statement interleaves with it.  Its steps are actions here      *)
(* because each of them may fail and leaves its own traces: the table's     *)
(* status, the active schema change, and the files of the migration         *)
(* executor.  The executor looks for the table's records in the file named  *)
(* after the plain stream key.  The write-ahead log keeps them in the file  *)
(* named after the HASH of that key, so what the executor reads, stages and *)
(* installs is a second file, `files', that no reader of the table opens.   *)
(*                                                                          *)
(* What the schema is after a restart is the subject of SchemaCatalog.      *)
(****************************************************************************)
EXTENDS Integers, Sequences, FiniteSets, SequencesExt

CONSTANTS ColumnNames,   \* column names
          MaxOperations, \* operations of one ALTER TABLE statement
          MaxChanges,    \* operations of all ALTER TABLE statements together
          MaxStoredRows, \* rows ever inserted
          MaxMigrationFaults \* failing steps of the migration

ASSUME EvolutionBounds ==
    /\ Cardinality(ColumnNames) >= 2
    /\ {MaxOperations, MaxChanges, MaxStoredRows, MaxMigrationFaults} \subseteq Nat

VARIABLES fields,    \* TableSchema::fields: a sequence of FieldDef
          revision,  \* schema_revision of the table
          status,    \* ObjectStatus of the table
          phase,     \* phase of active_schema_change, or "none"
          job,       \* the ALTER TABLE in progress, or NoJob
          stored,    \* the table's stream: the rows in it
          files,     \* the executor's files: which of them exist
          used       \* operations, rows and faults so far

evolutionVars == <<fields, revision, status, phase, job, stored, files, used>>

FieldTypes == {"int", "text"}

(* A column: `id' tells columns apart for the properties, the code has name, *)
(* sequence number and type.                                                 *)
Field(name, seqno, type, id) ==
    [name |-> name, seqno |-> seqno, type |-> type, id |-> id]

NoJob == [stage |-> "none"]

NoValue == [of |-> <<0, 0>>, numeric |-> FALSE, type |-> "null"]

NamesOf(schema) == {schema[i].name : i \in DOMAIN schema}

FieldNamed(schema, name) ==
    schema[CHOOSE i \in DOMAIN schema : schema[i].name = name]

MaxSeqno(schema) ==
    IF schema = <<>> THEN 0
    ELSE CHOOSE n \in {schema[i].seqno : i \in DOMAIN schema} :
            \A i \in DOMAIN schema : schema[i].seqno <= n

-----------------------------------------------------------------------------
(* The row payload *)

(* The same, in the order the columns stand in the schema. *)
FieldNamesByPosition(schema) == schema

(* Columns in the order of their sequence numbers. *)
FieldNamesByOrdinal(schema) ==
    SortSeq(schema, LAMBDA l, r : l.seqno < r.seqno)

(* A value as the column's type stores it.  A value the type cannot hold is  *)
(* an error of the conversion.                                               *)
Convertible(value, type) == type = "text" \/ value.numeric

Converted(value, type) == [value EXCEPT !.type = type]

(* encode_row_payload: a value that does not convert is stored as it is. *)
EncodeRow(schema, row) ==
    LET ordered == FieldNamesByOrdinal(schema)
        Slot(f) == IF f.name \notin DOMAIN row THEN NoValue
                   ELSE IF Convertible(row[f.name], f.type)
                        THEN Converted(row[f.name], f.type)
                        ELSE row[f.name]
    IN  [i \in DOMAIN ordered |-> Slot(ordered[i])]

(* The last test off by one. *)
UseSeqnoSlotsBeyond(length, count, highest) ==
    length > count /\ highest > count /\ highest > length

UseSeqnoSlotDecoding(length, count, highest) ==
    /\ length > count
    /\ highest > count
    /\ highest >= length

UsesSlots(schema, payload) ==
    UseSeqnoSlotDecoding(Len(payload), Len(schema), MaxSeqno(schema))

RowIndexForField(schema, payload, name) ==
    IF UsesSlots(schema, payload)
    THEN FieldNamed(schema, name).seqno
    ELSE CHOOSE i \in 1..Len(schema) : FieldNamesByOrdinal(schema)[i].name = name

ValueAt(payload, i) == IF i \in DOMAIN payload THEN payload[i] ELSE NoValue

(* decode_row_payload: a column without a value is absent from the row. *)
DecodeRow(schema, payload) ==
    LET At(n)   == ValueAt(payload, RowIndexForField(schema, payload, n))
        present == {n \in NamesOf(schema) : At(n) # NoValue}
    IN  [n \in present |-> At(n)]

-----------------------------------------------------------------------------
(* The operations of ALTER TABLE *)

Operations ==
    [op : {"add", "drop"}, name : ColumnNames, to : {"-"}]
      \cup {o \in [op : {"rename"}, name : ColumnNames, to : ColumnNames] : o.name # o.to}
      \cup [op : {"modify"}, name : ColumnNames, to : FieldTypes]

Without(schema, name) == SelectSeq(schema, LAMBDA f : f.name # name)

(* add_field, remove_field and update_field refuse a duplicate or a missing  *)
(* name; a renamed column keeps its number and moves to the end.             *)
Refused(schema, o) ==
    CASE o.op = "add"    -> o.name \in NamesOf(schema)
      [] o.op = "rename" -> o.name \notin NamesOf(schema) \/ o.to \in NamesOf(schema)
      [] OTHER           -> o.name \notin NamesOf(schema)

(* A new column numbered after the count of columns. *)
NextSeqnoByCount(schema) == Len(schema) + 1

NextSeqno(schema) == MaxSeqno(schema) + 1

Applied(schema, o, id) ==
    CASE o.op = "add"    -> Append(schema, Field(o.name, NextSeqno(schema), "text", id))
      [] o.op = "drop"   -> Without(schema, o.name)
      [] o.op = "rename" -> Append(Without(schema, o.name),
                                   [FieldNamed(schema, o.name) EXCEPT !.name = o.to])
      [] OTHER           -> [i \in DOMAIN schema |->
                               IF schema[i].name = o.name
                               THEN [schema[i] EXCEPT !.type = o.to] ELSE schema[i]]

(* The operations of a statement one after the other, up to the first that   *)
(* is refused.                                                               *)
Pending(schema, ops, id) ==
    FoldLeft(LAMBDA p, i :
                 IF p.refused \/ Refused(p.schema, ops[i]) THEN [p EXCEPT !.refused = TRUE]
                 ELSE [p EXCEPT !.schema = Applied(@, ops[i], id + i)],
             [schema |-> schema, refused |-> FALSE], [i \in DOMAIN ops |-> i])

-----------------------------------------------------------------------------
(* The migration executor *)

Rule(ops, kind) == SelectSeq(ops, LAMBDA o : o.op = kind)

Restricted(row, names) == [n \in DOMAIN row \cap names |-> row[n]]

Renamed(row, o) ==
    LET rest == DOMAIN row \ {o.name}
    IN  IF o.name \notin DOMAIN row THEN row
        ELSE [n \in rest \cup {o.to} |-> IF n \in rest THEN row[n] ELSE row[o.name]]

(* Empty bytes, the default of an added column. *)
EmptyBytes == [of |-> <<0, 0>>, numeric |-> FALSE, type |-> "text"]

(* The type changes a row meets are possible. *)
RowConverts(row, ops) ==
    \A i \in DOMAIN Rule(ops, "modify") :
        LET o == Rule(ops, "modify")[i]
        IN  o.name \in DOMAIN row => Convertible(row[o.name], o.to)

(* The row read under the schema the statement asks for. *)
TargetRow(payload, source, target) == DecodeRow(target, payload)

(* The row as it was written, under the schema before the statement. *)
SourceRow(payload, source, target) == DecodeRow(source, payload)

(* apply_schema_rules_to_payload: the operations grouped by kind, type       *)
(* changes first, then renames, removals and additions.                      *)
ApplyRules(payload, ops, source, target) ==
    LET row     == SourceRow(payload, source, target)
        typed   == FoldLeft(LAMBDA r, o : IF o.name \in DOMAIN r
                                          THEN [r EXCEPT ![o.name] = Converted(@, o.to)]
                                          ELSE r,
                            row, Rule(ops, "modify"))
        renamed == FoldLeft(Renamed, typed, Rule(ops, "rename"))
        removed == {Rule(ops, "drop")[i].name : i \in DOMAIN Rule(ops, "drop")}
        kept    == Restricted(renamed, ColumnNames \ removed)
        added   == {Rule(ops, "add")[i].name : i \in DOMAIN Rule(ops, "add")}
        full    == [n \in DOMAIN kept \cup added |->
                      IF n \in DOMAIN kept THEN kept[n] ELSE EmptyBytes]
    IN  EncodeRow(target, full)

(* rewrite_rows reads the records of the executor's own file, which no       *)
(* statement ever fills: nothing is rewritten, and nothing can fail to       *)
(* convert.                                                                  *)
RewriteSource == {}

-----------------------------------------------------------------------------
(* The table's status *)

CanTransition(from, to) == <<from, to>> \in
    {<<"Load", "Sync">>, <<"Load", "Ready">>, <<"Load", "Lock">>, <<"Load", "Indexing">>,
     <<"Sync", "Ready">>, <<"Sync", "Lock">>, <<"Sync", "Indexing">>,
     <<"Ready", "Sync">>, <<"Ready", "Lock">>, <<"Ready", "Indexing">>,
     <<"Lock", "Sync">>, <<"Lock", "Ready">>, <<"Lock", "Indexing">>,
     <<"Indexing", "Ready">>, <<"Indexing", "Sync">>, <<"Indexing", "Lock">>}

CanAdvance(from, to) ==
    from = to \/ <<from, to>> \in
        {<<"Locked", "Rewriting">>, <<"Rewriting", "Reindexing">>,
         <<"Reindexing", "Syncing">>, <<"Syncing", "Cutover">>}

(* begin_schema_change *)
Lock ==
    /\ phase = "none"
    /\ CanTransition(status, "Lock")
    /\ status' = "Lock"
    /\ phase' = "Locked"

(* The lock kept when a step fails. *)
ReleaseForgotten == UNCHANGED <<status, phase>>

(* release_schema_lock *)
Release ==
    /\ CanTransition(status, "Ready")
    /\ status' = "Ready"
    /\ phase' = "none"

-----------------------------------------------------------------------------
InitialFields ==
    LET first == CHOOSE c \in ColumnNames : TRUE
        rest  == ColumnNames \ {first}
    IN  <<Field(first, 1, "text", 1), Field(CHOOSE c \in rest : TRUE, 2, "text", 2)>>

EvolutionInit ==
    /\ fields = InitialFields
    /\ revision = 0
    /\ status = "Ready"
    /\ phase = "none"
    /\ job = NoJob
    /\ stored = {}
    /\ files = {}
    /\ used = [changes |-> 0, rows |-> 0, faults |-> 0]

InSeqnoOrder(schema) == SortSeq(schema, LAMBDA l, r : l.seqno < r.seqno)

Ids(schema) == [i \in DOMAIN schema |-> InSeqnoOrder(schema)[i].id]

Seqnos(schema) == [i \in DOMAIN schema |-> InSeqnoOrder(schema)[i].seqno]

(* A stored row: its payload, the columns it was written with, and the value *)
(* of each column as its writer meant it.                                    *)
StoredRow(n, row) ==
    [key     |-> n,
     payload |-> EncodeRow(fields, row),
     ids     |-> Ids(fields),
     seqnos  |-> Seqnos(fields),
     meant   |-> [id \in {FieldNamed(fields, c).id : c \in DOMAIN row} |->
                    row[CHOOSE c \in DOMAIN row : FieldNamed(fields, c).id = id].of]]

(* INSERT with a value for every column or for all but one; the values of    *)
(* every other row are numbers.                                              *)
Insert(omitted) ==
    /\ job = NoJob
    /\ used.rows < MaxStoredRows
    /\ LET n   == used.rows + 1
           row == [c \in NamesOf(fields) \ {omitted} |->
                     [of |-> <<n, FieldNamed(fields, c).id>>,
                      numeric |-> n % 2 = 1, type |-> "text"]]
       IN  stored' = stored \cup {StoredRow(n, row)}
    /\ used' = [used EXCEPT !.rows = @ + 1]
    /\ UNCHANGED <<fields, revision, status, phase, job, files>>

(* UPDATE of one column: the row is read, changed and written again under    *)
(* the current schema.                                                       *)
Update(r, c) ==
    /\ job = NoJob
    /\ used.rows < MaxStoredRows
    /\ r \in stored
    /\ c \in NamesOf(fields)
    /\ LET n   == used.rows + 1
           was == DecodeRow(fields, r.payload)
           row == [d \in DOMAIN was \cup {c} |->
                     IF d = c THEN [of |-> <<n, FieldNamed(fields, c).id>>,
                                    numeric |-> TRUE, type |-> "text"]
                     ELSE was[d]]
       IN  stored' = (stored \ {r}) \cup {StoredRow(n, row)}
    /\ used' = [used EXCEPT !.rows = @ + 1]
    /\ UNCHANGED <<fields, revision, status, phase, job, files>>

(* Parsing, the lock, and the operations on the pending schema.  A refused   *)
(* operation aborts the change.                                              *)
BeginAlter(ops) ==
    /\ job = NoJob
    /\ used.changes + Len(ops) <= MaxChanges
    /\ LET pending == Pending(fields, ops, Len(InitialFields) + used.changes)
       IN  IF pending.refused
           THEN UNCHANGED <<job, status, phase, used>>
           ELSE /\ Lock
                /\ job' = [stage |-> "locked", ops |-> ops, pending |-> pending.schema]
                /\ used' = [used EXCEPT !.changes = @ + Len(ops)]
    /\ UNCHANGED <<fields, revision, stored, files>>

(* rewrite_rows and rebuild_indexes: the records staged in memory. *)
RewriteRows ==
    /\ job.stage = "locked"
    /\ \A r \in RewriteSource : RowConverts(DecodeRow(fields, r.payload), job.ops)
    /\ job' = [job EXCEPT !.stage = "staged"]
    /\ UNCHANGED <<fields, revision, status, phase, stored, files, used>>

FlushTempImage ==
    /\ job.stage = "staged"
    /\ files' = files \cup {"temp"}
    /\ job' = [job EXCEPT !.stage = "flushed"]
    /\ UNCHANGED <<fields, revision, status, phase, stored, used>>

(* The staged file replaces the executor's file, by way of a backup that is  *)
(* removed at the end.                                                       *)
Cutover ==
    /\ job.stage = "flushed"
    /\ files' = {"final"}
    /\ job' = [job EXCEPT !.stage = "cutover"]
    /\ UNCHANGED <<fields, revision, status, phase, stored, used>>

(* What a failing cutover leaves: the file not moved aside; the staged file  *)
(* not installed, and the backup not moved back; the backup not removed.     *)
FailedCutover ==
    {files \ {"backup"}}
      \cup (IF "final" \in files THEN {{"temp", "backup"}, {"final", "backup"}} ELSE {})

(* A step that fails (file system, log, cache of the stream): the change is  *)
(* aborted and the statement rejected; the executor's files stay.            *)
Fail ==
    /\ job # NoJob
    /\ used.faults < MaxMigrationFaults
    /\ Release
    /\ job' = NoJob
    /\ files' \in CASE job.stage = "staged"  -> {files, files \cup {"temp"}}
                   [] job.stage = "flushed" -> FailedCutover
                   [] OTHER                 -> {files}
    /\ used' = [used EXCEPT !.faults = @ + 1]
    /\ UNCHANGED <<fields, revision, stored>>

(* finalize_schema_change: the new schema, and the table from Lock by way of *)
(* Sync to Ready while the change goes through Syncing and Cutover.          *)
FinalizeSchemaChange(schema) ==
    /\ CanTransition(status, "Sync") /\ CanTransition("Sync", "Ready")
    /\ CanAdvance("Reindexing", "Syncing") /\ CanAdvance("Syncing", "Cutover")
    /\ fields' = schema
    /\ revision' = revision + 1
    /\ status' = "Ready"
    /\ phase' = "none"

(* SchemaChangeTx::commit: Rewriting, both records appended, Reindexing, and *)
(* the change finalized.                                                     *)
Commit ==
    /\ job.stage = "cutover"
    /\ CanAdvance(phase, "Rewriting") /\ CanAdvance("Rewriting", "Reindexing")
    /\ FinalizeSchemaChange(job.pending)
    /\ job' = NoJob
    /\ UNCHANGED <<stored, files, used>>

Statements == UNION {[1..n -> Operations] : n \in 1..MaxOperations}

EvolutionNext ==
    \/ \E c \in ColumnNames \cup {"-"} : Insert(c)
    \/ \E r \in stored, c \in ColumnNames : Update(r, c)
    \/ \E ops \in Statements : BeginAlter(ops)
    \/ RewriteRows
    \/ FlushTempImage
    \/ Cutover
    \/ Fail
    \/ Commit

-----------------------------------------------------------------------------
(* Properties *)

(* Column names and sequence numbers are unique in every schema the table    *)
(* gets, which is what TableSchema::validate asks and every position of a    *)
(* payload depends on, and the type of every variable.                       *)
EvolutionTypeOK ==
    /\ \A i, j \in DOMAIN fields :
          i # j => fields[i].name # fields[j].name /\ fields[i].seqno # fields[j].seqno
    /\ \A i \in DOMAIN fields : fields[i].type \in FieldTypes
    /\ revision \in 0..MaxChanges
    /\ status \in {"Ready", "Lock"}
    /\ phase \in {"none", "Locked"}
    /\ files \subseteq {"final", "temp", "backup"}

(* The schema lock lives exactly as long as the statement that took it: on   *)
(* every way out of ALTER TABLE, applied, refused or failed at any step of   *)
(* the migration, the table is Ready and no change is active, so the next    *)
(* ALTER TABLE is not answered "schema change in progress".                  *)
LockEndsWithTheStatement ==
    (job = NoJob) <=> (status = "Ready" /\ phase = "none")

KeptColumns(r) == {i \in DOMAIN fields : fields[i].id \in DOMAIN r.meant}

ReadsRight(r, i) ==
    LET row == DecodeRow(fields, r.payload)
    IN  /\ fields[i].name \in DOMAIN row
        /\ row[fields[i].name].of = r.meant[fields[i].id]

Gapless(r) == \A i \in DOMAIN r.seqnos : r.seqnos[i] = i

(* A row stored before any number of ALTERs that only added, renamed or      *)
(* retyped columns reads back every column it was written with, and reads    *)
(* nothing in a column it never had (decode_row_payload by position).        *)
GrownRowsReadBack ==
    \A r \in stored :
        IsPrefix(r.ids, Ids(fields)) =>
            /\ \A i \in KeptColumns(r) : ReadsRight(r, i)
            /\ \A n \in DOMAIN DecodeRow(fields, r.payload) :
                  FieldNamed(fields, n).id \in DOMAIN r.meant

(* A row written when the columns were numbered without gaps keeps its       *)
(* columns when others are dropped, as long as the payload is longer than    *)
(* the schema and only the last columns went or decoding by sequence number  *)
(* is chosen: this is what use_seqno_slot_decoding is for.                   *)
SlotsReadOldRows ==
    \A r \in stored :
        LET longer == Len(r.payload) > Len(fields)
            slots  == MaxSeqno(fields) >= Len(r.payload)
            prefix == IsPrefix(Ids(fields), r.ids)
        IN  Gapless(r) /\ longer /\ (slots \/ prefix) =>
                \A i \in KeptColumns(r) : ReadsRight(r, i)

(* The rewrite of the migration executor, given the rows of the table, keeps *)
(* every column the statement keeps: read under the new schema, a rewritten  *)
(* row has the values it had before.  Statements that give a dropped         *)
(* column's name to another column are left out: the rules are grouped by    *)
(* kind and lose the order the statement had.                                *)
RewriteKeepsRows ==
    job # NoJob =>
        LET reused == \E i, j \in DOMAIN job.ops :
                        job.ops[i].op = "drop" /\ job.ops[j].op # "drop"
                          /\ job.ops[i].name \in {job.ops[j].name, job.ops[j].to}
        IN  ~reused =>
              \A r \in stored :
                LET before == DecodeRow(fields, r.payload)
                    after  == DecodeRow(job.pending,
                                 ApplyRules(r.payload, job.ops, fields, job.pending))
                IN  RowConverts(before, job.ops) =>
                      \A i \in DOMAIN fields, j \in DOMAIN job.pending :
                        (fields[i].id = job.pending[j].id /\ fields[i].name \in DOMAIN before)
                          => /\ job.pending[j].name \in DOMAIN after
                             /\ after[job.pending[j].name].of = before[fields[i].name].of

(* Rows keep their values through ALTER TABLE, read under the new schema as  *)
(* they were stored or rewritten by the migration, within the limits above.  *)
RowsSurviveAlter == GrownRowsReadBack /\ SlotsReadOldRows /\ RewriteKeepsRows
=============================================================================
