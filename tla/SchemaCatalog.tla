--------------------------- MODULE SchemaCatalog ---------------------------
(***************************************************************************)
(* The catalog of one database and the DDL statements that change it.  A   *)
(* statement changes the catalog in memory, appends records to the         *)
(* database's stream and to the entity's own stream, and writes or removes *)
(* files; any of these steps may fail, and the process may stop between    *)
(* two of them.  A restart loads the last saved image of the catalog and   *)
(* replays the database's stream over it.  A statement holds the           *)
(* application's write lock from its first step to its last.               *)
(***************************************************************************)
EXTENDS Integers, Sequences, FiniteSets, SequencesExt

CONSTANTS Names,          \* names of tables and of SQL-backed objects
          Columns,        \* columns a table may have
          Key,            \* the column every table is created with
          MaxStatements,  \* statements of a behaviour
          MaxSqlObjects,  \* of these, the ones that create an SQL-backed object
          MaxFailures,    \* steps that fail
          MaxCrashes      \* stops of the process

ASSUME SchemaBounds == Key \in Columns /\ MaxStatements \in Nat /\ MaxSqlObjects \in Nat
                       /\ MaxFailures \in Nat /\ MaxCrashes \in Nat

VARIABLES catalog,   \* the catalog in memory
          image,     \* the catalog file
          resaved,   \* the catalog file was saved by a process that had replayed
          log,       \* the database's stream
          running,   \* <<>>, or the one statement under way
          doubt,     \* names a statement was rejected or cut short on, and not dropped since
          marked,    \* names that have ever been in doubt
          reused,    \* the database's name was dropped and created again
          process,   \* "up", "down" or "refused"
          spent      \* what is used of the three bounds

catalogVars == <<catalog, image, resaved, log, running, doubt, marked, reused, process, spent>>

Absent == [kind |-> "none", id |-> 0, rev |-> 0, fields |-> {}, indexes |-> {}, sql |-> 0]
Empty == [exists |-> TRUE, epoch |-> 0, ents |-> [n \in Names |-> Absent]]
NoCatalog == [Empty EXCEPT !.exists = FALSE]

(* The indexes of one column derived from the schema are recomputed        *)
(* whenever the schema is set, and left out.  An index is named by its     *)
(* statement, or its name is composed from its fields.                     *)
Composite == [id |-> Columns, fields |-> Columns, origin |-> "derived"]
UserIndex(named, c) == [id |-> IF named THEN {"name"} ELSE {c}, fields |-> {c}, origin |-> "user"]

NewTable(id, fields) == [Absent EXCEPT !.kind = "table", !.id = id, !.fields = fields]

Bumped(c) == [c EXCEPT !.epoch = @ + 1]
Accepted(c, e) == IF e > c.epoch THEN [c EXCEPT !.epoch = e] ELSE c
Put(c, n, ent) == [c EXCEPT !.ents[n] = ent]
Dropped(c, n) == Bumped(Put(c, n, Absent))
WithIndex(c, n, index) == Bumped([c EXCEPT !.ents[n].indexes = @ \cup {index}])
WithoutIndex(c, n, index) == Bumped([c EXCEPT !.ents[n].indexes = @ \ {index}])
Registered(c, n, ent) == Bumped(Put(c, n, ent))
MergedAll(indexes, fields) == indexes
Merged(indexes, fields) == {i \in indexes : i.fields \subseteq fields}

(***************************************************************************)
(* The records of the database's stream.                                   *)
(***************************************************************************)
Record == [kind |-> "", name |-> "", act |-> "", epoch |-> 0, rev |-> 0, id |-> 0,
           fields |-> {}, index |-> Composite, obj |-> "", sql |-> 0]
SchemaChange(n, rev, e, id, fields) ==
  [Record EXCEPT !.kind = "schema", !.name = n, !.rev = rev, !.epoch = e, !.id = id, !.fields = fields]
TableLifecycle(n, act, e, id, fields) ==
  [Record EXCEPT !.kind = "table", !.name = n, !.act = act, !.epoch = e, !.id = id, !.fields = fields]
IndexLifecycle(n, act, e, index) ==
  [Record EXCEPT !.kind = "index", !.name = n, !.act = act, !.epoch = e, !.index = index]
SqlDefinition(n, obj, act, e, sql) ==
  [Record EXCEPT !.kind = "sql", !.name = n, !.obj = obj, !.act = act, !.epoch = e, !.sql = sql]

(***************************************************************************)
(* Replaying one record.  The result says whether the replay goes on and,  *)
(* if not, which record ended it.                                          *)
(***************************************************************************)
Ok(c) == [ok |-> TRUE, c |-> c, by |-> Record]
Broken(c, r) == [ok |-> FALSE, c |-> c, by |-> r]

ApplySchemaChangeAnyRevision(c, r) ==
  LET ent == c.ents[r.name]
      table == IF ent.kind = "table" THEN ent ELSE NewTable(r.id, r.fields)
  IN  CASE ent.kind \notin {"table", "none"} -> Broken(c, r)
        [] r.rev <= table.rev + 1 -> Ok(Put(c, r.name, table))
        [] OTHER -> Ok(Accepted(Put(c, r.name, [table EXCEPT !.rev = r.rev, !.fields = r.fields,
                                                  !.indexes = Merged(@, r.fields)]), r.epoch))

(* A table that is not there is registered first, under the record's       *)
(* identity or, when the record names none, under a fresh one (0).         *)
ApplySchemaChange(c, r) ==
  LET ent == c.ents[r.name]
      table == IF ent.kind = "table" THEN ent ELSE NewTable(r.id, r.fields)
  IN  CASE ent.kind \notin {"table", "none"} -> Broken(c, r)
        [] r.rev <= table.rev -> Ok(Put(c, r.name, table))
        [] OTHER -> Ok(Accepted(Put(c, r.name, [table EXCEPT !.rev = r.rev, !.fields = r.fields,
                                                  !.indexes = Merged(@, r.fields)]), r.epoch))

ApplyTableLifecycle(c, r) ==
  LET ent == c.ents[r.name] IN
  IF r.act = "create"
  THEN CASE ent.kind = "table" -> Ok(Accepted(c, r.epoch))
         [] ent.kind = "none" -> Ok(Accepted(Put(c, r.name, NewTable(r.id, r.fields)), r.epoch))
         [] OTHER -> Broken(c, r)
  ELSE IF ent.kind = "table" THEN Ok(Accepted(Dropped(c, r.name), r.epoch))
       ELSE Ok(Accepted(c, r.epoch))

ApplyIndexLifecycleStrict(c, r) ==
  LET ent == c.ents[r.name]
      others == {i \in ent.indexes : i.id # r.index.id}
  IN  CASE ent.kind # "table" -> Broken(c, r)
        [] r.act = "drop" -> Ok(Accepted(Put(c, r.name, [ent EXCEPT !.indexes = others]), r.epoch))
        [] OTHER -> Ok(Accepted(Put(c, r.name, [ent EXCEPT !.indexes = others \cup {r.index}]), r.epoch))

(* A record about a table that is not there is skipped as stale.           *)
ApplyIndexLifecycle(c, r) ==
  LET ent == c.ents[r.name]
      others == {i \in ent.indexes : i.id # r.index.id}
  IN  CASE ent.kind # "table" -> Ok(c)
        [] r.act = "drop" -> Ok(Accepted(Put(c, r.name, [ent EXCEPT !.indexes = others]), r.epoch))
        [] r.index.fields \subseteq ent.fields ->
             Ok(Accepted(Put(c, r.name, [ent EXCEPT !.indexes = others \cup {r.index}]), r.epoch))
        [] OTHER -> Broken(c, r)

ApplySqlDefinitionOnce(c, r) ==
  LET ent == c.ents[r.name] IN
  IF r.act = "upsert"
  THEN CASE ent.kind = "none" -> Ok(Registered(c, r.name, [Absent EXCEPT !.kind = r.obj, !.sql = r.sql]))
         [] OTHER -> Ok(Accepted(c, r.epoch))
  ELSE IF ent.kind = r.obj THEN Ok(Accepted(Dropped(c, r.name), r.epoch))
       ELSE Ok(Accepted(c, r.epoch))

ApplySqlDefinition(c, r) ==
  LET ent == c.ents[r.name] IN
  IF r.act = "upsert"
  THEN CASE ent.kind = r.obj -> Ok(Accepted(Put(c, r.name, [ent EXCEPT !.sql = r.sql]), r.epoch))
         [] ent.kind = "none" -> Ok(Registered(c, r.name, [Absent EXCEPT !.kind = r.obj, !.sql = r.sql]))
         [] OTHER -> Broken(c, r)
  ELSE IF ent.kind = r.obj THEN Ok(Accepted(Dropped(c, r.name), r.epoch))
       ELSE Ok(Accepted(c, r.epoch))

ApplyRecord(state, r) ==
  LET c == state.c IN
  IF ~state.ok \/ r.epoch < c.epoch THEN state
  ELSE CASE r.kind = "schema" -> ApplySchemaChange(c, r)
         [] r.kind = "table" -> ApplyTableLifecycle(c, r)
         [] r.kind = "index" -> ApplyIndexLifecycle(c, r)
         [] r.kind = "sql" -> ApplySqlDefinition(c, r)

(* Loading a catalog file composes the name of every index again.          *)
Loaded(c) ==
  [c EXCEPT !.ents = [n \in Names |->
     [c.ents[n] EXCEPT !.indexes = {[i EXCEPT !.id = i.fields] : i \in @}]]]

Replayed == FoldLeft(ApplyRecord, Ok(Loaded(image)), log)

(***************************************************************************)
(* A statement: the catalog it leaves in memory at once, the steps still   *)
(* to take, the catalog once they are taken, and the catalog when one      *)
(* fails.  A step appends to the database's stream ("log") or writes       *)
(* elsewhere ("rest"): to the entity's own stream, its metadata records    *)
(* and its snapshot file, which the replay does not read.  A failure of    *)
(* such a write has the effect of a failure of the append that follows it, *)
(* so only the ones after the last append are a step of their own.         *)
(***************************************************************************)
ToLog(r) == [to |-> "log", rec |-> r]
Rest == [to |-> "rest", rec |-> Record]

Idle == process = "up" /\ running = <<>> /\ spent.statements < MaxStatements

Begin(n, now, steps, done, undone, reverts) ==
  /\ Idle /\ catalog.exists
  /\ catalog' = now
  /\ running' = <<[name |-> n, steps |-> steps, done |-> done, undone |-> undone,
                   reverts |-> reverts, wrote |-> FALSE, drops |-> now.ents[n] = Absent]>>
  /\ spent' = [spent EXCEPT !.statements = @ + 1,
                            !.objects = IF catalog.ents[n].kind = "none" /\ now.ents[n].sql = 1 THEN @ + 1 ELSE @]
  /\ UNCHANGED <<image, resaved, log, doubt, marked, reused, process>>

(* The identity of a new table: one that no statement was given before.    *)
NextId == spent.statements + 1

(* The table starts at revision 0 and its record says revision 1; the      *)
(* composite index is logged before the table.                             *)
CreateTable(n, fields, composite) ==
  LET table == NewTable(NextId, fields)
      plain == Bumped(Put(catalog, n, table))
      now == IF composite THEN WithIndex(plain, n, Composite) ELSE plain
      e == now.epoch
  IN  /\ catalog.ents[n].kind = "none"
      /\ composite => fields = Columns
      /\ Begin(n, now,
               (IF composite THEN <<ToLog(IndexLifecycle(n, "create", e, Composite))>> ELSE <<>>)
                 \o <<ToLog(SchemaChange(n, 1, e, NextId, fields)),
                      ToLog(TableLifecycle(n, "create", e, NextId, fields)), Rest>>,
               now, now, FALSE)

CreateIndexKeptOnFailure(n, named, c) ==
  LET ent == catalog.ents[n]
      index == UserIndex(named, c)
      now == WithIndex(catalog, n, index)
  IN  /\ ent.kind = "table" /\ c \in ent.fields
      /\ \A i \in ent.indexes : i.id # index.id
      /\ Begin(n, now, <<ToLog(IndexLifecycle(n, "create", now.epoch, index))>>, now, now, TRUE)

CreateIndex(n, named, c) ==
  LET ent == catalog.ents[n]
      index == UserIndex(named, c)
      now == WithIndex(catalog, n, index)
      dropped == WithoutIndex(now, n, index)
  IN  /\ ent.kind = "table" /\ c \in ent.fields
      /\ \A i \in ent.indexes : i.id # index.id
      /\ Begin(n, now, <<ToLog(IndexLifecycle(n, "create", now.epoch, index))>>, now, dropped, TRUE)

(* A drop that cannot be logged creates the index again, as a user's.      *)
DropIndex(n, index) ==
  LET ent == catalog.ents[n]
      now == WithoutIndex(catalog, n, index)
      again == WithIndex(now, n, [index EXCEPT !.origin = "user"])
  IN  Begin(n, now, <<ToLog(IndexLifecycle(n, "drop", catalog.epoch + 1, index))>>, now, again, TRUE)

AlterTableTwoAhead(n, fields) ==
  LET ent == catalog.ents[n]
      altered == [ent EXCEPT !.rev = @ + 1, !.fields = fields, !.indexes = Merged(@, fields)]
      done == Accepted(Put(catalog, n, altered), catalog.epoch + 1)
  IN  /\ ent.kind = "table" /\ fields # ent.fields
      /\ Begin(n, catalog, <<ToLog(SchemaChange(n, ent.rev + 1, catalog.epoch + 2, 0, fields)), Rest>>,
               done, catalog, TRUE)

(* The schema changes in memory only once both records are appended.       *)
AlterTable(n, fields) ==
  LET ent == catalog.ents[n]
      altered == [ent EXCEPT !.rev = @ + 1, !.fields = fields, !.indexes = Merged(@, fields)]
      done == Accepted(Put(catalog, n, altered), catalog.epoch + 1)
  IN  /\ ent.kind = "table" /\ fields # ent.fields
      /\ Begin(n, catalog, <<ToLog(SchemaChange(n, ent.rev + 1, catalog.epoch + 1, 0, fields)), Rest>>,
               done, catalog, TRUE)

(* The four kinds of SQL-backed object.  The dimensions of an OLAP view are*)
(* in the catalog and not in its record.                                   *)
CreateSqlObject(n, kind, dimensions) ==
  LET ent == [Absent EXCEPT !.kind = kind, !.sql = 1, !.fields = dimensions]
      now == Bumped(Registered(catalog, n, ent))
  IN  /\ catalog.ents[n].kind = "none" /\ spent.objects < MaxSqlObjects
      /\ Begin(n, now, <<ToLog(SqlDefinition(n, kind, "upsert", now.epoch, 1)), Rest>>, now, now, FALSE)

CreateView(n) == CreateSqlObject(n, "view", {})
CreateOlapView(n) == CreateSqlObject(n, "olap", {Key})
CreateTrigger(n) == CreateSqlObject(n, "trigger", {})
CreateStoredProcedure(n) == CreateSqlObject(n, "procedure", {})

AlterView(n, sql) ==
  LET ent == catalog.ents[n]
      now == Bumped(Put(catalog, n, [ent EXCEPT !.sql = sql]))
  IN  /\ ent.kind = "view" /\ sql # ent.sql
      /\ Begin(n, now, <<ToLog(SqlDefinition(n, "view", "upsert", now.epoch, sql)), Rest>>, now, now, FALSE)

(* The snapshot file and the entity's stream go first, then the record.    *)
(* No statement drops an OLAP view.                                        *)
DropEntity(n) ==
  LET ent == catalog.ents[n]
      now == Dropped(catalog, n)
      record == IF ent.kind = "table" THEN TableLifecycle(n, "drop", now.epoch, 0, {})
                ELSE SqlDefinition(n, ent.kind, "drop", now.epoch, 0)
  IN  /\ ent.kind \notin {"none", "olap"}
      /\ Begin(n, now, <<ToLog(record)>> \o (IF ent.kind = "table" THEN <<Rest>> ELSE <<>>), now, now, FALSE)

(***************************************************************************)
(* The steps of the running statement.                                     *)
(***************************************************************************)
Statement == running[1]

StepTaken ==
  /\ process = "up" /\ running # <<>>
  /\ LET step == Head(Statement.steps)
         rest == Tail(Statement.steps)
     IN  /\ log' = IF step.to = "log" THEN Append(log, step.rec) ELSE log
         /\ IF rest = <<>>
            THEN /\ catalog' = Statement.done
                 /\ running' = <<>>
                 /\ doubt' = IF Statement.drops THEN doubt \ {Statement.name} ELSE doubt
            ELSE /\ running' = <<[Statement EXCEPT !.steps = rest, !.wrote = TRUE]>>
                 /\ UNCHANGED <<catalog, doubt>>
  /\ UNCHANGED <<image, resaved, marked, reused, process, spent>>

StepFails ==
  /\ process = "up" /\ running # <<>> /\ spent.failures < MaxFailures
  /\ catalog' = Statement.undone
  /\ running' = <<>>
  /\ doubt' = IF Statement.reverts /\ ~Statement.wrote THEN doubt ELSE doubt \cup {Statement.name}
  /\ marked' = marked \cup doubt'
  /\ spent' = [spent EXCEPT !.failures = @ + 1]
  /\ UNCHANGED <<image, resaved, log, reused, process>>

(* A node that joins an affinity group saves the catalog file.             *)
SaveCatalog ==
  /\ process = "up" /\ running = <<>> /\ catalog.exists
  /\ image # catalog
  /\ image' = catalog /\ resaved' = (spent.crashes > 0)
  /\ UNCHANGED <<catalog, log, running, doubt, marked, reused, process, spent>>

(* CREATE DATABASE does not ask whether the database exists, and its       *)
(* stream is the one every database of that name has had.                  *)
CreateDatabase ==
  /\ Idle
  /\ catalog' = Empty /\ image' = Empty /\ resaved' = FALSE
  /\ reused' = (reused \/ log # <<>>)
  /\ spent' = [spent EXCEPT !.statements = @ + 1]
  /\ UNCHANGED <<log, running, doubt, marked, process>>

DropDatabase ==
  /\ Idle /\ catalog.exists
  /\ catalog' = NoCatalog /\ image' = NoCatalog /\ resaved' = FALSE
  /\ spent' = [spent EXCEPT !.statements = @ + 1]
  /\ UNCHANGED <<log, running, doubt, marked, reused, process>>

(* The catalog file cannot be removed, or the process stops before it is.  *)
DropDatabaseFails ==
  /\ Idle /\ catalog.exists /\ spent.failures < MaxFailures
  /\ catalog' = NoCatalog
  /\ doubt' = Names /\ marked' = Names
  /\ spent' = [spent EXCEPT !.statements = @ + 1, !.failures = @ + 1]
  /\ UNCHANGED <<image, resaved, log, running, reused, process>>

Crash ==
  /\ process = "up" /\ spent.crashes < MaxCrashes
  /\ process' = "down"
  /\ catalog' = NoCatalog
  /\ running' = <<>>
  /\ doubt' = IF running = <<>> THEN doubt ELSE doubt \cup {Statement.name}
  /\ marked' = marked \cup doubt'
  /\ spent' = [spent EXCEPT !.crashes = @ + 1]
  /\ UNCHANGED <<image, resaved, log, reused>>

(* Bootstrap loads the catalog files and replays the stream of each; a     *)
(* record that cannot be applied ends it.                                  *)
Restart ==
  /\ process = "down"
  /\ IF ~image.exists THEN process' = "up" /\ catalog' = NoCatalog
     ELSE /\ process' = IF Replayed.ok THEN "up" ELSE "refused"
          /\ catalog' = IF Replayed.ok THEN Replayed.c ELSE NoCatalog
  /\ UNCHANGED <<image, resaved, log, running, doubt, marked, reused, spent>>

TableDdl ==
  \E n \in Names :
    \/ \E composite \in BOOLEAN, fields \in {{Key}, Columns} : CreateTable(n, fields, composite)
    \/ \E c \in Columns \ {Key}, named \in BOOLEAN : CreateIndex(n, named, c)
    \/ \E index \in catalog.ents[n].indexes : DropIndex(n, index)
    \/ \E fields \in {{Key}, Columns} : AlterTable(n, fields)
    \/ DropEntity(n)

SqlDdl ==
  \E n \in Names :
    \/ CreateView(n)
    \/ CreateOlapView(n)
    \/ CreateTrigger(n)
    \/ CreateStoredProcedure(n)
    \/ \E sql \in 1..2 : AlterView(n, sql)

CatalogInit ==
  /\ catalog = Empty /\ image = Empty /\ resaved = FALSE
  /\ log = <<>> /\ running = <<>> /\ doubt = {} /\ marked = {} /\ reused = FALSE
  /\ process = "up"
  /\ spent = [statements |-> 0, objects |-> 0, failures |-> 0, crashes |-> 0]

CatalogNext ==
  \/ TableDdl
  \/ SqlDdl
  \/ StepTaken
  \/ StepFails
  \/ SaveCatalog
  \/ CreateDatabase
  \/ DropDatabase
  \/ DropDatabaseFails
  \/ Crash
  \/ Restart

-----------------------------------------------------------------------------
(* Type correctness of the catalog in memory and on disk: an index covers  *)
(* columns its table has, and no two indexes of a table share a name.      *)
CatalogTypeOK ==
  /\ process \in {"up", "down", "refused"}
  /\ \A c \in {catalog, image} : \A n \in Names :
       LET ent == c.ents[n] IN
       /\ ent.kind \in {"none", "table", "view", "olap", "trigger", "procedure"}
       /\ \A i, j \in ent.indexes : i.fields \subseteq ent.fields /\ (i.id = j.id => i = j)
  /\ spent.statements <= MaxStatements /\ spent.failures <= MaxFailures

(* The restart that could come now.  Two cases are set apart: a database   *)
(* whose name was used before, and a catalog file saved by a process that  *)
(* had replayed the stream.  Registering an SQL-backed object at replay    *)
(* counts the epoch one up instead of accepting the record's, so such a    *)
(* file may carry an epoch that records before it also carry, or exceed.   *)
Restartable == process = "up" /\ running = <<>> /\ catalog.exists /\ ~reused /\ ~resaved
Certain == Names \ doubt

(* Replaying the stream over the saved image brings back every table, view,*)
(* trigger and procedure whose statement was answered as applied, with its *)
(* definition and, for a table, with the identity that names its rows'     *)
(* stream, and brings back nothing that was dropped.                       *)
ObjectsAreRestored(replayed) ==
  Restartable /\ replayed.ok =>
    \A n \in Certain : /\ replayed.c.ents[n].kind = catalog.ents[n].kind
                       /\ replayed.c.ents[n].id = catalog.ents[n].id
                       /\ replayed.c.ents[n].sql = catalog.ents[n].sql

(* A table comes back with the columns it has, unless the last ALTER TABLE *)
(* was the first since its CREATE TABLE: that one is logged with the       *)
(* revision of the CREATE TABLE's own record.                              *)
SchemasAreRestored(replayed) ==
  Restartable /\ replayed.ok =>
    \A n \in Certain : catalog.ents[n].kind = "table" /\ catalog.ents[n].rev # 1 => replayed.c.ents[n].fields = catalog.ents[n].fields

(* An index of CREATE INDEX comes back, and a dropped one does not, on a   *)
(* table no ALTER TABLE of which was skipped, unless the catalog file was  *)
(* saved with an index under a name of the user's: loading composes the    *)
(* name anew, and a logged DROP INDEX no longer finds it.  A composite     *)
(* index of CREATE TABLE is logged before its table and is not among them. *)
SkippedAlter(n) == \E i \in DOMAIN log : /\ log[i].kind = "schema" /\ log[i].name = n
                                          /\ log[i].rev = 1 /\ log[i].id = 0
ByStatement(ent) == {i.fields : i \in ent.indexes} \ {Columns}
IndexesAreRestored(replayed) ==
  Restartable /\ replayed.ok =>
    \A n \in Certain :
      /\ ~SkippedAlter(n)
      /\ \A i \in image.ents[n].indexes : i.id = i.fields
      => ByStatement(replayed.c.ents[n]) = ByStatement(catalog.ents[n])

(* The replay reaches an epoch at most one ahead of the catalog's, so that *)
(* no record a later statement appends is skipped as older than the        *)
(* catalog it is replayed over.                                            *)
ReplayNeverRunsAhead(replayed) ==
  Restartable /\ replayed.ok => replayed.c.epoch <= catalog.epoch + 1

(* Bootstrap refuses a stream only for a record about a name on which some *)
(* statement was rejected or cut short, or for an index on a column whose  *)
(* ALTER TABLE the replay skipped, because it carries the same revision as *)
(* the CREATE TABLE before it.                                             *)
RefusalHasAKnownCause(replayed) ==
  image.exists /\ ~reused /\ ~resaved /\ ~replayed.ok =>
    \/ replayed.by.name \in marked
    \/ replayed.by.kind = "index" /\ SkippedAlter(replayed.by.name)

(* A restart either brings back the catalog that was in memory, objects,   *)
(* columns and indexes, at an epoch that later records can follow, or is   *)
(* refused for one of the known causes.                                    *)
RestartRestoresCatalog ==
  LET replayed == Replayed IN
  /\ RefusalHasAKnownCause(replayed)
  /\ ObjectsAreRestored(replayed)
  /\ SchemasAreRestored(replayed)
  /\ IndexesAreRestored(replayed)
  /\ ReplayNeverRunsAhead(replayed)
=============================================================================
