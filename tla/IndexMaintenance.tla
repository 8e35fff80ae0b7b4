-------------------------- MODULE IndexMaintenance --------------------------
(***************************************************************************)
(* One index of one table over its life: kept by the statements of the     *)
(* table, built by CREATE INDEX, rebuilt after a failed append, saved with *)
(* a commit and restored at startup (runtime_index.rs,                     *)
(* runtime_index_snapshot.rs, wal_ops.rs, ddl_ops.rs).                     *)
(*                                                                         *)
(* `rows' are the live rows of the table as its WAL gives them: the        *)
(* transaction id of a row's record and the row's key.  The size and time  *)
(* of the WAL file, which a snapshot carries as its fingerprint, change    *)
(* with every record and every compaction: `head' stands for both.         *)
(***************************************************************************)
EXTENDS RuntimeIndex

CONSTANTS
  Keys,         \* key values, some of which fold together
  MaxHead,      \* bound on the changes of the WAL file
  ChunkLimit,   \* entries of a snapshot chunk file
  MaxFaults     \* bound on crashes and on failing writes

VARIABLES
  text,         \* the indexed field is a text field: its index folds from the next start
  rows,         \* transaction id -> key of the live rows
  head,         \* changes of the WAL file
  tracked,      \* the catalog has the index
  index,        \* RuntimeIndexState
  saving,       \* chunks that are still to be written, or NotSaving
  chunks,       \* chunk files on disk
  manifest,     \* snapshot file, or NoFile
  checkpoint,   \* live row checkpoint, or NoFile
  running,      \* the server is up
  faults,       \* crashes and failing writes so far
  weak,         \* history: keys the index does not answer for exactly
  pages,        \* a posting list on its own
  posted        \* history: the references it should hold

indexVars == <<text, rows, head, tracked, index, saving, chunks, manifest, checkpoint,
               running, faults, weak>>
pageVars == <<pages, posted>>
maintenanceVars == <<indexVars, pageVars>>

NoFile == [head |-> -1]
NotSaving == <<"not saving">>
Idle == running /\ saving = NotSaving

Alike(a, b) == EncodeKey(index, a) = EncodeKey(index, b)
LiveKeys(live) == {live[r] : r \in DOMAIN live}
RowsOf(live, key) == SortedSeq({r \in DOMAIN live : live[r] = key})

\* Keys of live rows that the rows tell apart and a folding index does not.
Collapsing(live, folds) ==
  {a \in LiveKeys(live) : folds /\ \E b \in LiveKeys(live) : a # b /\ Fold(a) = Fold(b)}

\* Keys of live rows that share an entry of index st.
Crowded(live, st) ==
  {live[r] : r \in {q \in DOMAIN live : \E p \in DOMAIN live \ {q} :
                                           EncodeKey(st, live[p]) = EncodeKey(st, live[q])}}

\* A key stops being weak when neither a row nor an entry of it is left.
StillWeak(live, st) ==
  {k \in weak : \/ \E r \in DOMAIN live : EncodeKey(st, live[r]) = EncodeKey(st, k)
                \/ HasKey(st, k)}

-----------------------------------------------------------------------------
(* Saving: persist_table_snapshot_on_commit, save_runtime_index_snapshot_streaming *)

Entry(st, k) == [key |-> k, packed |-> st.entries[k], refs |-> RefsOfEncoded(st, k)]

\* The entries of the index in chunks of ChunkLimit.
Chunked(st) ==
  LET es == [i \in 1..Cardinality(DOMAIN st.entries) |->
               Entry(st, SortedSeq(DOMAIN st.entries)[i])]
      n == (Len(es) + ChunkLimit - 1) \div ChunkLimit
  IN  [i \in 1..n |-> SubSeq(es, (i - 1) * ChunkLimit + 1,
                             IF i * ChunkLimit < Len(es) THEN i * ChunkLimit ELSE Len(es))]

\* A statement that wrote ends by saving, unless the last save is too recent.  The
\* chunk files of the previous save are removed first.
SaveOrSkip(st) ==
  \/ saving' = NotSaving /\ UNCHANGED chunks
  \/ tracked /\ saving' = Chunked(st) /\ chunks' = << >>

\* One chunk file.
WriteChunk ==
  /\ running /\ saving # NotSaving /\ saving # << >>
  /\ chunks' = Append(chunks, Head(saving))
  /\ saving' = Tail(saving)
  /\ UNCHANGED <<text, rows, head, tracked, index, manifest, checkpoint, running, faults, weak>>

\* A chunk or the manifest cannot be written: the chunk files written so far are
\* removed, the previous manifest stays.
WriteFails ==
  /\ running /\ saving # NotSaving /\ faults < MaxFaults
  /\ chunks' = << >> /\ saving' = NotSaving /\ faults' = faults + 1
  /\ UNCHANGED <<text, rows, head, tracked, index, manifest, checkpoint, running, weak>>

\* The manifest makes the chunks a snapshot of the WAL as it is.
WriteManifest ==
  /\ running /\ saving = << >>
  /\ manifest' = [head |-> head, files |-> Len(chunks), weak |-> weak, folds |-> index.folds]
  /\ saving' = NotSaving
  /\ UNCHANGED <<text, rows, head, tracked, index, chunks, checkpoint, running, faults, weak>>

-----------------------------------------------------------------------------
(* Statements *)

\* A unique index rejects a key it contains.
Admits(key) == ~(tracked /\ index.unique /\ HasKey(index, key))

\* An INSERT of a row; apply_table_row_mutation records it in the index.
InsertRow(key) ==
  /\ Idle /\ head < MaxHead /\ Admits(key)
  /\ head' = head + 1
  /\ rows' = With(rows, head', key)
  /\ index' = IF tracked THEN InsertWithRowRef(index, key, head') ELSE index
  /\ weak' = StillWeak(rows', index')
  /\ SaveOrSkip(index')
  /\ UNCHANGED <<text, tracked, manifest, checkpoint, running, faults>>

\* A DELETE of a row.
DeleteRow(r) ==
  /\ Idle /\ head < MaxHead
  /\ head' = head + 1
  /\ rows' = Without(rows, r)
  /\ index' = IF tracked THEN RemoveWithRowRef(index, rows[r], r) ELSE index
  /\ weak' = StillWeak(rows', index')
  /\ SaveOrSkip(index')
  /\ UNCHANGED <<text, tracked, manifest, checkpoint, running, faults>>

RowsByKey(live) == [k \in LiveKeys(live) |-> RowsOf(live, k)]

\* The WAL refuses a record of a statement: rebuild_runtime_indexes_for_table.  A
\* folding index that has several live keys for one entry comes out of it weak.
StatementFails ==
  /\ Idle /\ tracked /\ faults < MaxFaults
  /\ faults' = faults + 1
  /\ \E order \in SetToSeqs(LiveKeys(rows)) :
       index' = RebuildWithRowRefs(index, RowsByKey(rows), order)
  /\ weak' = IF index.unique THEN Crowded(rows, index) ELSE Collapsing(rows, index.folds)
  /\ UNCHANGED <<text, rows, head, tracked, saving, chunks, manifest, checkpoint, running>>

\* TRUNCATE: the stream is compacted and every index emptied.
TruncateTable ==
  /\ Idle /\ head < MaxHead
  /\ head' = head + 1
  /\ rows' = NoFunction
  /\ index' = IF tracked THEN RebuildWithRowRefs(index, NoFunction, << >>) ELSE index
  /\ weak' = {}
  /\ UNCHANGED <<text, tracked, saving, chunks, manifest, checkpoint, running, faults>>

\* CREATE INDEX: the keys of the live rows are rebuilt without their references.
CreateIndex ==
  /\ Idle /\ ~tracked
  /\ tracked' = TRUE
  /\ index' = Rebuild(NewIndex(FALSE, FALSE, FALSE), LiveKeys(rows))
  /\ weak' = LiveKeys(rows)
  /\ UNCHANGED <<text, rows, head, saving, chunks, manifest, checkpoint, running, faults>>

-----------------------------------------------------------------------------
(* Startup *)

Crash ==
  /\ running /\ faults < MaxFaults
  /\ running' = FALSE /\ faults' = faults + 1
  /\ saving' = NotSaving
  /\ UNCHANGED <<text, rows, head, tracked, index, chunks, manifest, checkpoint, weak>>

\* register_index_for_table and select_indexor_for_table: an empty index that folds
\* when its field is a text field, and is ordered when it is an integer.
Registered == NewIndex(index.unique, text, ~text)

RestoreEntry(st, e) ==
  IF st.unique
    THEN SetEntry(st, EncodeKey(st, e.key), e.packed)
    ELSE RestoreNonUniqueEntry(st, e.key, e.refs)

\* stream_runtime_index_snapshot_chunks: the manifest is of this WAL and every chunk
\* it names is there.
Restorable == tracked /\ manifest.head = head /\ manifest.files <= Len(chunks)

\* A manifest whose chunks are not all there is removed with them.
BrokenSnapshot == manifest # NoFile /\ manifest.files > Len(chunks)

\* save_live_row_checkpoint, load_live_row_checkpoint
Checkpoint(live) == [head |-> head, rows |-> live]
CheckpointMatches == checkpoint.head = head

\* An empty checkpoint of a WAL that has records is not believed.
BootstrapRows ==
  IF CheckpointMatches /\ DOMAIN checkpoint.rows # {} THEN checkpoint.rows ELSE rows

\* rebuild_bootstrap_indexes_from_live_rows: row by row, in stream order.
BuiltFrom(live) ==
  FoldLeft(LAMBDA st, r : InsertWithRowRef(st, live[r], r), Registered, SortedSeq(DOMAIN live))

RestoreSnapshot ==
  /\ index' = FoldLeft(RestoreEntry, Registered, FlattenSeq(SubSeq(chunks, 1, manifest.files)))
  /\ weak' = manifest.weak \cup Collapsing(rows, text /\ ~manifest.folds)
  /\ UNCHANGED <<manifest, chunks, checkpoint, saving>>

\* Without a snapshot the index is rebuilt, the rows are checkpointed and the index
\* is saved.
RebuildAndSave ==
  /\ index' = BuiltFrom(BootstrapRows)
  /\ weak' = IF index.unique THEN Crowded(rows, Registered) ELSE {}
  /\ manifest' = IF BrokenSnapshot THEN NoFile ELSE manifest
  /\ checkpoint' = Checkpoint(BootstrapRows)
  /\ chunks' = << >>
  /\ saving' = Chunked(index')

\* bootstrap_from_catalogs_filtered for the table.
Bootstrap ==
  IF ~tracked THEN UNCHANGED <<index, weak, manifest, chunks, checkpoint, saving>>
  ELSE IF Restorable THEN RestoreSnapshot ELSE RebuildAndSave

Restart ==
  /\ ~running /\ running' = TRUE
  /\ Bootstrap
  /\ UNCHANGED <<text, rows, head, tracked, faults>>

\* import_wal_records of a peer's row: appended whatever the unique keys, then every
\* table is bootstrapped again in the running server.
ImportRow(key) ==
  /\ Idle /\ head < MaxHead
  /\ head' = head + 1
  /\ rows' = With(rows, head', key)
  /\ IF tracked
       THEN /\ index' = BuiltFrom(rows')
            /\ weak' = IF index.unique THEN Crowded(rows', Registered) ELSE {}
            /\ checkpoint' = [head |-> head', rows |-> rows']
            /\ chunks' = << >> /\ saving' = Chunked(index')
       ELSE UNCHANGED <<index, weak, checkpoint, chunks, saving>>
  /\ manifest' = IF tracked /\ BrokenSnapshot THEN NoFile ELSE manifest
  /\ UNCHANGED <<text, tracked, running, faults>>

-----------------------------------------------------------------------------
(* A posting list on its own, with references in any order. *)

PostRef(r) == pages' = InsertUniqueSorted(pages, r) /\ posted' = posted \cup {r}
UnpostRef(r) == pages' = RemovePosting(pages, r) /\ posted' = posted \ {r}
PagesNext == \E r \in 1..2 * PageSize + 1 : PostRef(r) \/ UnpostRef(r)

-----------------------------------------------------------------------------
MaintenanceInit ==
  /\ text \in BOOLEAN /\ tracked \in BOOLEAN
  /\ \E unique \in BOOLEAN :
       index = IF tracked THEN NewIndex(unique, FALSE, FALSE) ELSE NewIndex(FALSE, FALSE, FALSE)
  /\ rows = NoFunction /\ head = 0
  /\ saving = NotSaving /\ chunks = << >> /\ manifest = NoFile /\ checkpoint = NoFile
  /\ running = TRUE /\ faults = 0 /\ weak = {}
  /\ pages = NoPostings /\ posted = {}

IndexNext ==
  \/ \E k \in Keys : InsertRow(k) \/ ImportRow(k)
  \/ \E r \in DOMAIN rows : DeleteRow(r)
  \/ StatementFails \/ TruncateTable \/ CreateIndex
  \/ WriteChunk \/ WriteFails \/ WriteManifest
  \/ Crash \/ Restart

-----------------------------------------------------------------------------
(* Properties *)

Expected(key) == SortedSeq({r \in DOMAIN rows : Alike(rows[r], key)})

\* The index and the posting lists keep their shape: postings stand beside an entry
\* without a reference, pages are sorted, filled up to PageSize and never empty, and
\* a numeric index orders exactly the keys it has.
PagesOK(p) ==
  /\ p.len = Len(Postings(p))
  /\ (p.inline # None) <=> (p.len = 1)
  /\ p.inline # None => p.pages = << >>
  /\ \A i \in DOMAIN p.pages : Len(p.pages[i]) \in 1..PageSize
  /\ Postings(p) = SortedSeq(Range(Postings(p)))
IndexShapeOK ==
  /\ \A k \in DOMAIN index.postings :
       k \in DOMAIN index.entries /\ PagesOK(index.postings[k]) /\ index.postings[k].len > 0
  /\ index.numeric => index.ordered = DOMAIN index.entries
  /\ weak \subseteq Keys

\* Whatever rows came and went, in whatever order they were posted, split and
\* removed, a posting list holds exactly the references that are left.
PostingsAreExact == PagesOK(pages) /\ Range(Postings(pages)) = posted

\* Through inserts, deletes, failed appends, truncation, imports, half-written
\* snapshots, crashes and restarts, the index answers a lookup, a count and a
\* uniqueness test like a scan of the live rows, for every key that CREATE INDEX or
\* a change to folding has not weakened.
IndexAnswersLikeScan ==
  running /\ tracked =>
    \A k \in Keys :
      (~\E w \in weak : Alike(k, w)) =>
        /\ RowRefsForKey(index, k) = Expected(k)
        /\ HasKey(index, k) <=> Expected(k) # << >>
        /\ RowRefCountForKey(index, k) = IF Expected(k) = << >> THEN NoCount ELSE Len(Expected(k))

\* A range scan over all keys of an index without weak keys finds every live row.
RangeScanIsComplete ==
  running /\ tracked /\ weak = {} =>
    LET all == {EncodeKey(index, k) : k \in Keys}
        low == CHOOSE k \in all : \A j \in all : k <= j
        high == CHOOSE k \in all : \A j \in all : j <= k
    IN  /\ RowRefsForKeyRange(index, low, high, MaxHead) = SortedSeq(DOMAIN rows)
        /\ FirstRowRefs(index, MaxHead) = SortedSeq(DOMAIN rows)

\* A runtime index is as good as a scan: its pages lose no reference, and lookups,
\* counts, uniqueness tests and range scans answer from the live rows.
IndexIsExact == PostingsAreExact /\ IndexAnswersLikeScan /\ RangeScanIsComplete

=============================================================================
