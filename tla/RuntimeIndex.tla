---------------------------- MODULE RuntimeIndex ----------------------------
(***************************************************************************)
(* The in-memory index of a table (serverlib/src/engine/database/indexing/ *)
(* runtime_index.rs, runtime_indexors.rs) as operators on a record.        *)
(*                                                                         *)
(* `entries' maps an encoded key to one packed row reference, or to None   *)
(* when the key has no reference or several; the several are the postings  *)
(* of the key, a sequence of sorted pages of at most PageSize references.  *)
(* A row reference is the transaction id of the row's record, and packed   *)
(* it is one more, so that None can be zero.  Keys are numbers; Fold is    *)
(* what a case-insensitive string index does to a key.                     *)
(***************************************************************************)
EXTENDS Integers, Sequences, FiniteSets, SequencesExt

CONSTANTS
  PageSize,     \* RUNTIME_INDEX_POSTING_PAGE_SIZE
  Fold(_)       \* normalize_runtime_index_string_key

ASSUME PageSizeAssumption == PageSize \in Nat \ {0, 1}

None == 0
Pack(ref) == ref + 1
Unpack(packed) == packed - 1
NoFunction == [x \in {} |-> 0]
With(f, k, v) == [x \in DOMAIN f \cup {k} |-> IF x = k THEN v ELSE f[x]]
Without(f, k) == [x \in DOMAIN f \ {k} |-> f[x]]
SortedSeq(S) == SetToSortSeq(S, LAMBDA a, b : a < b)
Truncate(s, limit) == IF Len(s) > limit THEN SubSeq(s, 1, limit) ELSE s

-----------------------------------------------------------------------------
(* PostingPages *)

NoPostings == [inline |-> None, pages |-> << >>, len |-> 0]

\* Mutant of SplitIfFull: the upper half of a full page is dropped.
SplitDropsHalf(pages, i) ==
  IF Len(pages[i]) <= PageSize THEN pages
  ELSE [pages EXCEPT ![i] = SubSeq(@, 1, Len(@) \div 2)]

\* A page that has grown past PageSize keeps its lower half and is followed by a
\* page with the upper half.
SplitIfFull(pages, i) ==
  LET page == pages[i]  half == Len(page) \div 2 IN
  IF Len(page) <= PageSize THEN pages
  ELSE InsertAt([pages EXCEPT ![i] = SubSeq(page, 1, half)], i + 1,
                SubSeq(page, half + 1, Len(page)))

\* insert_unique_sorted: the first reference is held inline, the second opens a
\* page, a reference above all others is appended to the last page or to a new one,
\* any other goes to the first page that reaches up to it.
InsertUniqueSorted(p, ref) ==
  IF p.len = 0 THEN [p EXCEPT !.inline = ref, !.len = 1]
  ELSE IF p.len = 1 THEN
    IF p.inline = ref THEN p
    ELSE [inline |-> None, pages |-> Append(p.pages, SortedSeq({p.inline, ref})), len |-> 2]
  ELSE IF Last(Last(p.pages)) < ref THEN
    [p EXCEPT !.len = @ + 1,
              !.pages = IF Len(Last(@)) = PageSize THEN Append(@, <<ref>>)
                        ELSE [@ EXCEPT ![Len(@)] = Append(@, ref)]]
  ELSE
    LET i == CHOOSE j \in DOMAIN p.pages :
               Last(p.pages[j]) >= ref /\ \A l \in 1..j - 1 : Last(p.pages[l]) < ref
    IN  IF ref \in Range(p.pages[i]) THEN p
        ELSE [p EXCEPT !.len = @ + 1,
                       !.pages = SplitIfFull([@ EXCEPT ![i] = SortedSeq(Range(@) \cup {ref})], i)]

\* remove: an emptied page is dropped, and a reference that is left alone is moved
\* inline.
RemovePosting(p, ref) ==
  LET hits == {i \in DOMAIN p.pages : ref \in Range(p.pages[i])} IN
  IF p.len = 1 THEN IF p.inline = ref THEN NoPostings ELSE p
  ELSE IF hits = {} THEN p
  ELSE LET i == CHOOSE j \in hits : TRUE
           page == SelectSeq(p.pages[i], LAMBDA r : r # ref)
           pages == IF page = << >> THEN RemoveAt(p.pages, i) ELSE [p.pages EXCEPT ![i] = page]
       IN  IF p.len = 2 THEN [inline |-> Head(pages[1]), pages |-> << >>, len |-> 1]
           ELSE [p EXCEPT !.len = @ - 1, !.pages = pages]

\* iter, append_row_refs: the references in order.
Postings(p) == IF p.inline # None THEN <<p.inline>> ELSE FlattenSeq(p.pages)

PostingsOf(refs) == FoldLeft(InsertUniqueSorted, NoPostings, refs)

-----------------------------------------------------------------------------
(* RuntimeIndexState *)

NewIndex(unique, folds, numeric) ==
  [unique |-> unique, folds |-> folds, numeric |-> numeric,
   entries |-> NoFunction, postings |-> NoFunction, ordered |-> {}]

EncodeKey(st, key) == IF st.folds THEN Fold(key) ELSE key

HasKey(st, key) == EncodeKey(st, key) \in DOMAIN st.entries
KeyCount(st) == Cardinality(DOMAIN st.entries)

\* Numeric indexes keep an ordered set of their keys for range scans.
Order(st, keys) == [st EXCEPT !.ordered = IF st.numeric THEN keys ELSE {}]

SetEntry(st, k, packed) ==
  Order([st EXCEPT !.entries = With(@, k, packed)], st.ordered \cup {k})

DropKey(st, k) ==
  Order([st EXCEPT !.entries = Without(@, k), !.postings = Without(@, k)], st.ordered \ {k})

\* insert_with_row_ref: a unique index keeps the latest reference of a key, any
\* other opens the postings of the key with its second reference.
InsertWithRowRef(st, key, ref) ==
  LET k == EncodeKey(st, key)  new == Pack(ref) IN
  IF st.unique \/ k \notin DOMAIN st.entries THEN SetEntry(st, k, new)
  ELSE IF st.entries[k] = new THEN st
  ELSE IF st.entries[k] # None
    THEN [st EXCEPT !.entries[k] = None,
                    !.postings = With(@, k, PostingsOf(<<st.entries[k], new>>))]
  ELSE [st EXCEPT !.postings =
          With(@, k, InsertUniqueSorted(IF k \in DOMAIN @ THEN @[k] ELSE NoPostings, new))]

\* restore_non_unique_entry
RestoreNonUniqueEntry(st, key, refs) ==
  LET k == EncodeKey(st, key)  p == PostingsOf([i \in DOMAIN refs |-> Pack(refs[i])]) IN
  IF p.len <= 1 THEN SetEntry(st, k, IF p.len = 1 THEN Postings(p)[1] ELSE None)
  ELSE [SetEntry(st, k, None) EXCEPT !.postings = With(@, k, p)]

\* remove_with_row_ref: a unique index drops the key whatever the reference; any
\* other drops it with its last reference.  A key that has no reference at all goes
\* with the first row that is removed.
RemoveWithRowRef(st, key, ref) ==
  LET k == EncodeKey(st, key) IN
  IF k \notin DOMAIN st.entries THEN st
  ELSE IF st.unique THEN DropKey(st, k)
  ELSE IF st.entries[k] # None THEN IF st.entries[k] = Pack(ref) THEN DropKey(st, k) ELSE st
  ELSE IF k \notin DOMAIN st.postings THEN DropKey(st, k)
  ELSE LET p == RemovePosting(st.postings[k], Pack(ref)) IN
       CASE p.len = 0 -> DropKey(st, k)
         [] p.len = 1 -> [st EXCEPT !.entries[k] = p.inline, !.postings = Without(@, k)]
         [] OTHER     -> [st EXCEPT !.postings[k] = p]

\* rebuild: the keys alone, without references.
Rebuild(st, keys) ==
  LET ks == {EncodeKey(st, key) : key \in keys} IN
  Order([st EXCEPT !.entries = [k \in ks |-> None], !.postings = NoFunction], ks)

\* rebuild_with_row_refs: rows maps a key to its references in stream order.  A key
\* with one reference takes the entry; keys that encode alike take it in turn, in
\* the order of a hash map.
RebuildWithRowRefs(st, rows, order) ==
  LET cleared == Rebuild(st, DOMAIN rows)
      Add(s, key) ==
        LET k == EncodeKey(s, key)  refs == rows[key] IN
        IF s.unique \/ Len(refs) = 1 THEN [s EXCEPT !.entries[k] = Pack(refs[1])]
        ELSE [s EXCEPT !.postings =
                With(@, k, FoldLeft(InsertUniqueSorted,
                                    IF k \in DOMAIN @ THEN @[k] ELSE NoPostings,
                                    [i \in DOMAIN refs |-> Pack(refs[i])]))]
  IN  FoldLeft(Add, cleared, order)

UnpackAll(packed) == [i \in DOMAIN packed |-> Unpack(packed[i])]

\* collect_row_refs_for_encoded_key, row_refs_for_key
RefsOfEncoded(st, k) ==
  IF k \notin DOMAIN st.entries THEN << >>
  ELSE IF st.entries[k] # None THEN <<Unpack(st.entries[k])>>
  ELSE IF k \in DOMAIN st.postings THEN UnpackAll(Postings(st.postings[k]))
  ELSE << >>

RowRefsForKey(st, key) == RefsOfEncoded(st, EncodeKey(st, key))

\* row_ref_count_for_key: -1 when the index cannot tell.
NoCount == -1
RowRefCountForKey(st, key) ==
  LET k == EncodeKey(st, key) IN
  IF k \notin DOMAIN st.entries THEN NoCount
  ELSE IF st.entries[k] # None THEN 1
  ELSE IF k \in DOMAIN st.postings THEN st.postings[k].len
  ELSE NoCount

\* row_refs_for_key_range over the keys from low to high, at most limit references.
RowRefsForKeyRange(st, low, high, limit) ==
  LET keys == {k \in IF st.numeric THEN st.ordered ELSE DOMAIN st.entries :
                 EncodeKey(st, low) <= k /\ k <= EncodeKey(st, high)}
  IN  Truncate(SortedSeq(UNION {Range(RefsOfEncoded(st, k)) : k \in keys}), limit)

\* first_row_refs
FirstRowRefs(st, limit) ==
  Truncate(SortedSeq({Unpack(st.entries[k]) : k \in {j \in DOMAIN st.entries : st.entries[j] # None}}
                     \cup UNION {Range(UnpackAll(Postings(st.postings[k]))) : k \in DOMAIN st.postings}),
           limit)
=============================================================================
