-------------------------- MODULE WalStreamProofs --------------------------
(***************************************************************************)
(* Proofs about one stream of the write-ahead log, for any kinds, any ids, *)
(* any number of records and any set of faults.                            *)
(*                                                                         *)
(* Four facts are inductive together: what the file holds of the           *)
(* acknowledged records, the order of the ids in memory and in the file,   *)
(* that a file without a torn frame is the memory, and the high-water mark.*)
(* Each is given up after the faults that can break it, and only then.     *)
(***************************************************************************)
EXTENDS WalStream, FiniteSetTheorems, SequenceTheorems, NaturalsInduction,
        WellFoundedInduction, TLAPS

\* Induction up to N, with a set of numbers for the predicate.
LEMMA InductionUpTo ==
  ASSUME NEW N \in Nat, NEW T, 0 \in T, \A n \in 1..N : n - 1 \in T => n \in T
  PROVE  \A n \in 0..N : n \in T
<1> DEFINE bad == {n \in 0..N : n \notin T}
<1> SUFFICES ASSUME bad # {} PROVE FALSE
  OBVIOUS
<1>1. bad \subseteq Nat
  OBVIOUS
<1>2. PICK d \in bad : \A e \in bad : ~(<<e, d>> \in OpToRel(<, Nat))
  <2> HIDE DEF bad
  <2>1. QED
    BY <1>1, WFMin, NatLessThanWellFounded
<1>3. d \in 1..N /\ d \notin T
  OBVIOUS
<1>4. d - 1 \in bad
  BY <1>3
<1>5. ~(d - 1 < d)
  BY <1>1, <1>2, <1>4 DEF OpToRel
<1>6. QED
  BY <1>3, <1>5

\* Retain keeps records of the stream.
LEMMA RetainType ==
  ASSUME NEW S, NEW recs \in Seq(S), NEW ids
  PROVE  Retain(recs, ids) \in Seq(S)
<1> DEFINE N == Len(recs)
           Step(k, n) == IF recs[n].id \in ids THEN Append(k, recs[n]) ELSE k
           IsRun(f, n) == /\ f \in [0..n -> Seq(S)] /\ f[0] = <<>>
                          /\ \A i \in 1..n : f[i] = Step(f[i - 1], i)
           Runs == {n \in 0..N : \E f : IsRun(f, n)}
<1>0. N \in Nat /\ \A n \in 1..N, k \in Seq(S) : Step(k, n) \in Seq(S)
  OBVIOUS
<1>1. 0 \in Runs
  <2>1. IsRun([i \in {0} |-> <<>>], 0)
    <3>1. 0..0 = {0} /\ 1..0 = {}
      OBVIOUS
    <3>2. QED
      BY <3>1
  <2> HIDE DEF IsRun
  <2>2. QED
    BY <1>0, <2>1
<1>2. ASSUME NEW d \in 1..N, d - 1 \in Runs PROVE d \in Runs
  <2>1. PICK f : IsRun(f, d - 1)
    <3> HIDE DEF IsRun
    <3>1. QED
      BY <1>2
  <2> DEFINE g == [i \in 0..d |-> IF i = d THEN Step(f[d - 1], d) ELSE f[i]]
  <2>2. f[d - 1] \in Seq(S)
    BY <1>0, <2>1
  <2>3. Step(f[d - 1], d) \in Seq(S)
    BY <1>0, <2>2
  <2> HIDE DEF Step
  <2>4. g \in [0..d -> Seq(S)]
    BY <1>0, <2>1, <2>3
  <2>5. g[0] = <<>>
    BY <2>1
  <2>6. ASSUME NEW i \in 1..d PROVE g[i] = Step(g[i - 1], i)
    <3>1. CASE i = d
      BY <1>0, <3>1
    <3>2. CASE i # d
      <4>1. i \in 1..(d - 1) /\ i \in 0..d /\ i - 1 \in 0..d /\ i - 1 # d
        BY <1>0, <3>2
      <4>2. g[i] = f[i] /\ g[i - 1] = f[i - 1]
        BY <3>2, <4>1
      <4>3. QED
        BY <2>1, <4>1, <4>2
    <3>3. QED
      BY <3>1, <3>2
  <2>7. IsRun(g, d)
    BY <2>4, <2>5, <2>6
  <2> HIDE DEF IsRun
  <2>8. QED
    BY <1>0, <2>7
<1>3. N \in Runs
  <2> HIDE DEF Runs, N
  <2>1. \A n \in 0..N : n \in Runs
    BY <1>0, <1>1, <1>2, InductionUpTo
  <2>2. QED
    BY <1>0, <2>1
<1> DEFINE F(k) == [n \in 0..N |-> IF n = 0 THEN <<>>
                                   ELSE IF recs[n].id \in ids THEN Append(k[n - 1], recs[n]) ELSE k[n - 1]]
           kept == CHOOSE k : k = F(k)
<1>4. \E k : k = F(k)
  <2>1. PICK f : IsRun(f, N)
    <3> HIDE DEF IsRun
    <3>1. QED
      BY <1>3
  <2>2. ASSUME NEW n \in 0..N PROVE f[n] = F(f)[n]
    <3>1. CASE n = 0
      BY <2>1, <3>1
    <3>2. CASE n # 0
      <4>1. n \in 1..N
        BY <1>0, <3>2
      <4>2. f[n] = Step(f[n - 1], n)
        BY <2>1, <4>1
      <4>3. QED
        BY <3>2, <4>2
    <3>3. QED
      BY <3>1, <3>2
  <2>3. f = F(f)
    <3>1. f \in [0..N -> Seq(S)]
      BY <2>1
    <3> DEFINE h == F(f)
    <3>2. DOMAIN h = 0..N /\ h = [n \in 0..N |-> h[n]] /\ f = [n \in 0..N |-> f[n]]
      BY <3>1
    <3>3. \A n \in 0..N : f[n] = h[n]
      BY <2>2
    <3> HIDE DEF h
    <3>4. f = h
      BY <3>2, <3>3
    <3>5. QED
      BY <3>4 DEF h
  <2>4. QED
    BY <2>3
<1>5. kept = F(kept)
  <2> HIDE DEF F
  <2>1. QED
    BY <1>4
<1>6. Retain(recs, ids) = kept[N]
  BY DEF Retain
<1> HIDE DEF kept
<1> DEFINE Good == {n \in 0..N : kept[n] \in Seq(S)}
<1>7. 0 \in Good
  <2>1. kept[0] = <<>>
    BY <1>0, <1>5
  <2>2. <<>> \in Seq(S) /\ 0 \in 0..N
    BY <1>0
  <2>3. QED
    BY <2>1, <2>2
<1>8. ASSUME NEW d \in 1..N, d - 1 \in Good PROVE d \in Good
  <2>0. d \in 0..N /\ d # 0
    BY <1>0
  <2>1. kept[d] = Step(kept[d - 1], d)
    <3>1. kept[d] = F(kept)[d]
      <4> HIDE DEF F
      <4>1. QED
        BY <1>5
    <3>2. QED
      BY <2>0, <3>1
  <2>2. Step(kept[d - 1], d) \in Seq(S)
    BY <1>0, <1>8
  <2> HIDE DEF Step
  <2>3. kept[d] \in Seq(S)
    BY <2>1, <2>2
  <2>4. QED
    BY <2>0, <2>3
<1>9. N \in Good
  <2> HIDE DEF Good, N
  <2>1. \A n \in 0..N : n \in Good
    BY <1>0, <1>7, <1>8, InductionUpTo
  <2>2. QED
    BY <1>0, <2>1
<1>10. QED
  BY <1>6, <1>9

\* A merge of one record is its insertion: the recursion has one step.
LEMMA MergeOne ==
  ASSUME NEW old, NEW r PROVE MergeRecords(old, <<r>>) = InsertSorted(old, r)
<1> DEFINE F(g) == [n \in 0..Len(<<r>>) |->
                      IF n = 0 THEN old ELSE InsertSorted(g[n - 1], <<r>>[n])]
           merged == CHOOSE g : g = F(g)
<1>1. Len(<<r>>) = 1 /\ <<r>>[1] = r
  OBVIOUS
<1>2. 0..1 = {0, 1} /\ 1 - 1 = 0 /\ 0 # 1
  OBVIOUS
<1>3. merged = F(merged)
  <2> DEFINE g == [n \in {0, 1} |-> IF n = 0 THEN old ELSE InsertSorted(old, r)]
  <2>1. g[0] = old /\ g[1] = InsertSorted(old, r)
    BY <1>2
  <2>2. g = F(g)
    BY <1>1, <1>2, <2>1
  <2> HIDE DEF F, g
  <2>3. QED
    BY <2>2
<1>4. MergeRecords(old, <<r>>) = merged[Len(<<r>>)]
  BY DEF MergeRecords
<1> HIDE DEF merged
<1>5. merged[0] = old /\ merged[1] = InsertSorted(merged[1 - 1], <<r>>[1])
  BY <1>1, <1>2, <1>3
<1>6. QED
  BY <1>1, <1>2, <1>4, <1>5

-----------------------------------------------------------------------------
(* What is read back from a file.                                          *)

Frames == Records \cup {Torn}
Clean(f) == \A i \in DOMAIN f : f[i] # Torn

\* The first k frames of a file are whole, and nothing or a torn frame follows them.
ReadsUpTo(f, k) ==
  /\ k \in 0..Len(f)
  /\ \A i \in 1..k : f[i] # Torn
  /\ k = Len(f) \/ f[k + 1] = Torn

\* The position after a proper prefix is the first one outside of it.
LEMMA NextPosition ==
  ASSUME NEW n \in Nat, NEW k \in 0..n, k # n
  PROVE  /\ k \in Nat /\ k + 1 \in 1..n
         /\ \A i \in 1..n : i \in Nat /\ (i \notin 1..k => k + 1 <= i)
OBVIOUS

\* load_wal_records: the frames up to the first one that cannot be decoded.
LEMMA LoadIs ==
  ASSUME NEW f \in Seq(Frames), NEW k, ReadsUpTo(f, k)
  PROVE  LoadRecords(f) = SubSeq(f, 1, k)
<1> DEFINE torn == {i \in DOMAIN f : f[i] = Torn}
<1>1. DOMAIN f = 1..Len(f) /\ Len(f) \in Nat
  OBVIOUS
<1>2. CASE k = Len(f)
  <2>1. ~\E i \in DOMAIN f : f[i] = Torn
    BY <1>1, <1>2 DEF ReadsUpTo
  <2>2. SubSeq(f, 1, Len(f)) = f
    OBVIOUS
  <2>3. QED
    BY <1>2, <2>1, <2>2 DEF LoadRecords
<1>3. CASE k # Len(f)
  <2>1. /\ k \in Nat /\ k + 1 \in 1..Len(f)
        /\ \A i \in 1..Len(f) : i \in Nat /\ (i \notin 1..k => k + 1 <= i)
    <3>1. k \in 0..Len(f)
      BY DEF ReadsUpTo
    <3>2. QED
      BY <1>1, <1>3, <3>1, NextPosition
  <2>2. k + 1 \in torn
    BY <1>1, <1>3, <2>1 DEF ReadsUpTo
  <2>3. \A i \in torn : i \in Nat /\ k + 1 <= i
    <3>1. \A i \in torn : i \in 1..Len(f) /\ i \notin 1..k
      BY <1>1 DEF ReadsUpTo
    <3> HIDE DEF torn
    <3>2. QED
      BY <2>1, <3>1
  <2>4. LoadRecords(f) = SubSeq(f, 1, Min(torn) - 1)
    BY <2>2 DEF LoadRecords
  <2> HIDE DEF torn
  <2>5. Min(torn) = k + 1
    <3>1. \A x \in torn : (\A y \in torn : x =< y) <=> x = k + 1
      BY <2>1, <2>2, <2>3
    <3>2. QED
      BY <2>2, <3>1 DEF Min
  <2>6. Min(torn) - 1 = k
    BY <2>1, <2>5
  <2>7. QED
    BY <2>4, <2>6
<1>4. QED
  BY <1>2, <1>3

\* Every file has such a first frame, or none.
LEMMA LoadExists ==
  ASSUME NEW f \in Seq(Frames)
  PROVE  \E k : ReadsUpTo(f, k)
<1> DEFINE N == Len(f)
           T == {k \in 0..N : \A i \in 1..k : f[i] # Torn}
<1>1. N \in Nat /\ 0 \in T
  OBVIOUS
<1>2. CASE \A n \in 1..N : n - 1 \in T => n \in T
  <2> HIDE DEF T, N
  <2>1. \A n \in 0..N : n \in T
    BY <1>1, <1>2, InductionUpTo
  <2>2. N \in T
    BY <1>1, <2>1
  <2>3. ReadsUpTo(f, N)
    BY <1>1, <2>2 DEF ReadsUpTo, T, N
  <2>4. QED
    BY <2>3
<1>3. CASE \E n \in 1..N : n - 1 \in T /\ n \notin T
  <2>1. PICK n \in 1..N : n - 1 \in T /\ n \notin T
    BY <1>3
  <2>2. f[n] = Torn
    BY <1>1, <2>1
  <2>3. n - 1 \in 0..N /\ (n - 1) + 1 = n
    BY <1>1, <2>1
  <2>4. ReadsUpTo(f, n - 1)
    BY <2>1, <2>2, <2>3 DEF ReadsUpTo
  <2>5. QED
    BY <2>4
<1>4. QED
  BY <1>2, <1>3

\* The records read back are records; a clean file is read back whole.
LEMMA LoadProperties ==
  ASSUME NEW f \in Seq(Frames)
  PROVE  /\ LoadRecords(f) \in Seq(Records)
         /\ Clean(f) => LoadRecords(f) = f
<1>1. PICK k : ReadsUpTo(f, k)
  BY LoadExists
<1>0. /\ k \in 0..Len(f)
      /\ \A i \in 1..k : f[i] # Torn
      /\ k = Len(f) \/ f[k + 1] = Torn
  BY <1>1 DEF ReadsUpTo
<1>2. LoadRecords(f) = SubSeq(f, 1, k)
  BY <1>1, LoadIs
<1>3. \A i \in 1..k : f[i] \in Records
  BY <1>0 DEF Frames
<1>4. SubSeq(f, 1, k) \in Seq(Records)
  BY <1>0, <1>3, SubSeqProperties
<1>5. ASSUME Clean(f) PROVE LoadRecords(f) = f
  <2>1. ~\E i \in DOMAIN f : f[i] = Torn
    BY <1>5 DEF Clean
  <2>2. QED
    BY <2>1 DEF LoadRecords
<1>6. QED
  BY <1>2, <1>4, <1>5

\* What follows a torn frame is never read.
LEMMA LoadAfterTorn ==
  ASSUME NEW f \in Seq(Frames), NEW g \in Seq(Frames), ~Clean(f)
  PROVE  LoadRecords(f \o g) = LoadRecords(f) /\ ~Clean(f \o g)
<1> DEFINE h == f \o g
<1>1. PICK k : ReadsUpTo(f, k)
  BY LoadExists
<1>0. /\ k \in 0..Len(f)
      /\ \A i \in 1..k : f[i] # Torn
      /\ k = Len(f) \/ f[k + 1] = Torn
  BY <1>1 DEF ReadsUpTo
<1>2. /\ h \in Seq(Frames) /\ Len(h) = Len(f) + Len(g) /\ Len(f) \in Nat /\ Len(g) \in Nat
      /\ \A i \in 1..Len(f) : h[i] = f[i]
  BY ConcatProperties
<1>3. k # Len(f)
  BY <1>0 DEF Clean
<1>4. k + 1 \in 1..Len(f) /\ f[k + 1] = Torn
  BY <1>0, <1>2, <1>3
<1>5. h[k + 1] = Torn /\ \A i \in 1..k : h[i] # Torn
  BY <1>0, <1>2, <1>4
<1> HIDE DEF h
<1>6. k \in 0..Len(h) /\ k + 1 \in DOMAIN h
  BY <1>0, <1>2, <1>4
<1>7. LoadRecords(h) = SubSeq(h, 1, k)
  <2>1. ReadsUpTo(h, k)
    BY <1>5, <1>6 DEF ReadsUpTo
  <2>2. QED
    BY <1>2, <2>1, LoadIs
<1>8. LoadRecords(f) = SubSeq(f, 1, k)
  BY <1>1, LoadIs
<1>9. SubSeq(h, 1, k) = SubSeq(f, 1, k)
  <2>1. \A i \in 1..k : h[i] \in Frames /\ f[i] \in Frames
    BY <1>0, <1>2
  <2>2. /\ SubSeq(h, 1, k) \in Seq(Frames) /\ SubSeq(f, 1, k) \in Seq(Frames)
        /\ Len(SubSeq(h, 1, k)) = k /\ Len(SubSeq(f, 1, k)) = k
        /\ \A i \in 1..k : SubSeq(h, 1, k)[i] = h[i] /\ SubSeq(f, 1, k)[i] = f[i]
    BY <1>0, <1>2, <2>1, SubSeqProperties
  <2>3. \A i \in 1..k : SubSeq(h, 1, k)[i] = SubSeq(f, 1, k)[i]
    BY <1>0, <1>2, <2>2
  <2>4. QED
    BY <2>2, <2>3, SeqEqual
<1>10. QED
  BY <1>5, <1>6, <1>7, <1>8, <1>9 DEF Clean, h

\* A torn frame ends what is read of a clean file.
LEMMA LoadUpToTorn ==
  ASSUME NEW f \in Seq(Records), NEW g \in Seq(Frames)
  PROVE  /\ LoadRecords(f \o <<Torn>> \o g) = f /\ ~Clean(f \o <<Torn>> \o g)
         /\ LoadRecords(f \o <<Torn>>) = f /\ ~Clean(f \o <<Torn>>)
<1>1. /\ f \in Seq(Frames) /\ <<Torn>> \in Seq(Frames) /\ \A i \in 1..Len(f) : f[i] # Torn
      /\ Len(f) \in Nat
  BY WalConstants DEF Frames
<1> DEFINE e == f \o <<Torn>>
<1>2. /\ e \in Seq(Frames) /\ Len(e) = Len(f) + 1 /\ e[Len(f) + 1] = Torn
      /\ \A i \in 1..Len(f) : e[i] = f[i]
  BY <1>1, ConcatProperties
<1>3. LoadRecords(e) = SubSeq(e, 1, Len(f))
  <2> HIDE DEF e
  <2>1. Len(f) \in 0..Len(e)
    BY <1>1, <1>2
  <2>2. ReadsUpTo(e, Len(f))
    BY <1>1, <1>2, <2>1 DEF ReadsUpTo
  <2>3. QED
    BY <1>2, <2>2, LoadIs
<1>4. SubSeq(e, 1, Len(f)) = f
  <2>1. /\ SubSeq(e, 1, Len(f)) \in Seq(Frames) /\ Len(SubSeq(e, 1, Len(f))) = Len(f)
        /\ \A i \in 1..Len(f) : SubSeq(e, 1, Len(f))[i] = e[i]
    BY <1>1, <1>2, SubSeqProperties
  <2>2. QED
    BY <1>1, <1>2, <2>1, SeqEqual
<1>5. ~Clean(e)
  BY <1>1, <1>2 DEF Clean
<1> HIDE DEF e
<1>6. LoadRecords(e \o g) = LoadRecords(e) /\ ~Clean(e \o g)
  BY <1>2, <1>5, LoadAfterTorn
<1>7. QED
  BY <1>3, <1>4, <1>5, <1>6 DEF e

-----------------------------------------------------------------------------
(* Tags, time stamps and the order of ids.                                 *)

Prefixes(recs) == {SubSeq(recs, 1, n) : n \in 0..Len(recs)}

Stamps(recs) == {recs[i].ts : i \in {j \in DOMAIN recs : recs[j].kind \in DataKinds}}
Monotone(recs) == \A i, j \in 1..Len(recs) : i <= j => recs[i].id <= recs[j].id

\* The fields of a record of a stream.
LEMMA RecordFields ==
  ASSUME NEW recs \in Seq(Records), NEW i \in 1..Len(recs)
  PROVE  /\ recs[i] \in Records /\ recs[i].id \in Nat /\ recs[i].tag \in 1..MaxWrites
         /\ recs[i].ts \in 0..MaxWrites
         /\ recs[i].kind \in DataKinds \cup {"SchemaChange", "MetadataChange", "Truncate"}
<1>1. recs[i] \in Records
  OBVIOUS
<1>2. QED
  BY <1>1 DEF Records

\* Tags and stamps of a concatenation.
LEMMA ConcatParts ==
  ASSUME NEW a \in Seq(Records), NEW b \in Seq(Records)
  PROVE  /\ TagsOf(a \o b) = TagsOf(a) \cup TagsOf(b)
         /\ Stamps(a \o b) = Stamps(a) \cup Stamps(b)
<1> DEFINE c == a \o b
<1>1. /\ c \in Seq(Records) /\ Len(c) = Len(a) + Len(b) /\ Len(a) \in Nat /\ Len(b) \in Nat
      /\ \A i \in 1..Len(a) : c[i] = a[i]
      /\ \A i \in 1..Len(b) : c[Len(a) + i] = b[i]
  BY ConcatProperties
<1> HIDE DEF c
<1>2. /\ DOMAIN a = 1..Len(a) /\ DOMAIN b = 1..Len(b) /\ DOMAIN c = 1..Len(c)
  BY <1>1
<1>3. \A i \in DOMAIN a : i \in DOMAIN c /\ c[i] = a[i]
  BY <1>1, <1>2
<1>4. \A i \in DOMAIN b : Len(a) + i \in DOMAIN c /\ c[Len(a) + i] = b[i]
  BY <1>1, <1>2
<1>5. \A i \in DOMAIN c : \/ i \in DOMAIN a /\ c[i] = a[i]
                          \/ i - Len(a) \in DOMAIN b /\ c[i] = b[i - Len(a)]
  <2> SUFFICES ASSUME NEW i \in DOMAIN c, i \notin DOMAIN a
               PROVE  i - Len(a) \in DOMAIN b /\ c[i] = b[i - Len(a)]
    BY <1>3
  <2>1. i - Len(a) \in 1..Len(b) /\ Len(a) + (i - Len(a)) = i
    BY <1>1, <1>2
  <2>2. QED
    BY <1>1, <1>2, <2>1
<1>6. TagsOf(c) = TagsOf(a) \cup TagsOf(b)
  BY <1>3, <1>4, <1>5 DEF TagsOf
<1>7. Stamps(c) = Stamps(a) \cup Stamps(b)
  BY <1>3, <1>4, <1>5 DEF Stamps
<1>8. QED
  BY <1>6, <1>7 DEF c

\* A non-empty set of numbers up to B has a largest one.
LEMMA BoundedHasMax ==
  ASSUME NEW B \in Nat, NEW T \in SUBSET (0..B), T # {}
  PROVE  \E m \in T : \A n \in T : m >= n
<1> DEFINE down == {B - n : n \in T}
<1>0. B \in Nat /\ \A n \in T : n \in Nat /\ B - n \in Nat
  OBVIOUS
<1>1. down \subseteq Nat /\ down # {}
  BY <1>0
<1>2. PICK d \in down : \A e \in down : ~(<<e, d>> \in OpToRel(<, Nat))
  <2> HIDE DEF down
  <2>1. QED
    BY <1>1, WFMin, NatLessThanWellFounded
<1>3. PICK m \in T : d = B - m
  OBVIOUS
<1>4. ASSUME NEW n \in T PROVE m >= n
  <2>1. B - n \in down
    OBVIOUS
  <2>2. ~(B - n < B - m)
    BY <1>1, <1>2, <1>3, <2>1 DEF OpToRel
  <2>3. QED
    BY <2>2, <1>0
<1>5. QED
  BY <1>4

\* latest_write_timestamp is the largest stamp, or zero.
LEMMA LwtIs ==
  ASSUME NEW recs, NEW v \in Nat, v = 0 \/ v \in Stamps(recs),
         Stamps(recs) \subseteq Nat, \A t \in Stamps(recs) : t <= v
  PROVE  LatestWriteTimestamp(recs) = v
<1> DEFINE T == {0} \cup Stamps(recs)
<1>1. LatestWriteTimestamp(recs) = Max(T)
  BY DEF LatestWriteTimestamp, Stamps
<1>2. v \in T /\ T \subseteq Nat /\ \A t \in T : t <= v
  OBVIOUS
<1>3. Max(T) = v
  <2> HIDE DEF T
  <2>1. \A x \in T : (\A y \in T : x >= y) <=> x = v
    BY <1>2
  <2>2. QED
    BY <1>2, <2>1 DEF Max
<1>4. QED
  BY <1>1, <1>3

\* Time stamps are numbers of writes.
LEMMA StampsAreBounded ==
  ASSUME NEW recs \in Seq(Records) PROVE Stamps(recs) \subseteq 0..MaxWrites
BY RecordFields DEF Stamps

\* The largest stamp exists, so latest_write_timestamp is it.
LEMMA LwtProperties ==
  ASSUME NEW recs \in Seq(Records)
  PROVE  /\ LatestWriteTimestamp(recs) \in 0..MaxWrites
         /\ LatestWriteTimestamp(recs) = 0 \/ LatestWriteTimestamp(recs) \in Stamps(recs)
         /\ \A t \in Stamps(recs) : t <= LatestWriteTimestamp(recs)
<1> DEFINE T == {0} \cup Stamps(recs)
<1>1. T \in SUBSET (0..MaxWrites) /\ T # {}
  BY StampsAreBounded, WalConstants
<1>2. PICK m \in T : \A n \in T : m >= n
  <2> HIDE DEF T
  <2>1. QED
    BY <1>1, BoundedHasMax, WalConstants
<1>3. m \in Nat /\ m \in 0..MaxWrites /\ \A t \in Stamps(recs) : t <= m
  BY <1>1, <1>2, WalConstants
<1>4. LatestWriteTimestamp(recs) = m
  BY <1>2, <1>3, LwtIs, StampsAreBounded, WalConstants
<1>5. QED
  BY <1>2, <1>3, <1>4

\* The mark of two parts is the larger of theirs.
LEMMA LwtOfUnion ==
  ASSUME NEW a \in Seq(Records), NEW b \in Seq(Records), NEW c \in Seq(Records),
         Stamps(c) = Stamps(a) \cup Stamps(b)
  PROVE  LatestWriteTimestamp(c) = Max({LatestWriteTimestamp(a), LatestWriteTimestamp(b)})
<1> DEFINE x == LatestWriteTimestamp(a)
           y == LatestWriteTimestamp(b)
<1>1. x \in Nat /\ y \in Nat
  BY LwtProperties, WalConstants
<1>2. /\ x = 0 \/ x \in Stamps(a)
      /\ y = 0 \/ y \in Stamps(b)
      /\ \A t \in Stamps(a) : t <= x
      /\ \A t \in Stamps(b) : t <= y
  BY LwtProperties
<1> HIDE DEF x, y
<1>3. Stamps(c) \subseteq Nat /\ Stamps(a) \subseteq Nat /\ Stamps(b) \subseteq Nat
  BY StampsAreBounded, WalConstants
<1>4. CASE x >= y
  <2>1. Max({x, y}) = x
    BY <1>1, <1>4 DEF Max
  <2>2. x = 0 \/ x \in Stamps(c)
    BY <1>2
  <2>3. \A t \in Stamps(c) : t <= x
    BY <1>1, <1>2, <1>3, <1>4
  <2>4. QED
    BY <1>1, <1>3, <2>1, <2>2, <2>3, LwtIs DEF x, y
<1>5. CASE ~(x >= y)
  <2>1. Max({x, y}) = y
    BY <1>1, <1>5 DEF Max
  <2>2. y = 0 \/ y \in Stamps(c)
    BY <1>2
  <2>3. \A t \in Stamps(c) : t <= y
    BY <1>1, <1>2, <1>3, <1>5
  <2>4. QED
    BY <1>1, <1>3, <2>1, <2>2, <2>3, LwtIs DEF x, y
<1>6. QED
  BY <1>4, <1>5

\* Ascending speaks of neighbours, Monotone of any two records.
LEMMA AscendingIsMonotone ==
  ASSUME NEW recs \in Seq(Records) PROVE Ascending(recs) <=> Monotone(recs)
<1> DEFINE N == Len(recs)
           T == {n \in 0..N : \A i \in 1..n : recs[i].id <= recs[n].id}
<1>0. N \in Nat /\ \A i \in 1..N : recs[i].id \in Nat
  BY RecordFields
<1>1. ASSUME Ascending(recs) PROVE Monotone(recs)
  <2>1. 0 \in T
    BY <1>0
  <2>2. ASSUME NEW n \in 1..N, n - 1 \in T PROVE n \in T
    <3>1. ASSUME NEW i \in 1..n PROVE recs[i].id <= recs[n].id
      <4>1. CASE i = n
        BY <1>0, <4>1
      <4>2. CASE i # n
        <5>1. i \in 1..(n - 1) /\ n - 1 \in 1..(N - 1) /\ (n - 1) + 1 = n
          BY <1>0, <4>2
        <5>2. recs[n - 1].id <= recs[n].id
          BY <1>1, <5>1 DEF Ascending
        <5>3. recs[i].id <= recs[n - 1].id
          BY <2>2, <5>1
        <5>4. recs[i].id \in Nat /\ recs[n - 1].id \in Nat /\ recs[n].id \in Nat
          BY <1>0, <5>1
        <5>5. QED
          BY <5>2, <5>3, <5>4
      <4>3. QED
        BY <4>1, <4>2
    <3>2. QED
      BY <1>0, <3>1
  <2>3. \A n \in 0..N : n \in T
    <3> HIDE DEF T, N
    <3>1. QED
      BY <1>0, <2>1, <2>2, InductionUpTo
  <2>4. QED
    BY <1>0, <2>3 DEF Monotone
<1>2. ASSUME Monotone(recs) PROVE Ascending(recs)
  BY <1>0, <1>2 DEF Monotone, Ascending
<1>3. QED
  BY <1>1, <1>2

\* A proper prefix is a prefix.
LEMMA ProperArePrefixes ==
  ASSUME NEW recs \in Seq(Records)
  PROVE  ProperPrefixes(recs) \subseteq Prefixes(recs) /\ recs \in Prefixes(recs)
<1>1. Len(recs) \in Nat /\ SubSeq(recs, 1, Len(recs)) = recs
  OBVIOUS
<1>2. 0..Len(recs) - 1 \subseteq 0..Len(recs) /\ Len(recs) \in 0..Len(recs)
  BY <1>1
<1>3. QED
  BY <1>1, <1>2 DEF ProperPrefixes, Prefixes

\* A prefix of an ordered stream is ordered.
LEMMA PrefixOfMonotone ==
  ASSUME NEW recs \in Seq(Records), NEW p \in Prefixes(recs)
  PROVE  p \in Seq(Records) /\ (Monotone(recs) => Monotone(p))
<1>1. PICK l \in 0..Len(recs) : p = SubSeq(recs, 1, l)
  BY DEF Prefixes
<1>2. /\ SubSeq(recs, 1, l) \in Seq(Records) /\ Len(SubSeq(recs, 1, l)) = l
      /\ \A i \in 1..l : SubSeq(recs, 1, l)[i] = recs[i]
  <2>1. \A i \in 1..l : recs[i] \in Records
    OBVIOUS
  <2>2. QED
    BY <2>1, SubSeqProperties
<1>3. p \in Seq(Records) /\ Len(p) = l /\ \A i \in 1..l : p[i] = recs[i] /\ i \in 1..Len(recs)
  BY <1>1, <1>2
<1>4. QED
  BY <1>3 DEF Monotone

\* Two ordered streams one after the other.
LEMMA ConcatMonotone ==
  ASSUME NEW a \in Seq(Records), NEW b \in Seq(Records), Monotone(a), Monotone(b),
         \A i \in 1..Len(a), j \in 1..Len(b) : a[i].id <= b[j].id
  PROVE  Monotone(a \o b)
<1> DEFINE c == a \o b
<1>1. /\ c \in Seq(Records) /\ Len(c) = Len(a) + Len(b) /\ Len(a) \in Nat /\ Len(b) \in Nat
      /\ \A i \in 1..Len(a) : c[i] = a[i]
      /\ \A i \in (Len(a) + 1)..Len(c) : c[i] = b[i - Len(a)]
  BY ConcatProperties
<1> HIDE DEF c
<1>2. ASSUME NEW i \in 1..Len(c), NEW j \in 1..Len(c), i <= j
      PROVE  c[i].id <= c[j].id
  <2>1. CASE j <= Len(a)
    <3>1. i \in 1..Len(a) /\ j \in 1..Len(a)
      BY <1>1, <1>2, <2>1
    <3>2. QED
      BY <1>1, <1>2, <3>1 DEF Monotone
  <2>2. CASE i <= Len(a) /\ ~(j <= Len(a))
    <3>1. i \in 1..Len(a) /\ j - Len(a) \in 1..Len(b) /\ j \in (Len(a) + 1)..Len(c)
      BY <1>1, <1>2, <2>2
    <3>2. QED
      BY <1>1, <3>1
  <2>3. CASE ~(i <= Len(a))
    <3>1. /\ i - Len(a) \in 1..Len(b) /\ j - Len(a) \in 1..Len(b)
          /\ i \in (Len(a) + 1)..Len(c) /\ j \in (Len(a) + 1)..Len(c)
          /\ i - Len(a) <= j - Len(a)
      BY <1>1, <1>2, <2>3
    <3>2. QED
      BY <1>1, <3>1 DEF Monotone
  <2>4. QED
    BY <1>1, <2>1, <2>2, <2>3
<1>3. QED
  BY <1>2 DEF Monotone, c

\* New ids at the end keep the order.
LEMMA OrderedConcat ==
  ASSUME NEW old \in Seq(Records), NEW recs \in Seq(Records), IsOrdered(old, recs), Monotone(old)
  PROVE  \A p \in Prefixes(recs) : Monotone(old \o p)
<1>0. /\ Len(old) \in Nat /\ Len(recs) \in Nat
      /\ \A i \in 1..Len(recs) : recs[i].id \in Nat
      /\ \A i \in 1..Len(old) : old[i].id \in Nat
  BY RecordFields
<1>1. \A i \in 1..(Len(recs) - 1) : recs[i].id < recs[i + 1].id
  BY DEF IsOrdered, AscendingFrom
<1>2. Monotone(recs)
  <2>1. Ascending(recs)
    BY <1>0, <1>1 DEF Ascending
  <2>2. QED
    BY <2>1, AscendingIsMonotone
<1>3. ASSUME NEW i \in 1..Len(old), NEW j \in 1..Len(recs) PROVE old[i].id <= recs[j].id
  <2>1. old # <<>> /\ Len(old) \in 1..Len(old) /\ i <= Len(old) /\ recs # <<>>
    BY <1>0
  <2>2. recs[1].id > old[Len(old)].id
    BY <2>1 DEF IsOrdered, AscendingFrom, LatestTransactionId
  <2>3. recs[1].id <= recs[j].id /\ 1 \in 1..Len(recs)
    BY <1>0, <1>2 DEF Monotone
  <2>4. old[i].id <= old[Len(old)].id
    BY <2>1 DEF Monotone
  <2>5. QED
    BY <1>0, <2>1, <2>2, <2>3, <2>4
<1>4. ASSUME NEW p \in Prefixes(recs) PROVE Monotone(old \o p)
  <2>1. PICK l \in 0..Len(recs) : p = SubSeq(recs, 1, l)
    BY DEF Prefixes
  <2>2. p \in Seq(Records) /\ Len(p) = l /\ \A i \in 1..l : p[i] = recs[i]
    <3>1. \A i \in 1..l : recs[i] \in Records
      BY <1>0
    <3>2. QED
      BY <1>0, <2>1, <3>1, SubSeqProperties
  <2>3. Monotone(p)
    BY <1>2, PrefixOfMonotone
  <2>4. \A i \in 1..Len(old), j \in 1..Len(p) : old[i].id <= p[j].id
    <3>1. \A j \in 1..Len(p) : j \in 1..Len(recs) /\ p[j] = recs[j]
      BY <1>0, <2>2
    <3>2. QED
      BY <1>3, <3>1
  <2>5. QED
    BY <2>2, <2>3, <2>4, ConcatMonotone
<1>5. QED
  BY <1>4

-----------------------------------------------------------------------------
(* The operators that make a new stream of an old one.                     *)

InsertAt(old, n, r) == SubSeq(old, 1, n - 1) \o <<r>> \o SubSeq(old, n, Len(old))

\* Insertion at a position: what is before stays, what is after moves by one.
LEMMA InsertIs ==
  ASSUME NEW old \in Seq(Records), NEW r \in Records, NEW c \in 0..Len(old)
  PROVE  /\ InsertAt(old, c + 1, r) \in Seq(Records)
         /\ Len(InsertAt(old, c + 1, r)) = Len(old) + 1
         /\ \A i \in 1..c : InsertAt(old, c + 1, r)[i] = old[i]
         /\ InsertAt(old, c + 1, r)[c + 1] = r
         /\ \A i \in (c + 1)..Len(old) : InsertAt(old, c + 1, r)[i + 1] = old[i]
<1> DEFINE N == Len(old)
           a == SubSeq(old, 1, c)
           b == SubSeq(old, c + 1, N)
           ar == a \o <<r>>
           new == ar \o b
<1>1. N \in Nat /\ c \in Nat /\ (c + 1) - 1 = c /\ \A i \in 1..N : old[i] \in Records
  OBVIOUS
<1>2. InsertAt(old, c + 1, r) = new
  BY <1>1 DEF InsertAt
<1>3. a \in Seq(Records) /\ Len(a) = c /\ \A i \in 1..c : a[i] = old[i]
  <2>1. \A i \in 1..c : old[i] \in Records
    BY <1>1
  <2>2. QED
    BY <1>1, <2>1, SubSeqProperties
<1>4. b \in Seq(Records) /\ Len(b) = N - c /\ \A i \in 1..(N - c) : b[i] = old[c + i]
  <2>1. \A i \in (c + 1)..N : old[i] \in Records
    BY <1>1
  <2> HIDE DEF N
  <2>2. /\ b \in Seq(Records)
        /\ Len(b) = IF c + 1 <= N THEN N - (c + 1) + 1 ELSE 0
        /\ \A i \in 1..(N - (c + 1) + 1) : b[i] = old[c + 1 + i - 1]
    BY <1>1, <2>1, SubSeqProperties DEF N
  <2>3. Len(b) = N - c /\ N - (c + 1) + 1 = N - c
    BY <1>1, <2>2 DEF N
  <2>4. \A i \in 1..(N - c) : c + 1 + i - 1 = c + i
    BY <1>1
  <2>5. QED
    BY <2>2, <2>3, <2>4
<1> HIDE DEF a, b
<1>5. /\ ar \in Seq(Records) /\ Len(ar) = c + 1
      /\ \A i \in 1..c : ar[i] = old[i]
      /\ ar[c + 1] = r
  BY <1>1, <1>3
<1> HIDE DEF ar
<1>6. /\ new \in Seq(Records) /\ Len(new) = N + 1
      /\ \A i \in 1..(c + 1) : new[i] = ar[i]
      /\ \A i \in (c + 2)..(N + 1) : new[i] = b[i - (c + 1)]
  <2>1. /\ new \in Seq(Records) /\ Len(new) = Len(ar) + Len(b)
        /\ \A i \in 1..Len(ar) : new[i] = ar[i]
        /\ \A i \in (Len(ar) + 1)..(Len(ar) + Len(b)) : new[i] = b[i - Len(ar)]
    <3>1. /\ new \in Seq(Records) /\ Len(new) = Len(ar) + Len(b)
          /\ \A i \in 1..(Len(ar) + Len(b)) :
               new[i] = IF i <= Len(ar) THEN ar[i] ELSE b[i - Len(ar)]
      BY <1>4, <1>5, ConcatProperties
    <3>2. Len(ar) \in Nat /\ Len(b) \in Nat
      BY <1>4, <1>5
    <3> HIDE DEF new
    <3>3. QED
      BY <3>1, <3>2
  <2>2. Len(ar) + Len(b) = N + 1 /\ Len(ar) + 1 = c + 2
    BY <1>1, <1>4, <1>5
  <2>3. QED
    BY <1>5, <2>1, <2>2
<1> HIDE DEF new
<1>7. \A i \in 1..c : new[i] = old[i]
  BY <1>1, <1>5, <1>6
<1>8. new[c + 1] = r
  BY <1>1, <1>5, <1>6
<1>9. ASSUME NEW i \in (c + 1)..N PROVE new[i + 1] = old[i]
  <2>1. i + 1 \in (c + 2)..(N + 1) /\ (i + 1) - (c + 1) = i - c /\ i - c \in 1..(N - c)
        /\ c + (i - c) = i
    BY <1>1
  <2>2. QED
    BY <1>4, <1>6, <2>1
<1>10. QED
  BY <1>2, <1>6, <1>7, <1>8, <1>9

\* A set of positions that has every position before one of its own is 1..c.
LEMMA InitialPositions ==
  ASSUME NEW N \in Nat, NEW K \in SUBSET (1..N), \A i \in K : \A j \in 1..i : j \in K
  PROVE  K = 1..Cardinality(K)
<1>1. CASE K = {}
  BY <1>1, FS_EmptySet
<1>2. CASE K # {}
  <2>1. K \in SUBSET (0..N)
    OBVIOUS
  <2>2. PICK m \in K : \A n \in K : m >= n
    BY <1>2, <2>1, BoundedHasMax
  <2>3. K = 1..m
    <3>1. K \subseteq 1..m
      BY <2>2
    <3>2. 1..m \subseteq K
      BY <2>2
    <3>3. QED
      BY <3>1, <3>2
  <2>4. Cardinality(1..m) = m
    BY <2>2, FS_Interval
  <2>5. QED
    BY <2>3, <2>4
<1>3. QED
  BY <1>1, <1>2

\* insert_sorted: the stream gains the record, and stays in order if it was.
LEMMA InsertSortedParts ==
  ASSUME NEW old \in Seq(Records), NEW r \in Records, \A i \in DOMAIN old : old[i].id # r.id
  PROVE  /\ InsertSorted(old, r) \in Seq(Records)
         /\ InsertSorted(old, r) # old
         /\ TagsOf(InsertSorted(old, r)) = TagsOf(old) \cup {r.tag}
         /\ Stamps(InsertSorted(old, r)) = Stamps(old) \cup Stamps(<<r>>)
         /\ Monotone(old) => Monotone(InsertSorted(old, r))
<1> DEFINE N == Len(old)
           K == {i \in DOMAIN old : old[i].id <= r.id}
           c == Cardinality(K)
           new == InsertAt(old, c + 1, r)
<1>1. N \in Nat /\ DOMAIN old = 1..N /\ K \in SUBSET (1..N)
  OBVIOUS
<1>3. c \in 0..N
  <2> HIDE DEF K, N
  <2>1. IsFiniteSet(1..N) /\ Cardinality(1..N) = N
    BY <1>1, FS_Interval
  <2>2. Cardinality(K) \in Nat /\ Cardinality(K) <= Cardinality(1..N)
    BY <1>1, <2>1, FS_Subset, FS_CardinalityType
  <2>3. QED
    BY <1>1, <2>1, <2>2
<1>2. InsertSorted(old, r) = new
  <2>1. (c + 1) - 1 = c
    BY <1>3
  <2>2. InsertSorted(old, r) = SubSeq(old, 1, c) \o <<r>> \o SubSeq(old, c + 1, Len(old))
    BY DEF InsertSorted
  <2> HIDE DEF c
  <2>3. QED
    BY <2>1, <2>2 DEF InsertAt
<1>4. /\ new \in Seq(Records) /\ Len(new) = N + 1
      /\ \A i \in 1..c : new[i] = old[i]
      /\ new[c + 1] = r
      /\ \A i \in (c + 1)..N : new[i + 1] = old[i]
  <2> HIDE DEF c
  <2>1. QED
    BY <1>3, InsertIs
<1>5. /\ \A i \in 1..N : old[i].id \in Nat
      /\ r.id \in Nat
      /\ \A i \in 1..N : i \in K <=> old[i].id <= r.id
  BY <1>1, RecordFields DEF Records
<1> HIDE DEF K, c, new
<1>6. DOMAIN new = 1..(N + 1)
  BY <1>4
<1>7. \A i \in DOMAIN old : \E j \in DOMAIN new : new[j] = old[i]
  <2> SUFFICES ASSUME NEW i \in 1..N PROVE \E j \in DOMAIN new : new[j] = old[i]
    BY <1>1
  <2>1. CASE i <= c
    <3>1. i \in 1..c /\ i \in 1..(N + 1)
      BY <1>1, <1>3, <2>1
    <3>2. QED
      BY <1>4, <1>6, <3>1
  <2>2. CASE ~(i <= c)
    <3>1. i \in (c + 1)..N /\ i + 1 \in 1..(N + 1)
      BY <1>1, <1>3, <2>2
    <3>2. QED
      BY <1>4, <1>6, <3>1
  <2>3. QED
    BY <2>1, <2>2
<1>8. c + 1 \in DOMAIN new /\ new[c + 1] = r
  BY <1>1, <1>3, <1>4, <1>6
<1>9. \A j \in DOMAIN new : new[j] = r \/ \E i \in DOMAIN old : new[j] = old[i]
  <2> SUFFICES ASSUME NEW j \in 1..(N + 1) PROVE new[j] = r \/ \E i \in DOMAIN old : new[j] = old[i]
    BY <1>6
  <2>1. CASE j <= c
    <3>1. j \in 1..c /\ j \in 1..N
      BY <1>1, <1>3, <2>1
    <3>2. QED
      BY <1>1, <1>4, <3>1
  <2>2. CASE j = c + 1
    BY <1>4, <2>2
  <2>3. CASE j > c + 1
    <3>1. j - 1 \in (c + 1)..N /\ (j - 1) + 1 = j /\ j - 1 \in 1..N
      BY <1>1, <1>3, <2>3
    <3>2. QED
      BY <1>1, <1>4, <3>1
  <2>4. QED
    BY <1>1, <1>3, <2>1, <2>2, <2>3
<1>10. TagsOf(new) = TagsOf(old) \cup {r.tag}
  BY <1>7, <1>8, <1>9 DEF TagsOf
<1>11. Stamps(new) = Stamps(old) \cup Stamps(<<r>>)
  <2>1. Stamps(<<r>>) = IF r.kind \in DataKinds THEN {r.ts} ELSE {}
    BY DEF Stamps
  <2>2. QED
    BY <1>7, <1>8, <1>9, <2>1 DEF Stamps
<1>12. new # old
  BY <1>1, <1>4
<1>13. ASSUME Monotone(old) PROVE Monotone(new)
  <2>1. K = 1..c
    <3>1. \A i \in K : \A j \in 1..i : j \in K
      <4> SUFFICES ASSUME NEW i \in K, NEW j \in 1..i PROVE j \in K
        OBVIOUS
      <4>1. i \in 1..N /\ j \in 1..N /\ j <= i
        BY <1>1
      <4>2. old[j].id <= old[i].id
        BY <1>13, <4>1 DEF Monotone
      <4>3. QED
        BY <1>5, <4>1, <4>2
    <3>2. QED
      BY <1>1, <3>1, InitialPositions DEF c
  <2>2. /\ \A i \in 1..c : new[i].id <= r.id
        /\ \A i \in (c + 2)..(N + 1) : r.id <= new[i].id
    <3>1. ASSUME NEW i \in 1..c PROVE new[i].id <= r.id
      <4>1. i \in K /\ i \in 1..N
        BY <1>1, <1>3, <2>1
      <4>2. QED
        BY <1>4, <1>5, <4>1
    <3>2. ASSUME NEW i \in (c + 2)..(N + 1) PROVE r.id <= new[i].id
      <4>1. i - 1 \in (c + 1)..N /\ i - 1 \in 1..N /\ (i - 1) + 1 = i /\ i - 1 \notin 1..c
        BY <1>1, <1>3
      <4>2. new[i] = old[i - 1] /\ ~(old[i - 1].id <= r.id)
        BY <1>4, <1>5, <2>1, <4>1
      <4>3. QED
        BY <1>5, <4>1, <4>2
    <3>3. QED
      BY <3>1, <3>2
  <2>3. ASSUME NEW i \in 1..Len(new), NEW j \in 1..Len(new), i <= j PROVE new[i].id <= new[j].id
    <3>0. new[i].id \in Nat /\ new[j].id \in Nat
      BY <1>4, RecordFields
    <3>1. CASE i <= c /\ j <= c
      <4>1. i \in 1..c /\ j \in 1..c /\ i \in 1..N /\ j \in 1..N
        BY <1>1, <1>3, <3>1
      <4>2. QED
        BY <1>4, <1>13, <2>3, <4>1 DEF Monotone
    <3>2. CASE i <= c /\ j = c + 1
      <4>1. i \in 1..c
        BY <1>1, <1>3, <3>2
      <4>2. QED
        BY <1>4, <2>2, <3>2, <4>1
    <3>3. CASE i <= c /\ j > c + 1
      <4>1. i \in 1..c /\ j \in (c + 2)..(N + 1)
        BY <1>1, <1>3, <1>4, <3>3
      <4>2. QED
        BY <1>5, <2>2, <3>0, <4>1
    <3>4. CASE i = c + 1 /\ j = c + 1
      BY <3>0, <3>4
    <3>5. CASE i = c + 1 /\ j > c + 1
      <4>1. j \in (c + 2)..(N + 1)
        BY <1>1, <1>3, <1>4, <3>5
      <4>2. QED
        BY <1>4, <2>2, <3>5, <4>1
    <3>6. CASE i > c + 1 /\ j > c + 1
      <4>1. /\ i - 1 \in (c + 1)..N /\ j - 1 \in (c + 1)..N /\ i - 1 <= j - 1
            /\ (i - 1) + 1 = i /\ (j - 1) + 1 = j /\ i - 1 \in 1..N /\ j - 1 \in 1..N
        BY <1>1, <1>3, <1>4, <2>3, <3>6
      <4>2. QED
        BY <1>4, <1>13, <4>1 DEF Monotone
    <3>7. QED
      BY <1>1, <1>3, <1>4, <2>3, <3>1, <3>2, <3>3, <3>4, <3>5, <3>6
  <2>4. QED
    BY <2>3 DEF Monotone
<1>14. QED
  BY <1>2, <1>4, <1>10, <1>11, <1>12, <1>13

\* realign_stream_records: ids become positions, payloads and stamps stay.
LEMMA RenumberedParts ==
  ASSUME NEW recs \in Seq(Records)
  PROVE  /\ Renumbered(recs) \in Seq(Records)
         /\ TagsOf(Renumbered(recs)) = TagsOf(recs)
         /\ Stamps(Renumbered(recs)) = Stamps(recs)
         /\ Monotone(Renumbered(recs))
<1> DEFINE new == Renumbered(recs)
           N == Len(recs)
<1>1. N \in Nat /\ DOMAIN recs = 1..N /\ \A i \in 1..N : recs[i] \in Records
  OBVIOUS
<1>2. new = [i \in 1..N |-> [recs[i] EXCEPT !.id = i - 1]]
  BY <1>1 DEF Renumbered
<1>3. ASSUME NEW i \in 1..N
      PROVE  /\ [recs[i] EXCEPT !.id = i - 1] \in Records
             /\ new[i] = [recs[i] EXCEPT !.id = i - 1]
             /\ new[i].id = i - 1 /\ new[i].tag = recs[i].tag /\ new[i].ts = recs[i].ts
             /\ new[i].kind = recs[i].kind
  <2>1. i - 1 \in Nat /\ recs[i] \in Records
    BY <1>1
  <2>2. new[i] = [recs[i] EXCEPT !.id = i - 1]
    BY <1>2
  <2>3. QED
    BY <2>1, <2>2 DEF Records
<1> HIDE DEF new
<1>4. new \in Seq(Records) /\ Len(new) = N /\ DOMAIN new = 1..N
  BY <1>1, <1>2, <1>3
<1>5. TagsOf(new) = TagsOf(recs) /\ Stamps(new) = Stamps(recs)
  <2>1. /\ DOMAIN new = DOMAIN recs
        /\ \A i \in DOMAIN recs : /\ new[i].tag = recs[i].tag /\ new[i].ts = recs[i].ts
                                  /\ new[i].kind = recs[i].kind
    BY <1>1, <1>3, <1>4
  <2>2. TagsOf(new) = TagsOf(recs)
    BY <2>1 DEF TagsOf
  <2>3. Stamps(new) = Stamps(recs)
    BY <2>1 DEF Stamps
  <2>4. QED
    BY <2>2, <2>3
<1>6. Monotone(new)
  <2>1. ASSUME NEW i \in 1..Len(new), NEW j \in 1..Len(new), i <= j PROVE new[i].id <= new[j].id
    <3>1. i \in 1..N /\ j \in 1..N
      BY <1>4
    <3>2. new[i].id = i - 1 /\ new[j].id = j - 1
      BY <1>3, <3>1
    <3>3. QED
      BY <1>1, <2>1, <3>1, <3>2
  <2>2. QED
    BY <2>1 DEF Monotone
<1>7. QED
  BY <1>4, <1>5, <1>6 DEF new

\* compact_entries_to_latest_schema_and_metadata gives a stream in order.
LEMMA CompactParts ==
  ASSUME NEW recs \in Seq(Records), NEW r \in Records
  PROVE  CompactEntries(recs, r) \in Seq(Records) /\ Monotone(CompactEntries(recs, r))
<1> DEFINE retained == LatestOf(recs, {"SchemaChange"}) \cup LatestOf(recs, {"MetadataChange"})
<1>1. Retain(recs, retained) \in Seq(Records)
  BY RetainType
<1>2. Append(Retain(recs, retained), r) \in Seq(Records)
  BY <1>1
<1>3. CompactEntries(recs, r) = Renumbered(Append(Retain(recs, retained), r))
  BY DEF CompactEntries
<1> HIDE DEF retained
<1>4. QED
  BY <1>2, <1>3, RenumberedParts

-----------------------------------------------------------------------------
(* The inductive invariant.                                                *)

Cuts == {"short_write", "crash_in_append", "crash_in_rewrite"}
Uncut(fs) == fs \cap Cuts = {}
Completed(fs) == fs \cap {"rewrite_error", "sync_error"} = {}
Marked(fs) == fs \subseteq {"append_error", "crash", "crash_in_append", "crash_in_rewrite"}

\* While nothing was cut short, the file and the memory have every acknowledged
\* record, and no frame is torn.
AckedIsHeld ==
  Uncut(faulted) =>
    /\ Clean(file) /\ acked \subseteq TagsOf(file)
    /\ entries # Unloaded => acked \subseteq TagsOf(entries)

\* While no rewrite or fsync failed, ids are in order, and a file without a torn
\* frame is the memory.
OrderIsHeld ==
  Completed(faulted) =>
    /\ Monotone(LoadRecords(file))
    /\ entries # Unloaded => Monotone(entries) /\ (Clean(file) => file = entries)

\* The mark of a loaded stream is the latest time stamp of its rows.
MarkIsHeld ==
  Marked(faulted) /\ entries # Unloaded => high_water = LatestWriteTimestamp(entries)

WalInv == WalTypeOK /\ AckedIsHeld /\ OrderIsHeld /\ MarkIsHeld

\* A file is clean when every frame of it is a record.
LEMMA CleanIs ==
  ASSUME NEW f \in Seq(Frames) PROVE Clean(f) <=> f \in Seq(Records)
<1>1. ASSUME Clean(f) PROVE f \in Seq(Records)
  <2>1. \A i \in 1..Len(f) : f[i] \in Records
    BY <1>1 DEF Clean, Frames
  <2>2. QED
    BY <2>1
<1>2. ASSUME f \in Seq(Records) PROVE Clean(f)
  BY <1>2, WalConstants DEF Clean
<1>3. QED
  BY <1>1, <1>2

\* Records are frames, and files are put together of frames.
LEMMA FrameTypes ==
  /\ \A r \in Seq(Records) : r \in Seq(Frames)
  /\ <<Torn>> \in Seq(Frames)
  /\ \A f, g \in Seq(Frames) : f \o g \in Seq(Frames)
<1>1. ASSUME NEW r \in Seq(Records) PROVE r \in Seq(Frames)
  BY DEF Frames
<1>2. <<Torn>> \in Seq(Frames)
  BY DEF Frames
<1>3. QED
  BY <1>1, <1>2

\* What a command finds when it has hydrated the stream.
HydratedOK ==
  /\ Hydrated \in Seq(Records)
  /\ file \in Seq(Frames)
  /\ HydratedHighWater \in Nat
  /\ Uncut(faulted) => /\ Clean(file) /\ acked \subseteq TagsOf(file)
                       /\ acked \subseteq TagsOf(Hydrated)
  /\ Completed(faulted) => /\ Monotone(LoadRecords(file)) /\ Monotone(Hydrated)
                           /\ Clean(file) => file = Hydrated
  /\ Marked(faulted) => HydratedHighWater = LatestWriteTimestamp(Hydrated)

\* ensure_hydrated gives a command the records and the mark the invariant speaks of.
LEMMA HydrationIsSound ==
  ASSUME WalInv PROVE HydratedOK
<1>1. file \in Seq(Frames) /\ high_water \in Nat
  BY DEF WalInv, WalTypeOK, Frames
<1>2. LoadRecords(file) \in Seq(Records) /\ (Clean(file) => LoadRecords(file) = file)
  BY <1>1, LoadProperties
<1>3. CASE entries = Unloaded
  <2>1. Hydrated = LoadRecords(file) /\ HydratedHighWater = LatestWriteTimestamp(Hydrated)
    BY <1>3 DEF Hydrated, HydratedHighWater
  <2>2. HydratedHighWater \in Nat
    BY <1>2, <2>1, LwtProperties, WalConstants
  <2>3. QED
    BY <1>1, <1>2, <2>1, <2>2 DEF HydratedOK, WalInv, AckedIsHeld, OrderIsHeld
<1>4. CASE entries # Unloaded
  <2>1. Hydrated = entries /\ HydratedHighWater = high_water /\ entries \in Seq(Records)
    BY <1>4 DEF Hydrated, HydratedHighWater, WalInv, WalTypeOK
  <2>2. QED
    BY <1>1, <1>4, <2>1 DEF HydratedOK, WalInv, AckedIsHeld, OrderIsHeld, MarkIsHeld
<1>5. QED
  BY <1>3, <1>4

\* What append_wal_bytes leaves in the file.
LEMMA AppendKeeps ==
  ASSUME HydratedOK, NEW recs \in Seq(Records), IsOrdered(Hydrated, recs),
         NEW o \in AppendOutcomes(recs)
  PROVE  /\ o.file \in Seq(Frames)
         /\ Uncut(faulted) /\ Uncut(o.faults) =>
              /\ Clean(o.file) /\ TagsOf(file) \subseteq TagsOf(o.file)
              /\ o.ok => TagsOf(recs) \subseteq TagsOf(o.file)
         /\ Completed(faulted) /\ Completed(o.faults) =>
              /\ Monotone(LoadRecords(o.file))
              /\ Clean(o.file) => o.file = IF o.ok THEN Hydrated \o recs ELSE Hydrated
<1>0. file \in Seq(Frames) /\ Hydrated \in Seq(Records) /\ recs \in Seq(Frames)
  BY FrameTypes DEF HydratedOK
<1>1. recs \in Prefixes(recs)
  BY ProperArePrefixes
<1>2. ASSUME Clean(file) PROVE file \in Seq(Records) /\ LoadRecords(file) = file
  BY <1>0, <1>2, CleanIs, LoadProperties
<1>3. ASSUME Clean(file), Completed(faulted), NEW p \in Prefixes(recs)
      PROVE  Monotone(file \o p)
  <2>1. file = Hydrated /\ Monotone(Hydrated)
    BY <1>3 DEF HydratedOK
  <2>2. QED
    BY <1>0, <1>3, <2>1, OrderedConcat
<1>4. \/ o = Outcome({}, TRUE, file \o recs)
      \/ o = Outcome({"append_error"}, FALSE, file)
      \/ o = Outcome({"sync_error"}, FALSE, file \o recs)
      \/ \E p \in ProperPrefixes(recs) :
           \/ o = Outcome({"short_write"}, TRUE, file \o p \o <<Torn>> \o recs)
           \/ o = Outcome({"short_write"}, FALSE, file \o p \o <<Torn>>)
  BY DEF AppendOutcomes
<1>5. CASE o.file = file \o recs /\ (o.ok \/ ~Completed(o.faults))
  <2>1. o.file \in Seq(Frames)
    BY <1>0, <1>5, FrameTypes
  <2>2. CASE Clean(file)
    <3>1. /\ file \o recs \in Seq(Records) /\ Clean(file \o recs)
          /\ LoadRecords(file \o recs) = file \o recs
      <4>1. file \o recs \in Seq(Records)
        BY <1>2, <2>2
      <4>2. file \o recs \in Seq(Frames)
        BY <1>5, <2>1
      <4>3. QED
        BY <4>1, <4>2, CleanIs, LoadProperties
    <3>2. TagsOf(file \o recs) = TagsOf(file) \cup TagsOf(recs)
      BY <1>2, <2>2, ConcatParts
    <3>3. Completed(faulted) => Monotone(file \o recs) /\ file = Hydrated
      BY <1>1, <1>3, <2>2 DEF HydratedOK
    <3>4. QED
      BY <1>5, <2>1, <3>1, <3>2, <3>3
  <2>3. CASE ~Clean(file)
    <3>1. LoadRecords(file \o recs) = LoadRecords(file) /\ ~Clean(file \o recs)
      BY <1>0, <2>3, LoadAfterTorn
    <3>2. QED
      BY <1>5, <2>1, <2>3, <3>1 DEF HydratedOK
  <2>4. QED
    BY <2>2, <2>3
<1>6. CASE o.file = file /\ ~o.ok
  BY <1>0, <1>6 DEF HydratedOK
<1>7. CASE \E p \in ProperPrefixes(recs) :
             \/ o = Outcome({"short_write"}, TRUE, file \o p \o <<Torn>> \o recs)
             \/ o = Outcome({"short_write"}, FALSE, file \o p \o <<Torn>>)
  <2>1. PICK p \in ProperPrefixes(recs) :
             \/ o = Outcome({"short_write"}, TRUE, file \o p \o <<Torn>> \o recs)
             \/ o = Outcome({"short_write"}, FALSE, file \o p \o <<Torn>>)
    BY <1>7
  <2>2. p \in Prefixes(recs)
    BY ProperArePrefixes
  <2>3. p \in Seq(Records) /\ p \in Seq(Frames)
    BY <2>2, PrefixOfMonotone, FrameTypes
  <2> DEFINE torn == file \o p \o <<Torn>>
  <2>4. file \o p \in Seq(Frames) /\ torn \in Seq(Frames) /\ torn \o recs \in Seq(Frames)
    BY <1>0, <2>3, FrameTypes
  <2>5. ~Clean(torn) /\ ~Clean(torn \o recs)
        /\ (Completed(faulted) => Monotone(LoadRecords(torn)) /\ Monotone(LoadRecords(torn \o recs)))
    <3>1. CASE Clean(file)
      <4>1. file \o p \in Seq(Records)
        BY <1>2, <2>3, <3>1
      <4>2. /\ LoadRecords(torn) = file \o p /\ ~Clean(torn)
            /\ LoadRecords(torn \o recs) = file \o p /\ ~Clean(torn \o recs)
        BY <1>0, <4>1, LoadUpToTorn
      <4>3. QED
        BY <1>3, <2>2, <3>1, <4>2
    <3>2. CASE ~Clean(file)
      <4>1. LoadRecords(file \o p) = LoadRecords(file) /\ ~Clean(file \o p)
        BY <1>0, <2>3, <3>2, LoadAfterTorn
      <4>2. LoadRecords(torn) = LoadRecords(file) /\ ~Clean(torn)
        BY <2>4, <4>1, LoadAfterTorn, FrameTypes
      <4>3. LoadRecords(torn \o recs) = LoadRecords(file) /\ ~Clean(torn \o recs)
        BY <1>0, <2>4, <4>2, LoadAfterTorn
      <4>4. QED
        BY <4>2, <4>3 DEF HydratedOK
    <3>3. QED
      BY <3>1, <3>2
  <2>6. o.file = torn \o recs \/ o.file = torn
    BY <2>1 DEF Outcome
  <2>7. ~Uncut(o.faults)
    <3>1. o.faults = {"short_write"}
      BY <2>1 DEF Outcome
    <3>2. QED
      BY <3>1 DEF Uncut, Cuts
  <2> HIDE DEF torn
  <2>8. QED
    BY <2>4, <2>5, <2>6, <2>7
<1>8. ASSUME o = Outcome({}, TRUE, file \o recs) \/ o = Outcome({"sync_error"}, FALSE, file \o recs)
      PROVE  o.file = file \o recs /\ (o.ok \/ ~Completed(o.faults))
  <2>1. CASE o = Outcome({}, TRUE, file \o recs)
    BY <2>1 DEF Outcome
  <2>2. CASE o = Outcome({"sync_error"}, FALSE, file \o recs)
    <3>1. o.file = file \o recs /\ o.faults = {"sync_error"}
      BY <2>2 DEF Outcome
    <3>2. QED
      BY <3>1 DEF Completed
  <2>3. QED
    BY <1>8, <2>1, <2>2
<1>9. ASSUME o = Outcome({"append_error"}, FALSE, file) PROVE o.file = file /\ ~o.ok
  BY <1>9 DEF Outcome
<1>10. QED
  BY <1>4, <1>5, <1>6, <1>7, <1>8, <1>9

\* What rewrite_wal_file leaves in the file.
LEMMA RewriteKeeps ==
  ASSUME HydratedOK, NEW new \in Seq(Records), NEW o \in RewriteOutcomes(new)
  PROVE  /\ o.file \in Seq(Frames)
         /\ Uncut(faulted) /\ Uncut(o.faults) =>
              Clean(o.file) /\ (o.file = new \/ o.file = file) /\ (o.ok => o.file = new)
         /\ Completed(o.faults) /\ Monotone(new) => Monotone(LoadRecords(o.file))
         /\ Completed(o.faults) /\ Clean(o.file) => o.file = new /\ o.ok
         /\ Marked(o.faults) => o.ok
<1>0. /\ file \in Seq(Frames) /\ new \in Seq(Frames) /\ Clean(new) /\ LoadRecords(new) = new
  BY FrameTypes, CleanIs, LoadProperties DEF HydratedOK
<1>1. \/ o = Outcome({}, TRUE, new)
      \/ o = Outcome({"rewrite_error"}, FALSE, file)
      \/ o = Outcome({"sync_error"}, FALSE, new)
      \/ \E p \in ProperPrefixes(new) : o = Outcome({"short_write"}, FALSE, p \o <<Torn>>)
  BY DEF RewriteOutcomes
<1>2. CASE o = Outcome({}, TRUE, new)
  <2>1. o.file = new /\ o.ok
    BY <1>2 DEF Outcome
  <2>2. QED
    BY <1>0, <2>1
<1>3. CASE o = Outcome({"rewrite_error"}, FALSE, file)
  <2>1. o.file = file /\ ~o.ok /\ ~Completed(o.faults) /\ ~Marked(o.faults)
    BY <1>3 DEF Outcome, Completed, Marked
  <2>2. QED
    BY <1>0, <2>1 DEF HydratedOK
<1>4. CASE o = Outcome({"sync_error"}, FALSE, new)
  <2>1. o.file = new /\ ~o.ok /\ ~Completed(o.faults) /\ ~Marked(o.faults)
    BY <1>4 DEF Outcome, Completed, Marked
  <2>2. QED
    BY <1>0, <2>1
<1>5. CASE \E p \in ProperPrefixes(new) : o = Outcome({"short_write"}, FALSE, p \o <<Torn>>)
  <2>1. PICK p \in ProperPrefixes(new) : o = Outcome({"short_write"}, FALSE, p \o <<Torn>>)
    BY <1>5
  <2>2. p \in Prefixes(new)
    BY ProperArePrefixes
  <2>3. p \in Seq(Records) /\ (Monotone(new) => Monotone(p)) /\ p \o <<Torn>> \in Seq(Frames)
    BY <2>2, PrefixOfMonotone, FrameTypes
  <2>4. LoadRecords(p \o <<Torn>>) = p /\ ~Clean(p \o <<Torn>>)
    BY <2>3, LoadUpToTorn, FrameTypes
  <2>5. o.file = p \o <<Torn>> /\ ~Uncut(o.faults) /\ ~Marked(o.faults)
    BY <2>1 DEF Outcome, Uncut, Cuts, Marked
  <2>6. QED
    BY <2>3, <2>4, <2>5
<1>6. QED
  BY <1>1, <1>2, <1>3, <1>4, <1>5

-----------------------------------------------------------------------------
(* The steps.                                                              *)

\* A fault is never forgotten.
LEMMA FaultsGrow ==
  ASSUME NEW fs, Suffer(fs)
  PROVE  /\ Uncut(faulted') => Uncut(faulted) /\ Uncut(fs)
         /\ Completed(faulted') => Completed(faulted) /\ Completed(fs)
         /\ Marked(faulted') => Marked(faulted) /\ Marked(fs)
<1>1. faulted' = faulted \cup fs
  BY DEF Suffer
<1>2. Uncut(faulted') => Uncut(faulted) /\ Uncut(fs)
  BY <1>1 DEF Uncut
<1>3. Completed(faulted') => Completed(faulted) /\ Completed(fs)
  BY <1>1 DEF Completed
<1>4. Marked(faulted') => Marked(faulted) /\ Marked(fs)
  BY <1>1 DEF Marked
<1>5. QED
  BY <1>2, <1>3, <1>4

\* The parts of the state whose types every command keeps.
OthersOK == /\ file' \in Seq(Frames) /\ acked' \subseteq 1..MaxWrites
            /\ writes' \in 0..MaxWrites /\ faulted' \subseteq Faults

\* The invariant of a stream that has left the memory.
LEMMA AfterUnloading ==
  ASSUME OthersOK, entries' = Unloaded, high_water' = 0,
         Uncut(faulted') => Clean(file') /\ acked' \subseteq TagsOf(file'),
         Completed(faulted') => Monotone(LoadRecords(file'))
  PROVE  WalInv'
<1>1. WalTypeOK'
  BY DEF WalTypeOK, OthersOK, Frames
<1>2. AckedIsHeld' /\ OrderIsHeld' /\ MarkIsHeld'
  BY DEF AckedIsHeld, OrderIsHeld, MarkIsHeld
<1>3. QED
  BY <1>1, <1>2 DEF WalInv

\* The invariant of a stream that is in memory.
LEMMA AfterCommand ==
  ASSUME OthersOK, NEW e \in Seq(Records), entries' = e, high_water' \in Nat,
         Uncut(faulted') => /\ Clean(file') /\ acked' \subseteq TagsOf(file')
                            /\ acked' \subseteq TagsOf(e),
         Completed(faulted') => /\ Monotone(LoadRecords(file')) /\ Monotone(e)
                                /\ Clean(file') => file' = e,
         Marked(faulted') => high_water' = LatestWriteTimestamp(e)
  PROVE  WalInv'
<1>1. WalTypeOK'
  BY DEF WalTypeOK, OthersOK, Frames
<1>2. AckedIsHeld'
  BY DEF AckedIsHeld
<1>3. OrderIsHeld'
  BY DEF OrderIsHeld
<1>4. MarkIsHeld'
  BY DEF MarkIsHeld
<1>5. QED
  BY <1>1, <1>2, <1>3, <1>4 DEF WalInv

\* The larger of two marks is a mark.
LEMMA MaxOfTwo ==
  ASSUME NEW x \in Nat, NEW y \in Nat PROVE Max({x, y}) \in Nat
<1>1. CASE x >= y
  <2>1. Max({x, y}) = x
    BY <1>1 DEF Max
  <2>2. QED
    BY <2>1
<1>2. CASE ~(x >= y)
  <2>1. Max({x, y}) = y
    BY <1>2 DEF Max
  <2>2. QED
    BY <2>1
<1>3. QED
  BY <1>1, <1>2

\* The records a caller may submit: ids beyond the stream's, or one id it has not.
Submittable(recs) ==
  /\ recs \in Seq(Records)
  /\ \/ IsOrdered(Hydrated, recs)
     \/ \E r \in Records : recs = <<r>> /\ \A i \in DOMAIN Hydrated : Hydrated[i].id # r.id

\* What a submitted sequence makes of the stream, appended or merged.
Submitted(recs) ==
  IF IsOrdered(Hydrated, recs) THEN Hydrated \o recs ELSE MergeRecords(Hydrated, recs)

\* Appended or merged, the stream gains the submitted records and keeps its order.
LEMMA SubmittedParts ==
  ASSUME HydratedOK, NEW recs, Submittable(recs)
  PROVE  /\ Submitted(recs) \in Seq(Records)
         /\ TagsOf(Submitted(recs)) = TagsOf(Hydrated) \cup TagsOf(recs)
         /\ Stamps(Submitted(recs)) = Stamps(Hydrated) \cup Stamps(recs)
         /\ Monotone(Hydrated) => Monotone(Submitted(recs))
         /\ ~IsOrdered(Hydrated, recs) => Submitted(recs) # Hydrated
<1>0. Hydrated \in Seq(Records) /\ recs \in Seq(Records)
  BY DEF HydratedOK, Submittable
<1>1. CASE IsOrdered(Hydrated, recs)
  <2>1. Submitted(recs) = Hydrated \o recs
    BY <1>1 DEF Submitted
  <2>2. Hydrated \o recs \in Seq(Records)
    BY <1>0
  <2>3. recs \in Prefixes(recs)
    BY <1>0, ProperArePrefixes
  <2>4. Monotone(Hydrated) => Monotone(Hydrated \o recs)
    BY <1>0, <1>1, <2>3, OrderedConcat
  <2>5. QED
    BY <1>0, <1>1, <2>1, <2>2, <2>4, ConcatParts
<1>2. CASE ~IsOrdered(Hydrated, recs)
  <2>1. PICK r \in Records : recs = <<r>> /\ \A i \in DOMAIN Hydrated : Hydrated[i].id # r.id
    BY <1>2 DEF Submittable
  <2>2. Submitted(recs) = InsertSorted(Hydrated, r)
    BY <1>2, <2>1, MergeOne DEF Submitted
  <2>3. TagsOf(recs) = {r.tag}
    BY <2>1 DEF TagsOf
  <2>4. QED
    BY <1>0, <2>1, <2>2, <2>3, InsertSortedParts
<1>3. QED
  BY <1>1, <1>2

\* The Append and AppendBatch commands.
LEMMA SubmitStep ==
  ASSUME WalInv, NEW recs, Submittable(recs), Submit(recs), writes' \in 0..MaxWrites
  PROVE  WalInv'
<1> DEFINE new == Submitted(recs)
           ordered == IsOrdered(Hydrated, recs)
           outcomes == IF ordered THEN AppendOutcomes(recs)
                       ELSE IF new = Hydrated THEN {Outcome({}, TRUE, file)}
                       ELSE RewriteOutcomes(new)
<1>0. HydratedOK
  BY HydrationIsSound
<1>1. PICK o \in outcomes :
        /\ Suffer(o.faults)
        /\ file' = o.file
        /\ IF o.ok
           THEN /\ entries' = new
                /\ high_water' = Max({HydratedHighWater, LatestWriteTimestamp(recs)})
                /\ acked' = acked \cup TagsOf(recs)
           ELSE /\ entries' = Hydrated
                /\ high_water' = HydratedHighWater
                /\ UNCHANGED acked
  BY DEF Submit, Submitted, TagsOf
<1>2. /\ new \in Seq(Records)
      /\ TagsOf(new) = TagsOf(Hydrated) \cup TagsOf(recs)
      /\ Stamps(new) = Stamps(Hydrated) \cup Stamps(recs)
      /\ Monotone(Hydrated) => Monotone(new)
      /\ ~ordered => new # Hydrated
  BY <1>0, SubmittedParts
<1>3. Hydrated \in Seq(Records) /\ recs \in Seq(Records) /\ HydratedHighWater \in Nat
  BY <1>0 DEF HydratedOK, Submittable
<1> HIDE DEF new, ordered
<1>4. /\ o.file \in Seq(Frames)
      /\ Uncut(faulted) /\ Uncut(o.faults) =>
           /\ Clean(o.file) /\ acked \subseteq TagsOf(o.file)
           /\ o.ok => TagsOf(recs) \subseteq TagsOf(o.file)
      /\ Completed(faulted) /\ Completed(o.faults) =>
           /\ Monotone(LoadRecords(o.file))
           /\ Clean(o.file) => o.file = IF o.ok THEN new ELSE Hydrated
  <2>1. CASE ordered
    <3>1. o \in AppendOutcomes(recs) /\ new = Hydrated \o recs /\ IsOrdered(Hydrated, recs)
      BY <2>1 DEF ordered, new, Submitted
    <3>2. QED
      BY <1>0, <1>3, <3>1, AppendKeeps DEF HydratedOK
  <2>2. CASE ~ordered
    <3>1. o \in RewriteOutcomes(new)
      BY <1>2, <2>2
    <3>2. QED
      BY <1>0, <1>2, <3>1, RewriteKeeps DEF HydratedOK
  <2>3. QED
    BY <2>1, <2>2
<1>5. /\ Uncut(faulted') => Uncut(faulted) /\ Uncut(o.faults)
      /\ Completed(faulted') => Completed(faulted) /\ Completed(o.faults)
      /\ Marked(faulted') => Marked(faulted) /\ Marked(o.faults)
  BY <1>1, FaultsGrow
<1>6. OthersOK
  <2>1. TagsOf(recs) \subseteq 1..MaxWrites
    BY <1>3, RecordFields DEF TagsOf
  <2>2. acked' \subseteq 1..MaxWrites
    BY <1>1, <2>1 DEF WalInv, WalTypeOK
  <2>3. faulted' \subseteq Faults
    BY <1>1 DEF Suffer, WalInv, WalTypeOK
  <2>4. QED
    BY <1>1, <1>4, <2>2, <2>3 DEF OthersOK
<1>7. CASE o.ok
  <2>1. /\ entries' = new /\ acked' = acked \cup TagsOf(recs) /\ file' = o.file
        /\ high_water' = Max({HydratedHighWater, LatestWriteTimestamp(recs)})
    BY <1>1, <1>7
  <2>2. LatestWriteTimestamp(recs) \in Nat
    BY <1>3, LwtProperties, WalConstants
  <2>3. high_water' \in Nat
    BY <1>3, <2>1, <2>2, MaxOfTwo
  <2>4. Marked(faulted') => high_water' = LatestWriteTimestamp(new)
    <3>1. LatestWriteTimestamp(new) =
            Max({LatestWriteTimestamp(Hydrated), LatestWriteTimestamp(recs)})
      BY <1>2, <1>3, LwtOfUnion
    <3>2. QED
      BY <1>0, <1>5, <2>1, <3>1 DEF HydratedOK
  <2>5. Uncut(faulted') => /\ Clean(file') /\ acked' \subseteq TagsOf(file')
                           /\ acked' \subseteq TagsOf(new)
    BY <1>0, <1>2, <1>4, <1>5, <1>7, <2>1 DEF HydratedOK
  <2>6. Completed(faulted') => /\ Monotone(LoadRecords(file')) /\ Monotone(new)
                               /\ Clean(file') => file' = new
    BY <1>0, <1>2, <1>4, <1>5, <1>7, <2>1 DEF HydratedOK
  <2>7. QED
    BY <1>2, <1>6, <2>1, <2>3, <2>4, <2>5, <2>6, AfterCommand
<1>8. CASE ~o.ok
  <2>1. /\ entries' = Hydrated /\ acked' = acked /\ file' = o.file
        /\ high_water' = HydratedHighWater
    BY <1>1, <1>8
  <2>2. Uncut(faulted') => /\ Clean(file') /\ acked' \subseteq TagsOf(file')
                           /\ acked' \subseteq TagsOf(Hydrated)
    BY <1>0, <1>4, <1>5, <2>1 DEF HydratedOK
  <2>3. Completed(faulted') => /\ Monotone(LoadRecords(file')) /\ Monotone(Hydrated)
                               /\ Clean(file') => file' = Hydrated
    BY <1>0, <1>4, <1>5, <1>8, <2>1 DEF HydratedOK
  <2>4. Marked(faulted') => high_water' = LatestWriteTimestamp(Hydrated)
    BY <1>0, <1>5, <2>1 DEF HydratedOK
  <2>5. QED
    BY <1>3, <1>6, <2>1, <2>2, <2>3, <2>4, AfterCommand
<1>9. QED
  BY <1>7, <1>8

\* The records the log builds: the clock is the number of writes.
LEMMA NewRecordType ==
  ASSUME WalTypeOK, NEW n \in Nat \ {0}, writes + n <= MaxWrites, NEW id \in Nat,
         NEW kind \in DataKinds \cup {"SchemaChange", "MetadataChange", "Truncate"}
  PROVE  NewRecord(n, id, kind) \in Records /\ NewRecord(n, id, kind).id = id
<1>1. writes \in Nat /\ MaxWrites \in Nat
  BY WalConstants DEF WalTypeOK
<1>2. writes + n \in 0..MaxWrites /\ writes + n \in 1..MaxWrites
  BY <1>1
<1>3. NewRecord(n, id, kind) = [id |-> id, kind |-> kind, ts |-> writes + n, tag |-> writes + n]
  BY DEF NewRecord
<1>4. QED
  BY <1>2, <1>3 DEF Records

\* The next id of a stream is beyond its last one.
LEMMA NextIdIsOrdered ==
  ASSUME NEW old \in Seq(Records), NEW r \in Records, r.id = LatestTransactionId(old) + 1
  PROVE  /\ LatestTransactionId(old) \in Nat
         /\ IsOrdered(old, <<r>>)
         /\ \A s \in Records : s.id = r.id + 1 => IsOrdered(old, <<r, s>>)
<1>1. CASE old = <<>>
  <2>1. LatestTransactionId(old) = 0
    BY <1>1 DEF LatestTransactionId
  <2>2. IsOrdered(old, <<r>>)
    BY <1>1 DEF IsOrdered
  <2>3. ASSUME NEW s \in Records, s.id = r.id + 1 PROVE IsOrdered(old, <<r, s>>)
    BY <1>1, <2>1, <2>3 DEF IsOrdered
  <2>4. QED
    BY <2>1, <2>2, <2>3
<1>2. CASE old # <<>>
  <2>0. Len(old) \in 1..Len(old)
    BY <1>2
  <2>1. LatestTransactionId(old) \in Nat
    BY <1>2, <2>0, RecordFields DEF LatestTransactionId
  <2>2. IsOrdered(old, <<r>>)
    <3>1. Len(<<r>>) = 1 /\ <<r>>[1] = r
      OBVIOUS
    <3>2. AscendingFrom(LatestTransactionId(old), <<r>>)
      BY <2>1, <3>1 DEF AscendingFrom
    <3>3. QED
      BY <1>2, <3>2 DEF IsOrdered
  <2>3. ASSUME NEW s \in Records, s.id = r.id + 1 PROVE IsOrdered(old, <<r, s>>)
    <3>1. Len(<<r, s>>) = 2 /\ <<r, s>>[1] = r /\ <<r, s>>[2] = s
      OBVIOUS
    <3>2. AscendingFrom(LatestTransactionId(old), <<r, s>>)
      BY <2>1, <2>3, <3>1 DEF AscendingFrom
    <3>3. QED
      BY <1>2, <3>2 DEF IsOrdered
  <2>4. QED
    BY <2>1, <2>2, <2>3
<1>3. QED
  BY <1>1, <1>2

\* An id is a number, whatever the stream.
LEMMA LatestIdType ==
  ASSUME NEW old \in Seq(Records) PROVE LatestTransactionId(old) \in Nat
<1>1. CASE old = <<>>
  BY <1>1 DEF LatestTransactionId
<1>2. CASE old # <<>>
  <2>1. Len(old) \in 1..Len(old)
    BY <1>2
  <2>2. QED
    BY <1>2, <2>1, RecordFields DEF LatestTransactionId
<1>3. QED
  BY <1>1, <1>2

\* append_with_context.
LEMMA AppendRecordStep ==
  ASSUME WalInv, NEW kind \in Kinds, AppendRecord(kind) PROVE WalInv'
<1> DEFINE id == LatestTransactionId(Hydrated) + 1
           r == NewRecord(1, id, kind)
<1>1. /\ writes < MaxWrites /\ writes' = writes + 1 /\ Submit(<<r>>)
  BY DEF AppendRecord
<1>2. Hydrated \in Seq(Records) /\ WalTypeOK
  BY HydrationIsSound DEF HydratedOK, WalInv
<1>3. writes \in Nat /\ MaxWrites \in Nat /\ writes + 1 <= MaxWrites
  BY <1>1, <1>2, WalConstants DEF WalTypeOK
<1>4. LatestTransactionId(Hydrated) \in Nat /\ id \in Nat
  BY <1>2, LatestIdType
<1>5. kind \in DataKinds \cup {"SchemaChange", "MetadataChange", "Truncate"}
  BY WalConstants
<1>6. r \in Records /\ r.id = id
  <2> HIDE DEF id
  <2>1. QED
    BY <1>2, <1>3, <1>4, <1>5, NewRecordType
<1>7. Submittable(<<r>>)
  <2> HIDE DEF r
  <2>1. IsOrdered(Hydrated, <<r>>)
    BY <1>2, <1>6, NextIdIsOrdered
  <2>2. QED
    BY <1>6, <2>1 DEF Submittable
<1>8. writes' \in 0..MaxWrites
  BY <1>1, <1>3
<1> HIDE DEF r
<1>9. QED
  BY <1>1, <1>7, <1>8, SubmitStep

\* append_batch.
LEMMA AppendBatchStep ==
  ASSUME WalInv, AppendBatch PROVE WalInv'
<1> DEFINE id == LatestTransactionId(Hydrated) + 1
           r == NewRecord(1, id, "Insert")
           s == NewRecord(2, id + 1, "Insert")
<1>1. /\ writes + 1 < MaxWrites /\ writes' = writes + 2 /\ Submit(<<r, s>>)
  BY DEF AppendBatch
<1>2. Hydrated \in Seq(Records) /\ WalTypeOK
  BY HydrationIsSound DEF HydratedOK, WalInv
<1>3. writes \in Nat /\ MaxWrites \in Nat /\ writes + 1 <= MaxWrites /\ writes + 2 <= MaxWrites
  BY <1>1, <1>2, WalConstants DEF WalTypeOK
<1>4. LatestTransactionId(Hydrated) \in Nat /\ id \in Nat /\ id + 1 \in Nat
  BY <1>2, LatestIdType
<1>5. "Insert" \in DataKinds
  BY DEF DataKinds
<1>6. r \in Records /\ r.id = id
  <2> HIDE DEF id
  <2>1. QED
    BY <1>2, <1>3, <1>4, <1>5, NewRecordType
<1>7. s \in Records /\ s.id = id + 1
  <2> HIDE DEF id
  <2>1. QED
    BY <1>2, <1>3, <1>4, <1>5, NewRecordType
<1>8. Submittable(<<r, s>>)
  <2> HIDE DEF r, s
  <2>1. IsOrdered(Hydrated, <<r, s>>)
    BY <1>2, <1>6, <1>7, NextIdIsOrdered
  <2>2. QED
    BY <1>6, <1>7, <2>1 DEF Submittable
<1>9. writes' \in 0..MaxWrites
  BY <1>1, <1>3
<1> HIDE DEF r, s
<1>10. QED
  BY <1>1, <1>8, <1>9, SubmitStep

\* import_record: the record of a peer.
LEMMA ImportRecordStep ==
  ASSUME WalInv, NEW id \in ImportIds, NEW kind \in Kinds, ImportRecord(id, kind) PROVE WalInv'
<1> DEFINE r == NewRecord(1, id, kind)
<1>1. /\ writes < MaxWrites /\ writes' = writes + 1 /\ Submit(<<r>>)
      /\ id \notin {Hydrated[i].id : i \in DOMAIN Hydrated}
  BY DEF ImportRecord
<1>2. Hydrated \in Seq(Records) /\ WalTypeOK
  BY HydrationIsSound DEF HydratedOK, WalInv
<1>3. writes \in Nat /\ MaxWrites \in Nat /\ writes + 1 <= MaxWrites
  BY <1>1, <1>2, WalConstants DEF WalTypeOK
<1>4. id \in Nat /\ kind \in DataKinds \cup {"SchemaChange", "MetadataChange", "Truncate"}
  BY WalConstants
<1>5. r \in Records /\ r.id = id
  BY <1>2, <1>3, <1>4, NewRecordType
<1> HIDE DEF r
<1>6. Submittable(<<r>>)
  <2>1. \A i \in DOMAIN Hydrated : Hydrated[i].id # r.id
    BY <1>1, <1>5
  <2>2. QED
    BY <1>5, <2>1 DEF Submittable
<1>7. writes' \in 0..MaxWrites
  BY <1>1, <1>3
<1>8. QED
  BY <1>1, <1>6, <1>7, SubmitStep

\* compact_stream, for TRUNCATE TABLE.
LEMMA CompactStep ==
  ASSUME WalInv, CompactStream PROVE WalInv'
<1> DEFINE r == NewRecord(1, 0, "Truncate")
           new == CompactEntries(Hydrated, r)
<1>1. /\ writes < MaxWrites /\ writes' = writes + 1 /\ entries' = new
      /\ acked' = acked \cap TagsOf(new)
  BY DEF CompactStream
<1>2. PICK o \in RewriteOutcomes(new) :
        /\ Suffer(o.faults) /\ file' = o.file
        /\ high_water' = IF o.ok THEN LatestWriteTimestamp(new) ELSE HydratedHighWater
  BY DEF CompactStream
<1>3. HydratedOK /\ Hydrated \in Seq(Records) /\ HydratedHighWater \in Nat /\ WalTypeOK
  BY HydrationIsSound DEF HydratedOK, WalInv
<1>4. writes \in Nat /\ MaxWrites \in Nat /\ writes + 1 <= MaxWrites
  BY <1>1, <1>3, WalConstants DEF WalTypeOK
<1>5. r \in Records
  BY <1>3, <1>4, NewRecordType
<1>6. new \in Seq(Records) /\ Monotone(new)
  BY <1>3, <1>5, CompactParts
<1> HIDE DEF new
<1>7. /\ o.file \in Seq(Frames)
      /\ Uncut(faulted) /\ Uncut(o.faults) =>
           Clean(o.file) /\ (o.file = new \/ o.file = file) /\ (o.ok => o.file = new)
      /\ Completed(o.faults) /\ Monotone(new) => Monotone(LoadRecords(o.file))
      /\ Completed(o.faults) /\ Clean(o.file) => o.file = new /\ o.ok
      /\ Marked(o.faults) => o.ok
  BY <1>3, <1>6, RewriteKeeps
<1>8. /\ Uncut(faulted') => Uncut(faulted) /\ Uncut(o.faults)
      /\ Completed(faulted') => Completed(faulted) /\ Completed(o.faults)
      /\ Marked(faulted') => Marked(faulted) /\ Marked(o.faults)
  BY <1>2, FaultsGrow
<1>9. OthersOK
  <2>1. faulted' \subseteq Faults
    BY <1>2 DEF Suffer, WalInv, WalTypeOK
  <2>2. acked \subseteq 1..MaxWrites
    BY <1>3 DEF WalTypeOK
  <2>3. acked' \subseteq 1..MaxWrites
    BY <1>1, <2>2
  <2>4. writes' \in 0..MaxWrites
    BY <1>1, <1>4
  <2>5. QED
    BY <1>2, <1>7, <2>1, <2>3, <2>4 DEF OthersOK
<1>10. high_water' \in Nat
  <2>1. LatestWriteTimestamp(new) \in Nat
    BY <1>6, LwtProperties, WalConstants
  <2>2. QED
    BY <1>2, <1>3, <2>1
<1>11. Uncut(faulted') => /\ Clean(file') /\ acked' \subseteq TagsOf(file')
                          /\ acked' \subseteq TagsOf(new)
  BY <1>1, <1>2, <1>3, <1>7, <1>8 DEF HydratedOK
<1>12. Completed(faulted') => /\ Monotone(LoadRecords(file')) /\ Monotone(new)
                              /\ Clean(file') => file' = new
  BY <1>2, <1>6, <1>7, <1>8
<1>13. Marked(faulted') => high_water' = LatestWriteTimestamp(new)
  BY <1>2, <1>7, <1>8
<1>14. QED
  BY <1>1, <1>6, <1>9, <1>10, <1>11, <1>12, <1>13, AfterCommand

\* realign_stream_records.
LEMMA RealignStep ==
  ASSUME WalInv, RealignStream PROVE WalInv'
<1> DEFINE new == Renumbered(Hydrated)
<1>1. PICK o \in RewriteOutcomes(new) :
        /\ Suffer(o.faults) /\ file' = o.file
        /\ entries' = IF o.ok THEN new ELSE Hydrated
  BY DEF RealignStream
<1>2. high_water' = HydratedHighWater /\ acked' = acked /\ writes' = writes
  BY DEF RealignStream
<1>3. HydratedOK /\ Hydrated \in Seq(Records) /\ HydratedHighWater \in Nat /\ WalTypeOK
  BY HydrationIsSound DEF HydratedOK, WalInv
<1>4. /\ new \in Seq(Records) /\ TagsOf(new) = TagsOf(Hydrated)
      /\ Stamps(new) = Stamps(Hydrated) /\ Monotone(new)
  BY <1>3, RenumberedParts
<1> HIDE DEF new
<1>5. /\ o.file \in Seq(Frames)
      /\ Uncut(faulted) /\ Uncut(o.faults) =>
           Clean(o.file) /\ (o.file = new \/ o.file = file) /\ (o.ok => o.file = new)
      /\ Completed(o.faults) /\ Monotone(new) => Monotone(LoadRecords(o.file))
      /\ Completed(o.faults) /\ Clean(o.file) => o.file = new /\ o.ok
      /\ Marked(o.faults) => o.ok
  BY <1>3, <1>4, RewriteKeeps
<1>6. /\ Uncut(faulted') => Uncut(faulted) /\ Uncut(o.faults)
      /\ Completed(faulted') => Completed(faulted) /\ Completed(o.faults)
      /\ Marked(faulted') => Marked(faulted) /\ Marked(o.faults)
  BY <1>1, FaultsGrow
<1>7. OthersOK
  <2>1. faulted' \subseteq Faults
    BY <1>1 DEF Suffer, WalInv, WalTypeOK
  <2>2. QED
    BY <1>1, <1>2, <1>3, <1>5, <2>1 DEF OthersOK, WalTypeOK
<1>8. LatestWriteTimestamp(new) = LatestWriteTimestamp(Hydrated)
  BY <1>4 DEF LatestWriteTimestamp, Stamps
<1> DEFINE e == IF o.ok THEN new ELSE Hydrated
<1>9. e \in Seq(Records) /\ TagsOf(e) = TagsOf(Hydrated)
      /\ LatestWriteTimestamp(e) = LatestWriteTimestamp(Hydrated)
  BY <1>3, <1>4, <1>8
<1>10. Uncut(faulted') => /\ Clean(file') /\ acked' \subseteq TagsOf(file')
                          /\ acked' \subseteq TagsOf(e)
  BY <1>1, <1>2, <1>3, <1>4, <1>5, <1>6, <1>9 DEF HydratedOK
<1>11. Completed(faulted') => /\ Monotone(LoadRecords(file')) /\ Monotone(e)
                              /\ Clean(file') => file' = e
  BY <1>1, <1>3, <1>4, <1>5, <1>6 DEF HydratedOK
<1>12. Marked(faulted') => high_water' = LatestWriteTimestamp(e)
  BY <1>2, <1>3, <1>6, <1>9 DEF HydratedOK
<1>13. entries' = e /\ high_water' \in Nat
  BY <1>1, <1>2, <1>3
<1> HIDE DEF e
<1>14. QED
  BY <1>7, <1>9, <1>10, <1>11, <1>12, <1>13, AfterCommand

\* A file without a frame.
LEMMA EmptyFile ==
  /\ <<>> \in Seq(Records) /\ <<>> \in Seq(Frames)
  /\ Clean(<<>>) /\ LoadRecords(<<>>) = <<>> /\ Monotone(<<>>)
<1>1. <<>> \in Seq(Records) /\ <<>> \in Seq(Frames)
  OBVIOUS
<1>2. Clean(<<>>)
  BY <1>1, CleanIs
<1>3. LoadRecords(<<>>) = <<>>
  BY <1>1, <1>2, LoadProperties
<1>4. Monotone(<<>>)
  <2>1. 1..Len(<<>>) = {}
    OBVIOUS
  <2>2. QED
    BY <2>1 DEF Monotone
<1>5. QED
  BY <1>1, <1>2, <1>3, <1>4

\* delete_stream, hydration, cache invalidation and a stop between two commands.
LEMMA UnloadingSteps ==
  ASSUME WalInv, DeleteStream \/ HydrateStream \/ InvalidateStreamCache \/ Crash
  PROVE  WalInv'
<1>0. HydratedOK /\ WalTypeOK
  BY HydrationIsSound DEF WalInv
<1>1. /\ file \in Seq(Frames) /\ acked \subseteq 1..MaxWrites
      /\ writes \in 0..MaxWrites /\ faulted \subseteq Faults
  BY <1>0 DEF WalTypeOK, HydratedOK
<1>2. CASE DeleteStream
  <2>1. /\ entries' = Unloaded /\ high_water' = 0 /\ file' = <<>> /\ acked' = {}
        /\ writes' = writes /\ faulted' = faulted
    BY <1>2 DEF DeleteStream
  <2>2. <<>> \in Seq(Records) /\ <<>> \in Seq(Frames)
    BY EmptyFile
  <2>3. Clean(<<>>) /\ LoadRecords(<<>>) = <<>> /\ Monotone(<<>>)
    BY EmptyFile
  <2>4. OthersOK
    BY <1>1, <2>1, <2>2 DEF OthersOK
  <2>5. QED
    BY <2>1, <2>3, <2>4, AfterUnloading
<1>3. CASE HydrateStream
  <2>1. /\ entries' = Hydrated /\ high_water' = HydratedHighWater /\ file' = file
        /\ acked' = acked /\ writes' = writes /\ faulted' = faulted
    BY <1>3 DEF HydrateStream
  <2>2. OthersOK
    BY <1>1, <2>1 DEF OthersOK
  <2>3. Hydrated \in Seq(Records) /\ high_water' \in Nat
    BY <1>0, <2>1 DEF HydratedOK
  <2>4. /\ Uncut(faulted') => /\ Clean(file') /\ acked' \subseteq TagsOf(file')
                              /\ acked' \subseteq TagsOf(Hydrated)
        /\ Completed(faulted') => /\ Monotone(LoadRecords(file')) /\ Monotone(Hydrated)
                                  /\ Clean(file') => file' = Hydrated
        /\ Marked(faulted') => high_water' = LatestWriteTimestamp(Hydrated)
    BY <1>0, <2>1 DEF HydratedOK
  <2>5. QED
    BY <2>1, <2>2, <2>3, <2>4, AfterCommand
<1>4. CASE InvalidateStreamCache
  <2>1. /\ entries' = Unloaded /\ high_water' = 0 /\ file' = file
        /\ acked' = acked /\ writes' = writes /\ faulted' = faulted
    BY <1>4 DEF InvalidateStreamCache
  <2>2. OthersOK
    BY <1>1, <2>1 DEF OthersOK
  <2>3. QED
    BY <1>0, <2>1, <2>2, AfterUnloading DEF HydratedOK
<1>5. CASE Crash
  <2>1. /\ entries' = Unloaded /\ high_water' = 0 /\ file' = file
        /\ acked' = acked /\ writes' = writes /\ Suffer({"crash"})
    BY <1>5 DEF Crash
  <2>2. OthersOK
    BY <1>1, <2>1 DEF OthersOK, Suffer
  <2>3. (Uncut(faulted') => Uncut(faulted)) /\ (Completed(faulted') => Completed(faulted))
    BY <2>1, FaultsGrow
  <2>4. QED
    BY <1>0, <2>1, <2>2, <2>3, AfterUnloading DEF HydratedOK
<1>6. QED
  BY <1>2, <1>3, <1>4, <1>5

\* A stop inside an append.
LEMMA CrashInAppendStep ==
  ASSUME WalInv, CrashInAppend PROVE WalInv'
<1> DEFINE id == LatestTransactionId(Hydrated) + 1
           r == NewRecord(1, id, "Insert")
<1>1. /\ Suffer({"crash_in_append"}) /\ writes < MaxWrites /\ writes' = writes + 1
      /\ file' = file \o <<Torn>> \/ file' = Append(file, r)
      /\ entries' = Unloaded /\ high_water' = 0 /\ acked' = acked
  BY DEF CrashInAppend
<1>2. HydratedOK /\ Hydrated \in Seq(Records) /\ file \in Seq(Frames) /\ WalTypeOK
  BY HydrationIsSound DEF HydratedOK, WalInv
<1>3. writes \in Nat /\ MaxWrites \in Nat /\ writes + 1 <= MaxWrites
  BY <1>1, <1>2, WalConstants DEF WalTypeOK
<1>4. LatestTransactionId(Hydrated) \in Nat /\ id \in Nat
  BY <1>2, LatestIdType
<1>5. "Insert" \in DataKinds
  BY DEF DataKinds
<1>6. r \in Records /\ r.id = id
  <2> HIDE DEF id
  <2>1. QED
    BY <1>2, <1>3, <1>4, <1>5, NewRecordType
<1> HIDE DEF r
<1>7. IsOrdered(Hydrated, <<r>>)
  BY <1>2, <1>6, NextIdIsOrdered
<1>8. <<r>> \in Seq(Records) /\ Append(file, r) = file \o <<r>>
  BY <1>2, <1>6
<1>9. ASSUME Completed(faulted')
      PROVE  Monotone(LoadRecords(file'))
  <2>1. Completed(faulted)
    BY <1>1, <1>9, FaultsGrow
  <2>2. CASE file' = file \o <<r>>
    <3>1. Outcome({}, TRUE, file \o <<r>>) \in AppendOutcomes(<<r>>)
      BY DEF AppendOutcomes
    <3>2. /\ Outcome({}, TRUE, file \o <<r>>).file = file \o <<r>>
          /\ Outcome({}, TRUE, file \o <<r>>).faults = {}
      BY DEF Outcome
    <3>3. Completed({})
      BY DEF Completed
    <3>4. QED
      BY <1>2, <1>7, <1>8, <2>1, <2>2, <3>1, <3>2, <3>3, AppendKeeps
  <2>3. CASE file' = file \o <<Torn>>
    <3>1. CASE Clean(file)
      <4>1. file \in Seq(Records) /\ LoadRecords(file) = file
        BY <1>2, <3>1, CleanIs, LoadProperties
      <4>2. LoadRecords(file \o <<Torn>>) = file
        BY <4>1, LoadUpToTorn, FrameTypes
      <4>3. QED
        BY <1>2, <2>1, <2>3, <4>1, <4>2 DEF HydratedOK
    <3>2. CASE ~Clean(file)
      <4>1. LoadRecords(file \o <<Torn>>) = LoadRecords(file)
        BY <1>2, <3>2, LoadAfterTorn, FrameTypes
      <4>2. QED
        BY <1>2, <2>1, <2>3, <4>1 DEF HydratedOK
    <3>3. QED
      BY <3>1, <3>2
  <2>4. QED
    BY <1>1, <1>8, <2>2, <2>3
<1>10. ~Uncut(faulted')
  <2>1. "crash_in_append" \in faulted'
    BY <1>1 DEF Suffer
  <2>2. QED
    BY <2>1 DEF Uncut, Cuts
<1>11. OthersOK
  <2>1. file' \in Seq(Frames)
    BY <1>1, <1>2, <1>8, FrameTypes
  <2>2. faulted' \subseteq Faults /\ acked' \subseteq 1..MaxWrites
    BY <1>1, <1>2 DEF Suffer, WalTypeOK
  <2>3. writes' \in 0..MaxWrites
    BY <1>1, <1>3
  <2>4. QED
    BY <2>1, <2>2, <2>3 DEF OthersOK
<1>12. QED
  BY <1>1, <1>9, <1>10, <1>11, AfterUnloading

\* A stop inside a rewrite.
LEMMA CrashInRewriteStep ==
  ASSUME WalInv, CrashInRewrite PROVE WalInv'
<1>1. /\ Suffer({"crash_in_rewrite"}) /\ writes < MaxWrites /\ writes' = writes + 1
      /\ entries' = Unloaded /\ high_water' = 0 /\ acked' = acked
  BY DEF CrashInRewrite
<1>2. PICK new \in RewriteTargets :
        file' \in {new} \cup UNION {{p, p \o <<Torn>>} : p \in ProperPrefixes(new)}
  BY DEF CrashInRewrite
<1>3. HydratedOK /\ Hydrated \in Seq(Records) /\ WalTypeOK
  BY HydrationIsSound DEF HydratedOK, WalInv
<1>4. writes \in Nat /\ MaxWrites \in Nat /\ writes + 1 <= MaxWrites
  BY <1>1, <1>3, WalConstants DEF WalTypeOK
<1>5. new \in Seq(Records) /\ (Monotone(Hydrated) => Monotone(new))
  <2>1. CASE new = Renumbered(Hydrated)
    BY <1>3, <2>1, RenumberedParts
  <2>2. CASE \E id \in ImportIds :
               /\ \A j \in DOMAIN Hydrated : Hydrated[j].id # id
               /\ new = MergeRecords(Hydrated, <<NewRecord(1, id, "Insert")>>)
    <3>1. PICK id \in ImportIds :
               /\ \A j \in DOMAIN Hydrated : Hydrated[j].id # id
               /\ new = MergeRecords(Hydrated, <<NewRecord(1, id, "Insert")>>)
      BY <2>2
    <3> DEFINE r == NewRecord(1, id, "Insert")
    <3>2. id \in Nat /\ "Insert" \in DataKinds
      BY WalConstants DEF DataKinds
    <3>3. r \in Records /\ r.id = id
      BY <1>3, <1>4, <3>2, NewRecordType
    <3> HIDE DEF r
    <3>4. new = InsertSorted(Hydrated, r)
      BY <3>1, MergeOne DEF r
    <3>5. QED
      BY <1>3, <3>1, <3>3, <3>4, InsertSortedParts
  <2>3. QED
    BY <2>1, <2>2 DEF RewriteTargets
<1>6. PICK p \in Prefixes(new) : file' = p \/ file' = p \o <<Torn>>
  BY <1>2, <1>5, ProperArePrefixes
<1>7. p \in Seq(Records) /\ (Monotone(new) => Monotone(p))
  BY <1>5, PrefixOfMonotone
<1>8. file' \in Seq(Frames) /\ LoadRecords(file') = p
  <2>1. p \in Seq(Frames) /\ p \o <<Torn>> \in Seq(Frames)
    BY <1>7, FrameTypes
  <2>2. LoadRecords(p) = p
    BY <1>7, <2>1, CleanIs, LoadProperties
  <2>3. LoadRecords(p \o <<Torn>>) = p
    BY <1>7, LoadUpToTorn, FrameTypes
  <2>4. QED
    BY <1>6, <2>1, <2>2, <2>3
<1>9. Completed(faulted') => Monotone(LoadRecords(file'))
  <2>1. Completed(faulted') => Completed(faulted)
    BY <1>1, FaultsGrow
  <2>2. QED
    BY <1>3, <1>5, <1>7, <1>8, <2>1 DEF HydratedOK
<1>10. ~Uncut(faulted')
  <2>1. "crash_in_rewrite" \in faulted'
    BY <1>1 DEF Suffer
  <2>2. QED
    BY <2>1 DEF Uncut, Cuts
<1>11. OthersOK
  <2>1. faulted' \subseteq Faults /\ acked' \subseteq 1..MaxWrites
    BY <1>1, <1>3 DEF Suffer, WalTypeOK
  <2>2. writes' \in 0..MaxWrites
    BY <1>1, <1>4
  <2>3. QED
    BY <1>8, <2>1, <2>2 DEF OthersOK
<1>12. QED
  BY <1>1, <1>9, <1>10, <1>11, AfterUnloading

-----------------------------------------------------------------------------
(* The theorems.                                                           *)

\* The invariant holds of every behaviour of the stream, whatever faults occur.
THEOREM WalInvariant == Spec => []WalInv
<1>1. Init => WalInv
  <2> SUFFICES ASSUME Init PROVE WalInv
    OBVIOUS
  <2>1. /\ entries = Unloaded /\ file = <<>> /\ high_water = 0 /\ acked = {}
        /\ writes = 0 /\ faulted = {}
    BY DEF Init
  <2>2. <<>> \in Seq(Records) /\ <<>> \in Seq(Frames)
    BY EmptyFile
  <2>3. Clean(<<>>) /\ LoadRecords(<<>>) = <<>> /\ Monotone(<<>>)
    BY EmptyFile
  <2>4. WalTypeOK
    BY <2>1, <2>2, WalConstants DEF WalTypeOK, Frames
  <2>5. AckedIsHeld /\ OrderIsHeld /\ MarkIsHeld
    BY <2>1, <2>3 DEF AckedIsHeld, OrderIsHeld, MarkIsHeld
  <2>6. QED
    BY <2>4, <2>5 DEF WalInv
<1>2. WalInv /\ [Next]_vars => WalInv'
  <2> SUFFICES ASSUME WalInv, [Next]_vars PROVE WalInv'
    OBVIOUS
  <2>1. CASE \E kind \in Kinds : AppendRecord(kind)
    BY <2>1, AppendRecordStep
  <2>2. CASE AppendBatch
    BY <2>2, AppendBatchStep
  <2>3. CASE \E id \in ImportIds, kind \in Kinds : ImportRecord(id, kind)
    BY <2>3, ImportRecordStep
  <2>4. CASE CompactStream
    BY <2>4, CompactStep
  <2>5. CASE RealignStream
    BY <2>5, RealignStep
  <2>6. CASE DeleteStream \/ HydrateStream \/ InvalidateStreamCache \/ Crash
    BY <2>6, UnloadingSteps
  <2>7. CASE CrashInAppend
    BY <2>7, CrashInAppendStep
  <2>8. CASE CrashInRewrite
    BY <2>8, CrashInRewriteStep
  <2>9. CASE UNCHANGED vars
    BY <2>9 DEF vars, WalInv, WalTypeOK, AckedIsHeld, OrderIsHeld, MarkIsHeld
  <2>10. QED
    BY <2>1, <2>2, <2>3, <2>4, <2>5, <2>6, <2>7, <2>8, <2>9 DEF Next
<1>3. QED
  BY <1>1, <1>2, PTL DEF Spec

\* The state of a stream keeps its types through every command and every fault.
THEOREM StreamTypesHold == Spec => []WalTypeOK
<1>1. WalInv => WalTypeOK
  BY DEF WalInv
<1>2. QED
  BY <1>1, WalInvariant, PTL

\* As long as no write is cut short, every write the log acknowledged is read back by
\* the replay of the file: append errors, failed rewrites and failed fsyncs, imports,
\* truncation, realignment and restarts lose none (append_with_context, wal.rs).
THEOREM AcknowledgedIsDurable == Spec => []AcknowledgedSurvivesErrors
<1>1. WalInv => AcknowledgedSurvivesErrors
  <2> SUFFICES ASSUME WalInv, faulted \cap {"short_write", "crash_in_append", "crash_in_rewrite"} = {}
               PROVE  acked \subseteq TagsOf(LoadRecords(file))
    BY DEF AcknowledgedSurvivesErrors, AcknowledgedSurvivesRestart
  <2>1. Clean(file) /\ acked \subseteq TagsOf(file) /\ file \in Seq(Frames)
    BY DEF WalInv, AckedIsHeld, Uncut, Cuts, WalTypeOK, Frames
  <2>2. QED
    BY <2>1, LoadProperties
<1>2. QED
  BY <1>1, WalInvariant, PTL

\* After failed appends and restarts between commands, the memory of the process is
\* what replay of its file would produce, record by record.
THEOREM MemoryIsTheFile == Spec => []RestartChangesNothing
<1>1. WalInv => RestartChangesNothing
  <2> SUFFICES ASSUME WalInv, faulted \subseteq {"append_error", "crash"}, entries # Unloaded
               PROVE  LoadRecords(file) = entries
    BY DEF RestartChangesNothing
  <2>1. Uncut(faulted) /\ Completed(faulted)
    BY DEF Uncut, Cuts, Completed
  <2>2. Clean(file) /\ file = entries /\ file \in Seq(Frames)
    BY <2>1 DEF WalInv, AckedIsHeld, OrderIsHeld, WalTypeOK, Frames
  <2>3. QED
    BY <2>2, LoadProperties
<1>2. QED
  BY <1>1, WalInvariant, PTL

\* Ids never decrease along the stream, in memory and in what a restart reads, also
\* when writes are cut short, unless a rewrite or an fsync failed.
THEOREM IdsAlwaysAscend == Spec => []IdsAscend
<1>1. WalInv => IdsAscend
  <2> SUFFICES ASSUME WalInv, faulted \cap {"rewrite_error", "sync_error"} = {}
               PROVE  Ascending(Hydrated) /\ Ascending(LoadRecords(file))
    BY DEF IdsAscend
  <2>1. HydratedOK /\ Completed(faulted)
    BY HydrationIsSound DEF Completed
  <2>2. /\ Monotone(Hydrated) /\ Monotone(LoadRecords(file))
        /\ Hydrated \in Seq(Records) /\ LoadRecords(file) \in Seq(Records)
    BY <2>1, LoadProperties DEF HydratedOK
  <2>3. QED
    BY <2>2, AscendingIsMonotone
<1>2. QED
  BY <1>1, WalInvariant, PTL

\* has_write_after answers as a scan of the stream would, so that a COMMIT misses no
\* conflict, through every command and through restarts, unless a rewrite, an fsync or
\* the middle of a write failed.
THEOREM MarkAnswersLikeScan == Spec => []HighWaterAnswersLikeScan
<1>1. WalInv => HighWaterAnswersLikeScan
  <2> SUFFICES ASSUME WalInv, Marked(faulted), NEW t \in 0..MaxWrites
               PROVE  HasWriteAfter(t) <=> LatestWriteTimestamp(Hydrated) > t
    BY DEF HighWaterAnswersLikeScan, Marked
  <2>1. HydratedHighWater = LatestWriteTimestamp(Hydrated)
    BY HydrationIsSound DEF HydratedOK
  <2>2. QED
    BY <2>1 DEF HasWriteAfter
<1>2. QED
  BY <1>1, WalInvariant, PTL
=============================================================================
