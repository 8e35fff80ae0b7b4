------------------------ MODULE ReplicationSyncProofs ------------------------
(***************************************************************************)
(* Proofs about the synchronisation of a node, for any finite set of       *)
(* databases and any bounds on schema identifiers and faults.              *)
(***************************************************************************)
EXTENDS ReplicationSync, FiniteSetTheorems, TLAPS

-----------------------------------------------------------------------------
(* The sync plan.                                                          *)

\* The databases of a document whose phases come before those of d.
Earlier(doc, d) == {e \in InDocument(doc) : Before(doc, e, d)}
Rank(doc) == [d \in InDocument(doc) |-> Cardinality(Earlier(doc, d))]

\* build_sync_plan sorts by identifier, then by name: a strict total order.
LEMMA BeforeIsAnOrder ==
  ASSUME NEW doc \in Documents, NEW d \in Databases, NEW e \in Databases
  PROVE  /\ ~Before(doc, d, d)
         /\ d # e => Before(doc, d, e) \/ Before(doc, e, d)
         /\ \A c \in Databases : Before(doc, c, d) /\ Before(doc, d, e) => Before(doc, c, e)
<1>1. /\ doc[d] \in Nat /\ doc[e] \in Nat /\ d \in Nat /\ e \in Nat
      /\ \A c \in Databases : doc[c] \in Nat /\ c \in Nat
  BY SyncConstants DEF Documents
<1>2. QED
  BY <1>1 DEF Before

\* The databases of a document are finitely many, no more than all of them.
LEMMA DocumentIsFinite ==
  ASSUME NEW doc \in Documents
  PROVE  /\ IsFiniteSet(InDocument(doc)) /\ Cardinality(InDocument(doc)) \in Nat
         /\ Cardinality(InDocument(doc)) <= Cardinality(Databases)
         /\ Cardinality(Databases) \in Nat
BY SyncConstants, FS_Subset, FS_CardinalityType DEF InDocument

\* A database has fewer databases before it than there are.
LEMMA RankType ==
  ASSUME NEW doc \in Documents, NEW d \in InDocument(doc)
  PROVE  /\ IsFiniteSet(Earlier(doc, d))
         /\ Rank(doc)[d] = Cardinality(Earlier(doc, d))
         /\ Rank(doc)[d] \in 0..Cardinality(InDocument(doc)) - 1
         /\ FirstStep(doc, d) = 1 + 3 * Rank(doc)[d]
<1>1. IsFiniteSet(InDocument(doc)) /\ Cardinality(InDocument(doc)) \in Nat
  BY DocumentIsFinite
<1>2. Earlier(doc, d) \in SUBSET (InDocument(doc) \ {d})
  BY BeforeIsAnOrder DEF Earlier, InDocument
<1>3. /\ IsFiniteSet(InDocument(doc) \ {d})
      /\ Cardinality(InDocument(doc) \ {d}) = Cardinality(InDocument(doc)) - 1
  BY <1>1, FS_RemoveElement
<1>4. /\ IsFiniteSet(Earlier(doc, d)) /\ Cardinality(Earlier(doc, d)) \in Nat
      /\ Cardinality(Earlier(doc, d)) <= Cardinality(InDocument(doc)) - 1
  BY <1>2, <1>3, FS_Subset, FS_CardinalityType
<1>5. Rank(doc)[d] = Cardinality(Earlier(doc, d))
  BY DEF Rank
<1>6. FirstStep(doc, d) = 1 + 3 * Cardinality(Earlier(doc, d))
  BY DEF FirstStep, Earlier
<1>7. QED
  BY <1>1, <1>4, <1>5, <1>6

\* No two databases start at the same position of the plan.
LEMMA RanksDiffer ==
  ASSUME NEW doc \in Documents, NEW d \in InDocument(doc), NEW e \in InDocument(doc),
         Rank(doc)[d] = Rank(doc)[e]
  PROVE  d = e
<1> SUFFICES ASSUME d # e PROVE FALSE
  OBVIOUS
<1>1. d \in Databases /\ e \in Databases
  BY DEF InDocument
<1>2. ASSUME NEW x \in InDocument(doc), NEW y \in InDocument(doc), Before(doc, x, y)
      PROVE  Rank(doc)[x] # Rank(doc)[y]
  <2>1. /\ IsFiniteSet(Earlier(doc, y))
        /\ Rank(doc)[x] = Cardinality(Earlier(doc, x))
        /\ Rank(doc)[y] = Cardinality(Earlier(doc, y))
    BY RankType
  <2>2. Earlier(doc, x) \in SUBSET Earlier(doc, y)
    BY <1>2, BeforeIsAnOrder DEF Earlier, InDocument
  <2>3. x \in Earlier(doc, y) /\ x \notin Earlier(doc, x)
    BY <1>2, BeforeIsAnOrder DEF Earlier, InDocument
  <2>4. QED
    BY <2>1, <2>2, <2>3, FS_Subset
<1>3. QED
  BY <1>1, <1>2, BeforeIsAnOrder

\* Every third of the plan belongs to some database.
LEMMA RanksAreFilled ==
  ASSUME NEW doc \in Documents, NEW k \in 0..Cardinality(InDocument(doc)) - 1
  PROVE  \E d \in InDocument(doc) : Rank(doc)[d] = k
<1> DEFINE places == 0..Cardinality(InDocument(doc)) - 1
<1>1. IsFiniteSet(InDocument(doc)) /\ Cardinality(InDocument(doc)) \in Nat
  BY DocumentIsFinite
<1>2. IsFiniteSet(places) /\ Cardinality(places) = Cardinality(InDocument(doc))
  BY <1>1, FS_Interval
<1>3. Rank(doc) \in [InDocument(doc) -> places]
  BY RankType DEF Rank
<1>4. Rank(doc) \in Injection(InDocument(doc), places)
  BY <1>3, RanksDiffer DEF Injection, IsInjective
<1>5. Rank(doc) \in Surjection(InDocument(doc), places)
  <2> HIDE DEF places
  <2>1. QED
    BY <1>2, <1>4, FS_Injection
<1>6. QED
  BY <1>5 DEF Surjection

\* The database a step of the plan is for.
Owner(doc, i) == CHOOSE d \in InDocument(doc) : i - FirstStep(doc, d) \in 0..2
PhaseList == <<"SchemaCatalog", "DataSnapshot", "WalCatchup">>

\* A step has exactly one owner, which is in the document.
LEMMA OwnerIs ==
  ASSUME NEW doc \in Documents, NEW i \in 1..PlanLength(doc) - 1
  PROVE  /\ Owner(doc, i) \in InDocument(doc)
         /\ i - FirstStep(doc, Owner(doc, i)) \in 0..2
         /\ \A d \in InDocument(doc) : i - FirstStep(doc, d) \in 0..2 => d = Owner(doc, i)
<1> DEFINE n == Cardinality(InDocument(doc))
<1>1. n \in Nat
  BY DocumentIsFinite
<1>2. i \in 1..3 * n
  BY <1>1 DEF PlanLength
<1>3. PICK k \in 0..n - 1 : i - (1 + 3 * k) \in 0..2
  <2>1. (i - 1) \div 3 \in 0..n - 1 /\ i - (1 + 3 * ((i - 1) \div 3)) \in 0..2
    BY <1>1, <1>2
  <2>2. QED
    BY <2>1
<1>4. PICK d \in InDocument(doc) : Rank(doc)[d] = k
  BY RanksAreFilled
<1>5. i - FirstStep(doc, d) \in 0..2
  BY <1>3, <1>4, RankType
<1>6. Owner(doc, i) \in InDocument(doc) /\ i - FirstStep(doc, Owner(doc, i)) \in 0..2
  BY <1>5 DEF Owner
<1>7. ASSUME NEW e \in InDocument(doc), i - FirstStep(doc, e) \in 0..2
      PROVE  e = d
  <2>1. /\ FirstStep(doc, e) = 1 + 3 * Rank(doc)[e] /\ Rank(doc)[e] \in 0..n - 1
        /\ FirstStep(doc, d) = 1 + 3 * Rank(doc)[d] /\ Rank(doc)[d] \in 0..n - 1
    BY RankType
  <2>2. Rank(doc)[e] = Rank(doc)[d]
    BY <1>1, <1>2, <1>5, <1>7, <2>1
  <2>3. QED
    BY <2>2, RanksDiffer
<1>8. QED
  BY <1>6, <1>7

\* What a step of the plan holds.
LEMMA PlanStepIs ==
  ASSUME NEW doc \in Documents, NEW i \in 1..PlanLength(doc) - 1
  PROVE  /\ i \in DOMAIN BuildSyncPlan(doc)
         /\ BuildSyncPlan(doc)[i].database = Owner(doc, i)
         /\ BuildSyncPlan(doc)[i].schema = doc[Owner(doc, i)]
         /\ BuildSyncPlan(doc)[i].phase = PhaseList[i - FirstStep(doc, Owner(doc, i)) + 1]
         /\ BuildSyncPlan(doc)[i].phase \in Phases
<1>1. BuildSyncPlan(doc)[i] =
        [database |-> Owner(doc, i), schema |-> doc[Owner(doc, i)],
         phase |-> PhaseList[i - FirstStep(doc, Owner(doc, i)) + 1]]
  BY DEF BuildSyncPlan, Owner, PhaseList
<1>2. i - FirstStep(doc, Owner(doc, i)) \in 0..2
  BY OwnerIs
<1>3. PhaseList[i - FirstStep(doc, Owner(doc, i)) + 1] \in Phases
  <2>1. \A j \in 0..2 : PhaseList[j + 1] \in Phases
    BY DEF PhaseList, Phases
  <2>2. QED
    BY <1>2, <2>1
<1>4. DOMAIN BuildSyncPlan(doc) = 1..PlanLength(doc) - 1
  BY DEF BuildSyncPlan
<1>5. QED
  BY <1>1, <1>3, <1>4

\* The plan has every phase of every database of the document.
LEMMA PlanIsComplete ==
  ASSUME NEW doc \in Documents, NEW d \in InDocument(doc), NEW phase \in Phases
  PROVE  \E i \in 1..PlanLength(doc) - 1 :
           BuildSyncPlan(doc)[i].database = d /\ BuildSyncPlan(doc)[i].phase = phase
<1> DEFINE n == Cardinality(InDocument(doc))
<1>1. PICK j \in 0..2 : PhaseList[j + 1] = phase
  BY DEF PhaseList, Phases
<1>2. /\ n \in Nat /\ Rank(doc)[d] \in 0..n - 1
      /\ FirstStep(doc, d) = 1 + 3 * Rank(doc)[d]
  BY DocumentIsFinite, RankType
<1>3. PICK i \in 1..PlanLength(doc) - 1 : i = FirstStep(doc, d) + j
  <2>1. FirstStep(doc, d) + j \in 1..PlanLength(doc) - 1
    BY <1>2 DEF PlanLength
  <2>2. QED
    BY <2>1
<1>4. i - FirstStep(doc, d) = j
  BY <1>2, <1>3
<1>5. d = Owner(doc, i)
  BY <1>4, OwnerIs
<1>6. QED
  BY <1>1, <1>4, <1>5, PlanStepIs

-----------------------------------------------------------------------------
(* The inductive invariant.                                                *)

\* The steps before the executor's index have been run.
WalkedUpTo ==
  \A i \in 1..PlanLength(document) - 1 :
    i < index => <<BuildSyncPlan(document)[i].phase,
                   BuildSyncPlan(document)[i].database>> \in tried

\* A running process is syncing or ready, and was never turned away by the
\* executor; the join happens before the first step.
SyncInv ==
  /\ SyncTypeOK
  /\ NeverDegraded
  /\ ReadyNodeHasWalkedThePlan
  /\ stage # "off" => state \in {"Syncing", "Ready"}
  /\ stage # "off" /\ state = "Syncing" => WalkedUpTo
  /\ stage = "booting" => index = 0
  /\ stage = "phase" => state = "Syncing"

\* execute_schema_catalog_phase: its checks pass in every tick, because the plan
\* was built from the document they look at.
LEMMA ExecutorAccepts ==
  ASSUME SyncTypeOK PROVE PhaseAccepts
<1>1. document \in Documents
  BY DEF SyncTypeOK
<1>2. DOMAIN BuildSyncPlan(document) = 1..PlanLength(document) - 1
  BY DEF BuildSyncPlan
<1>3. QED
  BY <1>1, <1>2, PlanStepIs, OwnerIs DEF PhaseAccepts, AtStep, StepDatabase

\* The step that a tick completes, if it is not the control plane's.
LEMMA StepsRunIs ==
  ASSUME SyncTypeOK
  PROVE  /\ StepsRun \subseteq Phases \X Databases
         /\ index \in 1..PlanLength(document) - 1 =>
              <<BuildSyncPlan(document)[index].phase,
                BuildSyncPlan(document)[index].database>> \in StepsRun
<1>1. document \in Documents
  BY DEF SyncTypeOK
<1>2. DOMAIN BuildSyncPlan(document) = 1..PlanLength(document) - 1
  BY DEF BuildSyncPlan
<1>3. InDocument(document) \subseteq Databases
  BY DEF InDocument
<1>4. QED
  BY <1>1, <1>2, <1>3, PlanStepIs, OwnerIs DEF StepsRun, StepDatabase

\* A step that is for a database names one of the databases.
LEMMA StepDatabaseIs ==
  ASSUME SyncTypeOK, NEW phase, AtStep(phase)
  PROVE  StepDatabase \in Databases
<1>1. document \in Documents
  BY DEF SyncTypeOK
<1>2. index \in 1..PlanLength(document) - 1
  BY DEF AtStep, BuildSyncPlan
<1>3. QED
  BY <1>1, <1>2, PlanStepIs, OwnerIs DEF StepDatabase, InDocument

\* The plan is no longer than the type of the index allows.
LEMMA PlanLengthType ==
  ASSUME NEW doc \in Documents
  PROVE  PlanLength(doc) \in 1..3 * Cardinality(Databases) + 1
BY DocumentIsFinite DEF PlanLength

\* upsert_schemas keeps a document a document, and no identifier gets smaller.
LEMMA UpsertGrows ==
  ASSUME NEW doc \in Documents, NEW answer \in Documents
  PROVE  /\ UpsertSchemas(doc, answer) \in Documents
         /\ \A d \in Databases : UpsertSchemas(doc, answer)[d] >= doc[d]
         /\ InDocument(doc) \subseteq InDocument(UpsertSchemas(doc, answer))
<1>1. MaxSchema \in Nat
  BY SyncConstants
<1>2. UpsertSchemas(doc, answer) \in Documents
  BY DEF UpsertSchemas, Documents
<1>3. \A d \in Databases : UpsertSchemas(doc, answer)[d] >= doc[d]
  BY <1>1 DEF UpsertSchemas, Documents
<1>4. \A d \in Databases : doc[d] \in Nat /\ UpsertSchemas(doc, answer)[d] \in Nat
  BY <1>1, <1>2 DEF Documents
<1>5. QED
  BY <1>2, <1>3, <1>4 DEF InDocument

\* Saving a document, well or not, leaves a document on disk.
LEMMA SaveType ==
  ASSUME SyncTypeOK, NEW doc \in Documents, Save(doc)
  PROVE  saved' \in Documents /\ faults' \in 0..MaxFaults
<1>1. EmptyDocument \in Documents /\ MaxFaults \in Nat
  BY SyncConstants DEF EmptyDocument, Documents
<1>2. QED
  BY <1>1 DEF SyncTypeOK, Save, Fault

\* A node that never ran.
LEMMA SyncInitInv == SyncInit => SyncInv
<1> SUFFICES ASSUME SyncInit PROVE SyncInv
  OBVIOUS
<1>1. EmptyDocument \in Documents /\ MaxFaults \in Nat /\ Cardinality(Databases) \in Nat
  BY SyncConstants, FS_CardinalityType DEF EmptyDocument, Documents
<1>2. SyncTypeOK
  BY <1>1 DEF SyncInit, SyncTypeOK, Stages
<1>3. QED
  BY <1>2 DEF SyncInit, SyncInv, NeverDegraded, ReadyNodeHasWalkedThePlan

-----------------------------------------------------------------------------
(* The steps.                                                              *)

\* Steps after which the document, the state, the index and what was tried are
\* the same preserve the invariant if they keep the types.
LEMMA QuietStep ==
  ASSUME SyncInv, SyncTypeOK', UNCHANGED <<syncVars, tried>>,
         stage' # "off" => stage # "off",
         stage' = "booting" => stage = "booting",
         stage' = "phase" => stage = "phase" \/ state = "Syncing"
  PROVE  SyncInv'
BY DEF SyncInv, syncVars, NeverDegraded, ReadyNodeHasWalkedThePlan, WalkedUpTo

\* Loading the document starts the plan again with nothing tried.
LEMMA BootStep == ASSUME SyncInv, Boot PROVE SyncInv'
<1>1. SyncTypeOK /\ Cardinality(Databases) \in Nat
  BY SyncConstants, FS_CardinalityType DEF SyncInv
<1>2. SyncTypeOK'
  BY <1>1 DEF Boot, SyncTypeOK, Stages, peerVars, localVars
<1>3. WalkedUpTo'
  <2>1. index' = 0
    BY DEF Boot
  <2>2. QED
    BY <2>1 DEF WalkedUpTo
<1>4. QED
  BY <1>2, <1>3 DEF Boot, SyncInv, NeverDegraded, ReadyNodeHasWalkedThePlan

\* The join changes the document while the plan is at its start.
LEMMA JoinStep == ASSUME SyncInv, Join PROVE SyncInv'
<1>1. SyncTypeOK /\ stage = "booting" /\ index = 0 /\ index' = 0
  BY DEF SyncInv, Join
<1>2. document' \in Documents /\ saved' \in Documents /\ faults' \in 0..MaxFaults
  <2>1. PICK answer \in Answers :
          document' = UpsertSchemas(document, answer) /\ Save(document')
    BY DEF Join
  <2>2. document \in Documents /\ answer \in Documents
    BY <1>1 DEF SyncTypeOK, Answers
  <2>3. document' \in Documents
    BY <2>1, <2>2, UpsertGrows
  <2>4. QED
    BY <1>1, <2>1, <2>3, SaveType
<1>3. SyncTypeOK'
  BY <1>1, <1>2 DEF Join, SyncTypeOK, Stages, peerVars, localVars
<1>4. WalkedUpTo'
  BY <1>1 DEF WalkedUpTo
<1>5. QED
  BY <1>3, <1>4 DEF Join, SyncInv, NeverDegraded, ReadyNodeHasWalkedThePlan

\* The peers are asked for what the step needs; the plan does not move.
LEMMA AskPeersStep == ASSUME SyncInv, AskPeersForStep PROVE SyncInv'
<1>1. SyncTypeOK
  BY DEF SyncInv
<1>2. /\ catalogs' \subseteq Databases /\ data' \subseteq Databases
      /\ faults' \in 0..MaxFaults
  <2>1. /\ AtStep("SchemaCatalog") => StepDatabase \in Databases
        /\ AtStep("WalCatchup") => StepDatabase \in Databases
    BY <1>1, StepDatabaseIs
  <2>2. MaxFaults \in Nat
    BY SyncConstants
  <2>3. QED
    BY <1>1, <2>1, <2>2 DEF AskPeersForStep, SyncTypeOK, Fault, localVars
<1>3. SyncTypeOK'
  BY <1>1, <1>2 DEF AskPeersForStep, SyncTypeOK, Stages, peerVars, syncVars
<1>4. QED
  BY <1>3, QuietStep DEF AskPeersForStep

\* The executor counts the step it has run; at the end of the plan all steps have
\* been run, so the node is ready with every database of its document.
LEMMA ExecuteStep == ASSUME SyncInv, ExecuteNextPhase PROVE SyncInv'
<1> DEFINE next == IF index < PlanLength(document) THEN index + 1 ELSE index
<1>1. /\ SyncTypeOK /\ stage = "phase" /\ state = "Syncing" /\ WalkedUpTo
      /\ document \in Documents /\ document' = document
  BY DEF SyncInv, ExecuteNextPhase, SyncTypeOK
<1>2. PhaseAccepts
  BY <1>1, ExecutorAccepts
<1>3. /\ index' = next /\ tried' = tried \cup StepsRun /\ stage' = "idle"
      /\ IF next >= PlanLength(document)
         THEN state' = "Ready" /\ Save(document)
         ELSE UNCHANGED <<state, saved, faults>>
      /\ UNCHANGED <<peerVars, document, todo, localVars>>
  BY <1>2 DEF ExecuteNextPhase
<1>4. /\ PlanLength(document) \in 1..3 * Cardinality(Databases) + 1
      /\ Cardinality(Databases) \in Nat
      /\ index \in Nat
  BY <1>1, PlanLengthType, DocumentIsFinite DEF SyncTypeOK
<1>5. next \in 0..3 * Cardinality(Databases) + 1
  BY <1>1, <1>4 DEF SyncTypeOK
<1>6. saved' \in Documents /\ faults' \in 0..MaxFaults
  <2>1. CASE next >= PlanLength(document)
    BY <1>1, <1>3, <2>1, SaveType
  <2>2. CASE ~(next >= PlanLength(document))
    BY <1>1, <1>3, <2>2 DEF SyncTypeOK
  <2>3. QED
    BY <2>1, <2>2
<1>7. SyncTypeOK'
  <2>1. tried' \subseteq Phases \X Databases
    BY <1>1, <1>3, StepsRunIs DEF SyncTypeOK
  <2>2. state' \in {"JoinRequested", "Syncing", "Ready", "Degraded"}
    BY <1>1, <1>3
  <2>3. QED
    BY <1>1, <1>3, <1>5, <1>6, <2>1, <2>2 DEF SyncTypeOK, Stages, peerVars, localVars
<1>8. ASSUME NEW i \in 1..PlanLength(document) - 1, i < next
      PROVE  <<BuildSyncPlan(document)[i].phase,
               BuildSyncPlan(document)[i].database>> \in tried'
  <2>1. i < index \/ i = index
    BY <1>4, <1>8
  <2>2. CASE i < index
    BY <1>1, <1>3, <2>2 DEF WalkedUpTo
  <2>3. CASE i = index
    BY <1>1, <1>3, <2>3, StepsRunIs
  <2>4. QED
    BY <2>1, <2>2, <2>3
<1>9. WalkedUpTo'
  BY <1>1, <1>3, <1>8 DEF WalkedUpTo
<1>10. state' = "Ready" => Phases \X InDocument(document) \subseteq tried'
  <2> SUFFICES ASSUME state' = "Ready", NEW phase \in Phases, NEW d \in InDocument(document)
               PROVE  <<phase, d>> \in tried'
    OBVIOUS
  <2>1. next >= PlanLength(document)
    BY <1>1, <1>3
  <2>2. PICK i \in 1..PlanLength(document) - 1 :
          BuildSyncPlan(document)[i].database = d /\ BuildSyncPlan(document)[i].phase = phase
    BY <1>1, PlanIsComplete
  <2>3. i < next
    BY <1>4, <1>5, <2>1
  <2>4. QED
    BY <1>8, <2>2, <2>3
<1>11. QED
  BY <1>1, <1>3, <1>7, <1>9, <1>10
     DEF SyncInv, NeverDegraded, ReadyNodeHasWalkedThePlan

\* A refresh that adds a database goes back to the start of the plan.  One that
\* does not leaves the set of databases as it was, whatever the identifiers, so
\* what was tried still covers it.
LEMMA RefreshStep == ASSUME SyncInv, Refresh PROVE SyncInv'
<1>1. /\ SyncTypeOK /\ stage = "idle" /\ state = "Ready" /\ stage' = "catchup"
      /\ document \in Documents
      /\ Phases \X InDocument(document) \subseteq tried
      /\ UNCHANGED <<peerVars, tried, localVars>>
  BY DEF SyncInv, Refresh, SyncTypeOK, ReadyNodeHasWalkedThePlan
<1>2. PICK answer \in Answers :
        /\ document' = UpsertSchemas(document, answer)
        /\ \/ document' = document /\ UNCHANGED <<saved, faults>>
           \/ Save(document')
  BY DEF Refresh
<1>3. answer \in Documents
  BY DEF Answers
<1>4. document' \in Documents /\ InDocument(document) \subseteq InDocument(document')
  BY <1>1, <1>2, <1>3, UpsertGrows
<1>5. saved' \in Documents /\ faults' \in 0..MaxFaults
  BY <1>1, <1>2, <1>4, SaveType DEF SyncTypeOK
<1>6. /\ IsFiniteSet(InDocument(document')) /\ Cardinality(InDocument(document')) \in Nat
      /\ Cardinality(InDocument(document)) \in Nat /\ Cardinality(Databases) \in Nat
      /\ Cardinality(InDocument(document)) <= Cardinality(InDocument(document'))
  <2>1. /\ IsFiniteSet(InDocument(document')) /\ Cardinality(InDocument(document')) \in Nat
        /\ Cardinality(InDocument(document)) \in Nat /\ Cardinality(Databases) \in Nat
    BY <1>1, <1>4, DocumentIsFinite
  <2>2. QED
    BY <1>4, <2>1, FS_Subset
<1>7. todo' \subseteq Databases
  BY <1>1 DEF Refresh, InDocument
<1>8. CASE Cardinality(InDocument(document')) > Cardinality(InDocument(document))
  <2>1. state' = "Syncing" /\ index' = 0
    BY <1>8 DEF Refresh
  <2>2. SyncTypeOK'
    BY <1>1, <1>4, <1>5, <1>6, <1>7, <2>1 DEF SyncTypeOK, Stages, peerVars, localVars
  <2>3. WalkedUpTo'
    BY <2>1 DEF WalkedUpTo
  <2>4. QED
    BY <1>1, <2>1, <2>2, <2>3 DEF SyncInv, NeverDegraded, ReadyNodeHasWalkedThePlan
<1>9. CASE ~(Cardinality(InDocument(document')) > Cardinality(InDocument(document)))
  <2>1. UNCHANGED <<state, index>>
    BY <1>9 DEF Refresh
  <2>2. SyncTypeOK'
    BY <1>1, <1>4, <1>5, <1>7, <2>1 DEF SyncTypeOK, Stages, peerVars, localVars
  <2>3. InDocument(document') = InDocument(document)
    <3>1. Cardinality(InDocument(document')) = Cardinality(InDocument(document))
      BY <1>6, <1>9
    <3>2. QED
      BY <1>4, <1>6, <3>1, FS_Subset
  <2>4. QED
    BY <1>1, <2>1, <2>2, <2>3 DEF SyncInv, NeverDegraded, ReadyNodeHasWalkedThePlan
<1>10. QED
  BY <1>8, <1>9

\* Every step preserves the inductive invariant.
LEMMA SyncStepInv == SyncInv /\ [SyncNext]_affinityVars => SyncInv'
<1> SUFFICES ASSUME SyncInv, [SyncNext]_affinityVars PROVE SyncInv'
  OBVIOUS
<1>1. SyncTypeOK /\ MaxSchema \in Nat /\ MaxFaults \in Nat
  BY SyncConstants DEF SyncInv
<1>2. InDocument(document) \subseteq Databases
  BY DEF InDocument
<1>3. Fault => faults' \in 0..MaxFaults
  BY <1>1 DEF Fault, SyncTypeOK
<1>4. ASSUME NEW d \in Databases, PeerChangesSchema(d) PROVE SyncInv'
  <2>1. remote' \in Documents
    BY <1>1, <1>4 DEF PeerChangesSchema, SyncTypeOK, Documents
  <2>2. SyncTypeOK'
    BY <1>1, <1>4, <2>1 DEF PeerChangesSchema, SyncTypeOK, syncVars, localVars
  <2>3. QED
    BY <1>4, <2>2, QuietStep DEF PeerChangesSchema
<1>5. CASE Boot
  BY <1>5, BootStep
<1>6. CASE Join
  BY <1>6, JoinStep
<1>7. CASE JoinUnanswered
  <2>1. SyncTypeOK'
    BY <1>1, <1>3, <1>7 DEF JoinUnanswered, SyncTypeOK, Stages, peerVars, syncVars, localVars
  <2>2. QED
    BY <1>7, <2>1, QuietStep DEF JoinUnanswered
<1>8. CASE AskPeersForStep
  BY <1>8, AskPeersStep
<1>9. CASE ExecuteNextPhase
  BY <1>9, ExecuteStep
<1>10. CASE Refresh
  BY <1>10, RefreshStep
<1>11. CASE NoRefresh
  <2>1. SyncTypeOK'
    BY <1>1, <1>2, <1>11 DEF NoRefresh, SyncTypeOK, Stages, peerVars, syncVars, localVars
  <2>2. QED
    BY <1>11, <2>1, QuietStep DEF NoRefresh
<1>12. ASSUME NEW d \in Databases, CatchUp(d) PROVE SyncInv'
  <2>1. SyncTypeOK'
    BY <1>1, <1>3, <1>12 DEF CatchUp, SyncTypeOK, peerVars, syncVars
  <2>2. QED
    BY <1>12, <2>1, QuietStep DEF CatchUp
<1>13. CASE EndTick
  <2>1. SyncTypeOK'
    BY <1>1, <1>13 DEF EndTick, SyncTypeOK, Stages, peerVars, syncVars, localVars
  <2>2. QED
    BY <1>13, <2>1, QuietStep DEF EndTick
<1>14. CASE Crash
  <2>1. SyncTypeOK'
    BY <1>1, <1>3, <1>14 DEF Crash, SyncTypeOK, Stages, peerVars, syncVars, localVars
  <2>2. QED
    BY <1>14, <2>1, QuietStep DEF Crash
<1>15. CASE UNCHANGED affinityVars
  <2>1. SyncTypeOK'
    BY <1>1, <1>15 DEF affinityVars, SyncTypeOK
  <2>2. QED
    BY <1>15, <2>1, QuietStep DEF affinityVars, syncVars
<1>16. QED
  BY <1>4, <1>5, <1>6, <1>7, <1>8, <1>9, <1>10, <1>11, <1>12, <1>13, <1>14, <1>15
     DEF SyncNext, TaskStep

-----------------------------------------------------------------------------
(* What is proved.                                                         *)

\* The inductive invariant of the synchronisation of a node holds.
THEOREM SyncInvariant == SyncSpec => []SyncInv
BY SyncInitInv, SyncStepInv, PTL DEF SyncSpec

\* The document, the plan position and the sets of databases keep their types; the
\* index never passes the end of the longest plan.
THEOREM SyncTypesHold == SyncSpec => []SyncTypeOK
<1>1. SyncInv => SyncTypeOK
  BY DEF SyncInv
<1>2. QED
  BY <1>1, SyncInvariant, PTL

\* spawn_affinity_replication_task and execute_next_phase: with any number of
\* databases, refreshes, faults and restarts, a node is ready only after all the
\* steps of all the databases of its document, and it never becomes degraded.
THEOREM ReadyMeansWalked == SyncSpec => []PlanIsWalked
<1>1. SyncInv => PlanIsWalked
  BY DEF SyncInv, PlanIsWalked
<1>2. QED
  BY <1>1, SyncInvariant, PTL

\* upsert_schemas: while the process runs no answer replaces a schema identifier
\* by an older one.
THEOREM NewerSchemaAlwaysWins == SyncSpec => NewerSchemaWins
<1> DEFINE Grows == stage # "off" /\ stage' # "off" =>
                      \A d \in Databases : document'[d] >= document[d]
<1>1. ASSUME SyncInv, [SyncNext]_affinityVars PROVE Grows
  <2>1. document \in Documents /\ MaxSchema \in Nat
    BY <1>1, SyncConstants DEF SyncInv, SyncTypeOK
  <2>2. \A d \in Databases : document[d] >= document[d]
    BY <2>1 DEF Documents
  <2>3. CASE document' = document
    BY <2>2, <2>3
  <2>4. ASSUME NEW answer \in Answers, document' = UpsertSchemas(document, answer)
        PROVE  Grows
    BY <2>1, <2>4, UpsertGrows DEF Answers
  <2>5. CASE Boot
    BY <2>5 DEF Boot
  <2>6. Boot \/ Join \/ Refresh \/ document' = document
    BY <1>1
       DEF SyncNext, TaskStep, PeerChangesSchema, JoinUnanswered, AskPeersForStep,
           ExecuteNextPhase, NoRefresh, CatchUp, EndTick, Crash, syncVars, affinityVars
  <2>7. QED
    BY <2>3, <2>4, <2>5, <2>6 DEF Join, Refresh
<1>2. QED
  BY <1>1, SyncInvariant, PTL DEF SyncSpec, NewerSchemaWins
=============================================================================
