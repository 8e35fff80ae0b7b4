--------------------------- MODULE ReplicationSync ---------------------------
(***************************************************************************)
(* How a node of an affinity synchronises itself: loading the affinity     *)
(* document, the join at startup, the walk of the sync plan by the         *)
(* replication task and the periodic refresh of a ready node               *)
(* (server/src/core/control/affinity.rs and replication_sync.rs,           *)
(* serverlib/src/engine/affinity and replication_executor.rs).             *)
(*                                                                         *)
(* The document is a map from databases to schema identifiers, 0 for a     *)
(* database that is not in it.  The task holds the processor's lock during *)
(* a whole tick, so a tick is interrupted only by the end of the process;  *)
(* it takes several steps because what it learns from peers and what it    *)
(* stores changes between them.  The checkpoint is left out: the task      *)
(* saves it and never reads it to choose a step.                           *)
(***************************************************************************)
EXTENDS Naturals, FiniteSets

CONSTANTS
    Databases,      \* numbers, in the order in which documents list them
    MaxSchema,      \* bound: largest schema identifier
    MaxFaults       \* bound: failed requests and saves, crashes

ASSUME SyncConstants ==
    /\ Databases \subseteq Nat /\ IsFiniteSet(Databases)
    /\ MaxSchema \in Nat /\ MaxFaults \in Nat

VARIABLES
    remote,         \* the schema identifiers of the peers' documents
    document,       \* the processor's document
    saved,          \* the document on disk
    state,          \* the processor's state
    index,          \* current_sync_index of the executor
    stage,          \* where the process is: see Stages
    todo,           \* databases the tick still has to catch up
    tried,          \* the plan steps the process has run, as <<phase, database>>
    catalogs,       \* databases whose schema a peer has supplied
    data,           \* databases whose WAL records have been imported
    faults

affinityVars == <<remote, document, saved, state, index, stage, todo, tried, catalogs, data, faults>>
peerVars == <<remote>>
syncVars == <<document, state, index>>
localVars == <<catalogs, data>>

Documents == [Databases -> 0..MaxSchema]
EmptyDocument == [d \in Databases |-> 0]
InDocument(doc) == {d \in Databases : doc[d] > 0}
Phases == {"SchemaCatalog", "DataSnapshot", "WalCatchup"}

\* off: not running; booting: document loaded, join not done; idle: between two
\* ticks; phase: the step's peers have been asked; catchup: a ready node pulls.
Stages == {"off", "booting", "idle", "phase", "catchup"}

SyncTypeOK ==
    /\ remote \in Documents /\ document \in Documents /\ saved \in Documents
    /\ state \in {"JoinRequested", "Syncing", "Ready", "Degraded"}
    /\ index \in 0..3 * Cardinality(Databases) + 1
    /\ stage \in Stages
    /\ todo \subseteq Databases
    /\ tried \subseteq Phases \X Databases
    /\ catalogs \subseteq Databases /\ data \subseteq Databases
    /\ faults \in 0..MaxFaults

SyncInit ==
    /\ remote = EmptyDocument /\ document = EmptyDocument /\ saved = EmptyDocument
    /\ state = "JoinRequested"
    /\ index = 0
    /\ stage = "off"
    /\ todo = {} /\ tried = {} /\ catalogs = {} /\ data = {}
    /\ faults = 0

Fault == faults < MaxFaults /\ faults' = faults + 1

-----------------------------------------------------------------------------
\* The sync plan: the control plane, then the phases of each database, those
\* with the larger schema identifier first.

PlanLength(doc) == 1 + 3 * Cardinality(InDocument(doc))

Before(doc, d, e) == doc[d] > doc[e] \/ (doc[d] = doc[e] /\ d < e)

\* The position of the first phase of database d.
FirstStep(doc, d) ==
    1 + 3 * Cardinality({e \in InDocument(doc) : Before(doc, e, d)})

\* The steps after the control plane.
BuildSyncPlan(doc) ==
    [i \in 1..PlanLength(doc) - 1 |->
        LET d == CHOOSE d \in InDocument(doc) : i - FirstStep(doc, d) \in 0..2
        IN [database |-> d, schema |-> doc[d],
            phase |-> <<"SchemaCatalog", "DataSnapshot", "WalCatchup">>[i - FirstStep(doc, d) + 1]]]

AtStep(phase) ==
    index \in DOMAIN BuildSyncPlan(document) /\ BuildSyncPlan(document)[index].phase = phase

StepDatabase == BuildSyncPlan(document)[index].database

\* The checks the executor makes before it counts a step as done.
PhaseAccepts ==
    AtStep("SchemaCatalog") =>
        /\ StepDatabase \in InDocument(document)
        /\ BuildSyncPlan(document)[index].schema = document[StepDatabase]

\* fs::write replaces the file in place: it may fail and leave the old content
\* or nothing that can be read, which loads as a document without databases.
Save(doc) ==
    \/ saved' = doc /\ UNCHANGED faults
    \/ saved' \in {saved, EmptyDocument} /\ Fault

-----------------------------------------------------------------------------
\* Peers.  Their schema identifiers grow; a peer that lags answers with older
\* ones, so an answer is any document between nothing and the newest.

PeerChangesSchema(d) ==
    /\ remote[d] < MaxSchema
    /\ remote' = [remote EXCEPT ![d] = @ + 1]
    /\ UNCHANGED <<syncVars, saved, stage, todo, tried, localVars, faults>>

Answers == {answer \in Documents : \A d \in Databases : answer[d] <= remote[d]}

\* Mutant of UpsertSchemas: unknown databases are ignored.
UpsertKnownOnly(doc, answer) ==
    [d \in Databases |-> IF doc[d] > 0 /\ answer[d] >= doc[d] THEN answer[d] ELSE doc[d]]

\* What the document lists stays; a larger identifier replaces a smaller one.
UpsertSchemas(doc, answer) ==
    [d \in Databases |-> IF answer[d] >= doc[d] THEN answer[d] ELSE doc[d]]

-----------------------------------------------------------------------------
\* Startup.

\* initialize_affinity_with_persistence: a document that is missing or cannot
\* be read is replaced by a new one without databases.
Boot ==
    /\ stage = "off"
    /\ stage' = "booting"
    /\ document' = saved
    /\ state' = "Syncing"
    /\ index' = 0
    /\ tried' = {} /\ todo' = {}
    /\ UNCHANGED <<peerVars, saved, localVars, faults>>

\* The join merges what the peers answer and saves it before it is applied.
Join ==
    /\ stage = "booting"
    /\ stage' = "idle"
    /\ \E answer \in Answers :
          /\ document' = UpsertSchemas(document, answer)
          /\ Save(document')
    /\ state' = "Syncing"
    /\ UNCHANGED <<peerVars, index, todo, tried, localVars>>

\* No peer is known, or none answers.
JoinUnanswered ==
    /\ stage = "booting"
    /\ stage' = "idle"
    /\ Fault
    /\ UNCHANGED <<peerVars, syncVars, saved, todo, tried, localVars>>

-----------------------------------------------------------------------------
\* A tick of a syncing node: first the peers are asked for what the step needs,
\* then the executor counts the step.  A failure of the first is only logged.

AskPeersForStep ==
    /\ stage = "idle" /\ state = "Syncing"
    /\ stage' = "phase"
    /\ \/ /\ AtStep("SchemaCatalog")
          /\ catalogs' = catalogs \cup {StepDatabase}
          /\ UNCHANGED <<data, faults>>
       \/ /\ AtStep("WalCatchup")
          /\ data' = data \cup {StepDatabase}
          /\ UNCHANGED <<catalogs, faults>>
       \/ /\ AtStep("SchemaCatalog") \/ AtStep("WalCatchup")
          /\ Fault
          /\ UNCHANGED localVars
       \/ /\ ~AtStep("SchemaCatalog") /\ ~AtStep("WalCatchup")
          /\ UNCHANGED <<localVars, faults>>
    /\ UNCHANGED <<peerVars, syncVars, saved, todo, tried>>

\* The step the tick has completed; the control plane step asks nobody.
StepsRun ==
    IF index \in DOMAIN BuildSyncPlan(document)
    THEN {<<BuildSyncPlan(document)[index].phase, StepDatabase>>} ELSE {}

ExecuteNextPhase ==
    /\ stage = "phase"
    /\ stage' = "idle"
    /\ IF PhaseAccepts
       THEN LET next == IF index < PlanLength(document) THEN index + 1 ELSE index IN
            /\ index' = next
            /\ tried' = tried \cup StepsRun
            /\ IF next >= PlanLength(document)
               THEN state' = "Ready" /\ Save(document)
               ELSE UNCHANGED <<state, saved, faults>>
       ELSE /\ state' = "Degraded"
            /\ UNCHANGED <<index, tried, saved, faults>>
    /\ UNCHANGED <<peerVars, document, todo, localVars>>

-----------------------------------------------------------------------------
\* A tick of a ready node: the refresh, then a pull for the databases of the
\* document, as the refresh left it, whose last pull is five seconds old.

\* Mutant of Refresh: the executor is not reset when a database is added.
RefreshKeepsIndex ==
    /\ stage = "idle" /\ state = "Ready"
    /\ stage' = "catchup"
    /\ \E answer \in Answers :
          /\ document' = UpsertSchemas(document, answer)
          /\ Save(document')
    /\ state' = IF InDocument(document') = InDocument(document) THEN "Ready" ELSE "Syncing"
    /\ todo' \in SUBSET InDocument(document')
    /\ UNCHANGED <<peerVars, index, tried, localVars>>

\* A document with more databases sends the node back to the start of the plan.
\* It is saved when anything in it changed, the members' times included.
Refresh ==
    /\ stage = "idle" /\ state = "Ready"
    /\ stage' = "catchup"
    /\ \E answer \in Answers :
          /\ document' = UpsertSchemas(document, answer)
          /\ \/ document' = document /\ UNCHANGED <<saved, faults>>
             \/ Save(document')
    /\ IF Cardinality(InDocument(document')) > Cardinality(InDocument(document))
       THEN state' = "Syncing" /\ index' = 0
       ELSE UNCHANGED <<state, index>>
    /\ todo' \in SUBSET InDocument(document')
    /\ UNCHANGED <<peerVars, tried, localVars>>

\* It is not time for a refresh yet, or no peer answers.
NoRefresh ==
    /\ stage = "idle" /\ state = "Ready"
    /\ stage' = "catchup"
    /\ todo' \in SUBSET InDocument(document)
    /\ UNCHANGED <<peerVars, syncVars, saved, tried, localVars, faults>>

CatchUp(d) ==
    /\ stage = "catchup" /\ d \in todo
    /\ todo' = todo \ {d}
    /\ \/ data' = data \cup {d} /\ UNCHANGED faults
       \/ UNCHANGED data /\ Fault
    /\ UNCHANGED <<peerVars, syncVars, saved, stage, tried, catalogs>>

EndTick ==
    /\ stage = "catchup" /\ todo = {}
    /\ stage' = "idle"
    /\ UNCHANGED <<peerVars, syncVars, saved, todo, tried, localVars, faults>>

Crash ==
    /\ stage # "off"
    /\ Fault
    /\ stage' = "off"
    /\ UNCHANGED <<peerVars, syncVars, saved, todo, tried, localVars>>

TaskStep ==
    \/ Boot
    \/ Join
    \/ JoinUnanswered
    \/ AskPeersForStep
    \/ ExecuteNextPhase
    \/ Refresh
    \/ NoRefresh
    \/ \E d \in Databases : CatchUp(d)
    \/ EndTick

SyncNext ==
    \/ \E d \in Databases : PeerChangesSchema(d)
    \/ TaskStep
    \/ Crash

RefreshIsUpToDate == Refresh /\ document' = UpsertSchemas(document, remote)

\* The process is started again, the timer ticks, requests end by their timeout,
\* and the refresh gets an up to date answer every now and then.  That a tick
\* gets every lock it asks for is taken for granted: the locks of the service
\* message handlers are the subject of ServiceLocks.
SyncFairness ==
    /\ WF_affinityVars(TaskStep)
    /\ SF_affinityVars(RefreshIsUpToDate)

SyncSpec == SyncInit /\ [][SyncNext]_affinityVars
SyncFairSpec == SyncSpec /\ SyncFairness

-----------------------------------------------------------------------------
\* Properties.

\* A node is ready only when the process has run the schema step and the WAL
\* step of every database of its document, also when a refresh adds a database
\* that the plan sorts before those already synchronised (executor.reset()).
ReadyNodeHasWalkedThePlan ==
    stage # "off" /\ state = "Ready" => Phases \X InDocument(document) \subseteq tried

\* The checks of execute_schema_catalog_phase never fail: the plan is rebuilt
\* from the document in every tick, under the lock, so no refresh or restart
\* leaves a node degraded, a state the task has no way out of.
NeverDegraded == state # "Degraded"

\* A node reaches Ready by walking the whole plan and no other way, and never leaves
\* the walk for the state without a way out.
PlanIsWalked == ReadyNodeHasWalkedThePlan /\ NeverDegraded

\* While the process runs, an older schema never overwrites a newer one in the
\* document, whichever peers answer and in whatever order.
NewerSchemaWins ==
    [][stage # "off" /\ stage' # "off" =>
          \A d \in Databases : document'[d] >= document[d]]_affinityVars

Announced(d) == remote[d] = MaxSchema
Synced(d) ==
    /\ document[d] = MaxSchema
    /\ state = "Ready"
    /\ {<<"SchemaCatalog", d>>, <<"WalCatchup", d>>} \subseteq tried

\* A database that a peer announces is synchronised in the end, with its newest
\* schema identifier in the document, although saves fail, requests get no
\* answer and the process restarts.
AnnouncedDatabasesAreSynced == \A d \in Databases : Announced(d) ~> Synced(d)
=============================================================================
