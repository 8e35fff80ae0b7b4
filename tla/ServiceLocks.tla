---------------------------- MODULE ServiceLocks ----------------------------
(***************************************************************************)
(* The locks the tasks of one server share: ServerApp behind a read-write  *)
(* lock, the p2p runtime, the affinity processor, the service registry and *)
(* the set of announces seen.  A task is a connection handler that works   *)
(* on one message (server/src/core/control/connector_handler.rs) or a      *)
(* background task (server/src/core/comms/p2p.rs, control/                 *)
(* replication_sync.rs, main.rs).                                          *)
(*                                                                         *)
(* A handler is the sequence of its lock requests: each section names the  *)
(* lock it asks for, the mode, and the locks it gives back before the next *)
(* request.  What it holds at its end goes with the scope.  Blocking sends *)
(* to peers happen inside sections, with the locks held.                   *)
(***************************************************************************)
EXTENDS Naturals, Sequences, FiniteSets

CONSTANTS
  Handlers,      \* connection handlers
  Tables         \* tables the bootstrap loads one by one

Background == {"heartbeat", "announce", "replication", "bootstrap"}
Tasks == Handlers \cup Background
LockNames == {"app", "p2p", "affinity", "registry", "seen"}

VARIABLES
  work,          \* what a task is doing: the sections it still has to enter
  message,       \* the kind of message a handler works on, "none" when it reads
  held,          \* held[t]: set of <<lock, mode>>
  in_transaction,    \* the handler's session has an open transaction
  bootstrap_ready

serviceVars == <<work, message, held, in_transaction, bootstrap_ready>>

Write(l, drops) == <<[lock |-> l, mode |-> "write", drops |-> drops]>>
Read(l, drops)  == <<[lock |-> l, mode |-> "read", drops |-> drops]>>
\* try_read: the section is skipped when the lock is not free.
TryRead(l)      == <<[lock |-> l, mode |-> "try", drops |-> {l}]>>
Use(l)          == Write(l, {l})

\* rollback_active_session_transaction: the peers are told if something was open.
RollbackSession(tx) == Use("app") \o IF tx THEN Use("p2p") ELSE << >>

\* finalize_service_message: the rollback, then the scoped temporary tables.
Finalize(tx) == RollbackSession(tx) \o Use("app")

\* Requests for the catalog wait for the lock only after the bootstrap.
CatalogRead == IF bootstrap_ready THEN Read("app", {"app"}) ELSE TryRead("app")

\* A ServiceAnnounce is sent on, recorded and its node becomes a peer.
ServiceAnnounce == Use("registry")

\* The summaries are read before the processor is locked for the document.
AffinityJoinRequest == CatalogRead \o Use("affinity")

SchemaCatalogRequest == CatalogRead

DataSnapshotRequest == << >>

TransactionsSinceRequest == CatalogRead

\* The guard of ServerApp lives to the end of the handler.
TableLockStateMessage == Write("app", {})

\* A node announced before ends here; a new one is sent on without the runtime.
NodeAnnounce(new) == Write("seen", IF new THEN {"seen", "p2p"} ELSE {"seen"})

\* A service message: the runtime is locked first and kept while the connection is
\* finalised, unless the body gave it back.
ServiceMessage(body) == Write("p2p", {}) \o body \o Finalize(FALSE)

\* A query under the read lock, with the write lock if that could not answer it.
ReadQuery(answered) == Read("app", {"app"}) \o IF answered THEN << >> ELSE Use("app")

WriteQuery == Use("app")

\* LOCK TABLES and UNLOCK TABLES tell every peer with the runtime locked.
LockQuery == Use("app") \o Use("p2p")

\* Mutant of PeerDiscoveryQuery: the registry is locked around the runtime.
PeerDiscoveryNested == Write("registry", {}) \o Use("p2p")

PeerDiscoveryQuery == Use("p2p") \o Use("registry")

SetPassword == Read("app", {"app"})

ShowEntities == CatalogRead

Heartbeat == Use("p2p")

\* The peers are copied under one lock and addressed under a second.
AnnounceTick == Use("p2p") \o Use("p2p")

\* One peer: its address is looked up, its records are imported.
CatchUp == Use("p2p") \o Use("app")

\* The processor is locked for the whole tick: the schema or WAL step of the plan,
\* or in the ready state the refresh, the list of peers and the catch-up of each.
ReplicationTick(step) ==
  Write("affinity", {}) \o
    CASE step = "schema" -> Use("app") \o Use("p2p") \o Use("app")
      [] step = "wal" -> CatchUp
      [] step = "ready" -> Use("p2p") \o Use("p2p") \o CatchUp
      [] OTHER -> << >>

\* The catalogs under one write lock, then a snapshot, then one write lock per table.
BootstrapPlan ==
  Use("app") \o Read("app", {"app"}) \o
    [i \in 1..Cardinality(Tables) |-> Use("app")[1]]

LocksInit ==
  /\ work = [t \in Tasks |-> IF t = "bootstrap" THEN BootstrapPlan ELSE << >>]
  /\ message = [h \in Handlers |-> "none"]
  /\ held = [t \in Tasks |-> {}]
  /\ in_transaction = [h \in Handlers |-> FALSE]
  /\ bootstrap_ready = FALSE

Idle(t) == work[t] = << >> /\ held[t] = {}

-----------------------------------------------------------------------------
Start(t, sections) == Idle(t) /\ work' = [work EXCEPT ![t] = sections]

\* A peer opens a connection for each message it sends.
ReceiveServiceMessage(h) ==
  \E m \in {"service announce", "join", "schema", "snapshot", "since", "table lock",
            "node announce"} :
    /\ ~in_transaction[h]
    /\ message' = [message EXCEPT ![h] = m]
    /\ \/ m = "service announce" /\ Start(h, ServiceMessage(ServiceAnnounce))
       \/ m = "join" /\ Start(h, ServiceMessage(AffinityJoinRequest))
       \/ m = "schema" /\ Start(h, ServiceMessage(SchemaCatalogRequest))
       \/ m = "snapshot" /\ Start(h, ServiceMessage(DataSnapshotRequest))
       \/ m = "since" /\ Start(h, ServiceMessage(TransactionsSinceRequest))
       \/ m = "table lock" /\ Start(h, ServiceMessage(TableLockStateMessage))
       \/ /\ m = "node announce"
          /\ \E new \in BOOLEAN : Start(h, ServiceMessage(NodeAnnounce(new)))
    /\ UNCHANGED <<held, in_transaction, bootstrap_ready>>

\* Peer discovery and SHOW ENTITIES are answered at any time, SET PASSWORD before
\* the bootstrap has ended too; everything else waits behind the gate.
ReceiveRequest(h) ==
  \E m \in {"discovery", "entities", "password", "read", "write", "lock", "begin"} :
    /\ m \in {"read", "write", "lock", "begin"} => bootstrap_ready
    /\ message' = [message EXCEPT ![h] = m]
    /\ \/ m = "discovery" /\ Start(h, PeerDiscoveryQuery)
       \/ m = "entities" /\ Start(h, ShowEntities)
       \/ m = "password" /\ Start(h, SetPassword)
       \/ m = "read" /\ \E answered \in BOOLEAN : Start(h, ReadQuery(answered))
       \/ m \in {"write", "begin"} /\ Start(h, WriteQuery)
       \/ m = "lock" /\ Start(h, LockQuery)
    /\ in_transaction' = [in_transaction EXCEPT
                            ![h] = @ \/ m \in {"begin", "lock"}]
    /\ UNCHANGED <<held, bootstrap_ready>>

\* The end of a client's stream, an idle timeout or a response that cannot be written.
CloseStream(h) ==
  /\ message' = [message EXCEPT ![h] = "close"]
  /\ \/ Start(h, Finalize(in_transaction[h]))
     \/ Start(h, RollbackSession(in_transaction[h]))
  /\ in_transaction' = [in_transaction EXCEPT ![h] = FALSE]
  /\ UNCHANGED <<held, bootstrap_ready>>

Tick(t) ==
  /\ \/ t = "heartbeat" /\ Start(t, Heartbeat)
     \/ t = "announce" /\ Start(t, AnnounceTick)
     \/ /\ t = "replication" /\ bootstrap_ready
        /\ \E step \in {"schema", "wal", "ready", "none"} : Start(t, ReplicationTick(step))
  /\ UNCHANGED <<message, held, in_transaction, bootstrap_ready>>

-----------------------------------------------------------------------------
Writers(l) == {u \in Tasks : <<l, "write">> \in held[u]}
Holding(l) == {u \in Tasks : \E m \in {"read", "write"} : <<l, m>> \in held[u]}

\* The tasks that keep the next section of t from starting.
Blockers(t) ==
  IF work[t] = << >> THEN {}
  ELSE LET s == Head(work[t])
       IN  CASE s.mode = "write" -> Holding(s.lock)
             [] s.mode = "read" -> Writers(s.lock)
             [] OTHER -> {}

Keep(locks, drops) == {p \in locks : p[1] \notin drops}

\* A lock is granted, the section runs, and what it drops is given back; the last
\* section gives back everything.  A try_read that fails leaves the section out.
Enter(t) ==
  /\ work[t] # << >> /\ Blockers(t) = {}
  /\ LET s == Head(work[t])
         mode == IF s.mode = "try" THEN "read" ELSE s.mode
         got == IF s.mode = "try" /\ Writers(s.lock) # {} THEN {} ELSE {<<s.lock, mode>>}
     IN  /\ work' = [work EXCEPT ![t] = Tail(@)]
         /\ held' = [held EXCEPT ![t] = IF Len(work[t]) = 1 THEN {}
                                        ELSE Keep(@ \cup got, s.drops)]
  /\ message' = IF t \in Handlers /\ work'[t] = << >>
                THEN [message EXCEPT ![t] = "none"] ELSE message
  /\ bootstrap_ready' = (bootstrap_ready \/ (t = "bootstrap" /\ work'[t] = << >>))
  /\ UNCHANGED in_transaction

LocksNext ==
  \/ \E h \in Handlers : ReceiveServiceMessage(h) \/ ReceiveRequest(h) \/ CloseStream(h)
  \/ \E t \in Background : Tick(t)
  \/ \E t \in Tasks : Enter(t)

LocksSpec == LocksInit /\ [][LocksNext]_serviceVars

-----------------------------------------------------------------------------
\* Every lock has one writer, or readers only, and belongs to tasks at work.
LocksTypeOK ==
  /\ DOMAIN held = Tasks /\ DOMAIN message = Handlers
  /\ in_transaction \in [Handlers -> BOOLEAN]
  /\ \A l \in LockNames : Writers(l) # {} => Cardinality(Holding(l)) = 1

\* Each task of ts waits for a lock that a task of ts holds.
StuckTogether(ts) == \A t \in ts : Blockers(t) \cap ts # {}

\* A TableLockState handler keeps the guard of ServerApp and asks for it again; a
\* join request locks the runtime before the processor, a replication tick the
\* processor before the runtime.
KnownDeadlock(ts) ==
  \/ \E h \in Handlers \cap ts : message[h] = "table lock"
  \/ "replication" \in ts /\ \E h \in Handlers \cap ts : message[h] = "join"

\* These two are the only ways in which tasks of a server can wait for each other
\* for ever: no other combination of messages, queries, ticks and the bootstrap
\* closes a cycle of locks.
DeadlocksAreKnown ==
  \A ts \in (SUBSET Tasks) \ {{}} : StuckTogether(ts) => KnownDeadlock(ts)
=============================================================================
