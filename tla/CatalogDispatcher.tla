-------------------------- MODULE CatalogDispatcher --------------------------
(***************************************************************************)
(* The catalog dispatcher of the connector (CatalogDispatcher in           *)
(* server/src/core/control/connector_handler.rs): one worker task and one  *)
(* channel per catalog, a registry of workers with a capacity, and the     *)
(* catalog each session was routed to last.                                *)
(*                                                                         *)
(* A session's handler clones the worker's handle, records the route,      *)
(* raises the queue depth, sends, and waits for the answer: other sessions *)
(* run between any two of these steps.  A worker ends when no handle of it *)
(* is left, in the registry or with a session.                             *)
(***************************************************************************)
EXTENDS Naturals, Sequences, FiniteSets

CONSTANTS
  Catalogs, Clients,
  NoCatalog,          \* not a catalog: the session has no route
  MaxCatalogWorkers,  \* MAX_CATALOG_WORKERS
  MaxRoutes,          \* MAX_SESSION_ROUTE_ENTRIES
  QueueCapacity,      \* capacity of a worker's channel
  MaxWorkers          \* bound on the workers ever started

ASSUME DispatcherAssumption ==
  /\ NoCatalog \notin Catalogs /\ IsFiniteSet(Clients)
  /\ MaxCatalogWorkers \in Nat \ {0} /\ MaxRoutes \in Nat \ {0}
  /\ QueueCapacity \in Nat \ {0} /\ MaxWorkers \in Nat \ {0}

VARIABLES
  workers,            \* the registry: the worker of a catalog, 0 for none
  session_routes,     \* NoCatalog for a session without an entry
  handle,             \* the worker whose handle a session holds, 0 for none
  step,               \* where dispatch_with_access_mode of a session is
  catalog_of,         \* the catalog a worker was started for
  queue, queue_depth, active_requests, executing,   \* per worker
  started             \* number of workers started

dispatchVars == <<workers, session_routes, handle, step, catalog_of, queue, queue_depth,
                  active_requests, executing, started>>

Workers == 1..MaxWorkers

DispatchInit ==
  /\ workers = [c \in Catalogs |-> 0]
  /\ session_routes = [s \in Clients |-> NoCatalog]
  /\ handle = [s \in Clients |-> 0]
  /\ step = [s \in Clients |-> "idle"]
  /\ catalog_of = [w \in Workers |-> NoCatalog]
  /\ queue = [w \in Workers |-> << >>]
  /\ queue_depth = [w \in Workers |-> 0]
  /\ active_requests = [w \in Workers |-> 0]
  /\ executing = [w \in Workers |-> {}]
  /\ started = 0

Registered == {c \in Catalogs : workers[c] # 0}
Routed == {session_routes[s] : s \in Clients} \ {NoCatalog}
IsIdle(w) == queue_depth[w] = 0 /\ active_requests[w] = 0

\* What is left of the registry when it is at its capacity.
Retained ==
  IF Cardinality(Registered) >= MaxCatalogWorkers
  THEN {c \in Registered : c \in Routed \/ ~IsIdle(workers[c])}
  ELSE Registered

\* worker_for_catalog: evict at capacity, then clone the handle or start a worker.
WorkerForCatalog(s, c) ==
  LET kept == [d \in Catalogs |-> IF d \in Retained THEN workers[d] ELSE 0] IN
  /\ step[s] = "idle"
  /\ \/ /\ kept[c] # 0
        /\ workers' = kept
        /\ handle' = [handle EXCEPT ![s] = kept[c]]
        /\ UNCHANGED <<catalog_of, started>>
     \/ /\ kept[c] = 0 /\ started < MaxWorkers
        /\ started' = started + 1
        /\ workers' = [kept EXCEPT ![c] = started + 1]
        /\ handle' = [handle EXCEPT ![s] = started + 1]
        /\ catalog_of' = [catalog_of EXCEPT ![started + 1] = c]
  /\ step' = [step EXCEPT ![s] = "route"]
  /\ UNCHANGED <<session_routes, queue, queue_depth, active_requests, executing>>

\* The route is recorded; a full route map is cleared first.
RecordRoute(s) ==
  /\ step[s] = "route"
  /\ session_routes' =
       LET routes == IF Cardinality({r \in Clients : session_routes[r] # NoCatalog}) >= MaxRoutes
                     THEN [r \in Clients |-> NoCatalog] ELSE session_routes
       IN  [routes EXCEPT ![s] = catalog_of[handle[s]]]
  /\ step' = [step EXCEPT ![s] = "raise"]
  /\ UNCHANGED <<workers, handle, catalog_of, queue, queue_depth, active_requests, executing, started>>

\* Mutant of RaiseQueueDepth: the message is sent before it is counted.
SendThenRaise(s) ==
  /\ \/ /\ step[s] = "raise" /\ Len(queue[handle[s]]) < QueueCapacity
        /\ queue' = [queue EXCEPT ![handle[s]] = Append(@, s)]
        /\ step' = [step EXCEPT ![s] = "count"]
        /\ UNCHANGED queue_depth
     \/ /\ step[s] = "count"
        /\ queue_depth' = [queue_depth EXCEPT ![handle[s]] = @ + 1]
        /\ step' = [step EXCEPT ![s] = "wait"]
        /\ UNCHANGED queue
  /\ UNCHANGED <<workers, session_routes, handle, catalog_of, active_requests, executing, started>>

RaiseQueueDepth(s) ==
  /\ step[s] = "raise"
  /\ queue_depth' = [queue_depth EXCEPT ![handle[s]] = @ + 1]
  /\ step' = [step EXCEPT ![s] = "send"]
  /\ UNCHANGED <<workers, session_routes, handle, catalog_of, queue, active_requests, executing, started>>

\* The send waits for room in the channel; the session holds a handle, so the
\* channel is open.
Send(s) ==
  /\ step[s] = "send"
  /\ Len(queue[handle[s]]) < QueueCapacity
  /\ queue' = [queue EXCEPT ![handle[s]] = Append(@, s)]
  /\ step' = [step EXCEPT ![s] = "wait"]
  /\ UNCHANGED <<workers, session_routes, handle, catalog_of, queue_depth, active_requests, executing,
                 started>>

\* usize arithmetic: a depth below zero wraps around.
Decrement(n) == IF n = 0 THEN 2^64 - 1 ELSE n - 1

\* Mutant of Receive: a worker that is not in the registry any more has stopped.
ReceiveWhileRegistered(w) ==
  /\ \E c \in Catalogs : workers[c] = w
  /\ queue[w] # << >> /\ executing[w] = {}
  /\ queue' = [queue EXCEPT ![w] = Tail(@)]
  /\ queue_depth' = [queue_depth EXCEPT ![w] = Decrement(@)]
  /\ active_requests' = [active_requests EXCEPT ![w] = @ + 1]
  /\ executing' = [executing EXCEPT ![w] = {Head(queue[w])}]
  /\ UNCHANGED <<workers, session_routes, handle, step, catalog_of, started>>

\* The worker takes the next message.
Receive(w) ==
  /\ queue[w] # << >> /\ executing[w] = {}
  /\ queue' = [queue EXCEPT ![w] = Tail(@)]
  /\ queue_depth' = [queue_depth EXCEPT ![w] = Decrement(@)]
  /\ active_requests' = [active_requests EXCEPT ![w] = @ + 1]
  /\ executing' = [executing EXCEPT ![w] = {Head(queue[w])}]
  /\ UNCHANGED <<workers, session_routes, handle, step, catalog_of, started>>

\* The request was executed under the catalog's lock; the session gets its answer
\* and drops its handle.
Answer(w) ==
  \E s \in executing[w] :
    /\ executing' = [executing EXCEPT ![w] = {}]
    /\ active_requests' = [active_requests EXCEPT ![w] = Decrement(@)]
    /\ step' = [step EXCEPT ![s] = "idle"]
    /\ handle' = [handle EXCEPT ![s] = 0]
    /\ UNCHANGED <<workers, session_routes, catalog_of, queue, queue_depth, started>>

DispatchStep(s) == RecordRoute(s) \/ RaiseQueueDepth(s) \/ Send(s)
WorkerStep(w) == Receive(w) \/ Answer(w)

DispatchNext ==
  \/ \E s \in Clients : (\E c \in Catalogs : WorkerForCatalog(s, c)) \/ DispatchStep(s)
  \/ \E w \in Workers : WorkerStep(w)

\* Handlers and workers are tasks the runtime keeps polling; room in a channel is
\* given to the senders in turn.
DispatchFairness ==
  /\ \A s \in Clients : SF_dispatchVars(DispatchStep(s))
  /\ \A w \in Workers : WF_dispatchVars(WorkerStep(w))

DispatchSpec == DispatchInit /\ [][DispatchNext]_dispatchVars /\ DispatchFairness

-----------------------------------------------------------------------------
\* The registry names started workers of its own catalogs.
DispatchTypeOK ==
  /\ workers \in [Catalogs -> 0..started]
  /\ handle \in [Clients -> 0..started]
  /\ session_routes \in [Clients -> Catalogs \cup {NoCatalog}]
  /\ \A c \in Registered : catalog_of[workers[c]] = c

\* The two counters SHOW WORKERS prints, and that decide about eviction, are exact:
\* queue_depth counts the messages in the channel and the senders about to send,
\* active_requests the one being executed; neither wraps below zero.
CountersAreExact ==
  \A w \in Workers :
    /\ queue_depth[w] = Len(queue[w]) + Cardinality({s \in Clients :
                                                       handle[s] = w /\ step[s] = "send"})
    /\ active_requests[w] = Cardinality(executing[w])

\* An eviction takes no worker that has a message in its channel or executes one:
\* a second worker of the same catalog is started only while the first has no work
\* but that of sessions that cloned its handle and have not sent yet.
EvictionSparesBusyWorkers ==
  [][\A c \in Catalogs :
       workers[c] # 0 /\ workers'[c] # workers[c] =>
         queue[workers[c]] = << >> /\ executing[workers[c]] = {}]_dispatchVars

\* Every dispatched request is answered: eviction never closes a channel that a
\* session is about to send to or waits on.
RequestsAreAnswered == \A s \in Clients : (step[s] # "idle") ~> (step[s] = "idle")
=============================================================================
