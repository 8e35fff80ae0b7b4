----------------------- MODULE CatalogDispatcherProofs -----------------------
(***************************************************************************)
(* Proofs about the catalog dispatcher, for any catalogs, any finite set   *)
(* of clients and any capacities.                                          *)
(***************************************************************************)
EXTENDS CatalogDispatcher, FiniteSetTheorems, SequenceTheorems, TLAPS

Steps == {"idle", "route", "raise", "send", "wait"}

\* The sessions that have raised the depth of worker w and not sent yet.
Senders(w) == {s \in Clients : handle[s] = w /\ step[s] = "send"}

\* The maps of the dispatcher and of its workers.
DispatchTypes ==
  /\ DispatchTypeOK
  /\ started \in 0..MaxWorkers
  /\ step \in [Clients -> Steps]
  /\ catalog_of \in [Workers -> Catalogs \cup {NoCatalog}]
  /\ queue \in [Workers -> Seq(Clients)]
  /\ queue_depth \in [Workers -> Nat]
  /\ active_requests \in [Workers -> Nat]
  /\ executing \in [Workers -> SUBSET Clients]
  /\ \A w \in Workers : w <= started => catalog_of[w] \in Catalogs

\* A session between cloning the handle and its answer holds a worker.
HandlesAreHeld == \A s \in Clients : step[s] # "idle" => handle[s] \in Workers

\* A request is in one place: a session whose request is in a channel or in
\* execution waits on that worker, is in the channel once and not in both.
RequestsAreInOnePlace ==
  \A w \in Workers :
    /\ \A i \in 1..Len(queue[w]) :
         /\ step[queue[w][i]] = "wait" /\ handle[queue[w][i]] = w
         /\ queue[w][i] \notin executing[w]
         /\ \A j \in 1..Len(queue[w]) : queue[w][i] = queue[w][j] => i = j
    /\ \A s \in executing[w] :
         /\ step[s] = "wait" /\ handle[s] = w
         /\ executing[w] = {s}

DispatchInv ==
  /\ DispatchTypes
  /\ HandlesAreHeld
  /\ RequestsAreInOnePlace
  /\ CountersAreExact

\* An idle dispatcher without workers.
LEMMA DispatchInitInv == DispatchInit => DispatchInv
<1> SUFFICES ASSUME DispatchInit PROVE DispatchInv
  OBVIOUS
<1>1. DispatchTypes
  BY DispatcherAssumption
     DEF DispatchInit, DispatchTypes, DispatchTypeOK, Registered, Steps, Workers
<1>2. HandlesAreHeld
  BY DEF DispatchInit, HandlesAreHeld
<1>3. RequestsAreInOnePlace
  BY DEF DispatchInit, RequestsAreInOnePlace
<1>4. CountersAreExact
  <2> SUFFICES ASSUME NEW w \in Workers
               PROVE  /\ queue_depth[w] = Len(queue[w]) + Cardinality(Senders(w))
                      /\ active_requests[w] = Cardinality(executing[w])
    BY DEF CountersAreExact, Senders
  <2>1. Senders(w) = {} /\ queue[w] = << >> /\ executing[w] = {}
    BY DEF DispatchInit, Senders
  <2>2. queue_depth[w] = 0 /\ active_requests[w] = 0
    BY DEF DispatchInit
  <2>3. QED
    BY <2>1, <2>2, FS_EmptySet
<1>5. QED
  BY <1>1, <1>2, <1>3, <1>4 DEF DispatchInv

\* The senders are finitely many.
LEMMA SendersAreFinite ==
  ASSUME NEW w PROVE IsFiniteSet(Senders(w)) /\ Cardinality(Senders(w)) \in Nat
BY DispatcherAssumption, FS_Subset, FS_CardinalityType DEF Senders

\* A worker with both counters at zero has nothing in its channel and nothing in
\* execution.
LEMMA IdleWorkerHasNoWork ==
  ASSUME DispatchInv, NEW w \in Workers, IsIdle(w)
  PROVE  queue[w] = << >> /\ executing[w] = {}
<1>1. /\ queue_depth[w] = Len(queue[w]) + Cardinality(Senders(w))
      /\ active_requests[w] = Cardinality(executing[w])
      /\ queue[w] \in Seq(Clients) /\ executing[w] \in SUBSET Clients
  BY DEF DispatchInv, CountersAreExact, Senders, DispatchTypes
<1>2. Cardinality(Senders(w)) \in Nat /\ Len(queue[w]) \in Nat
  BY <1>1, SendersAreFinite
<1>3. Len(queue[w]) = 0
  BY <1>1, <1>2 DEF IsIdle
<1>4. IsFiniteSet(executing[w])
  BY <1>1, DispatcherAssumption, FS_Subset
<1>5. QED
  BY <1>1, <1>3, <1>4, FS_EmptySet, EmptySeq DEF IsIdle

-----------------------------------------------------------------------------
(* The steps.                                                              *)

\* A step that moves no request and changes no counter, channel or executing set,
\* and lets no session into or out of the sending ones, preserves the invariant.
LEMMA SessionStep ==
  ASSUME DispatchInv, DispatchTypes', NEW s \in Clients,
         step[s] \notin {"send", "wait"}, step'[s] \notin {"send", "wait"},
         step'[s] # "idle" => handle'[s] \in Workers,
         \A r \in Clients : r # s => step'[r] = step[r] /\ handle'[r] = handle[r],
         UNCHANGED <<queue, queue_depth, active_requests, executing>>
  PROVE  DispatchInv'
<1>1. HandlesAreHeld'
  BY DEF DispatchInv, HandlesAreHeld
<1>2. RequestsAreInOnePlace'
  <2> SUFFICES ASSUME NEW w \in Workers
               PROVE  /\ \A i \in 1..Len(queue[w]) :
                           step'[queue[w][i]] = "wait" /\ handle'[queue[w][i]] = w
                      /\ \A r \in executing[w] : step'[r] = "wait" /\ handle'[r] = w
    BY DEF DispatchInv, RequestsAreInOnePlace
  <2>1. /\ \A i \in 1..Len(queue[w]) :
             step[queue[w][i]] = "wait" /\ handle[queue[w][i]] = w
        /\ \A r \in executing[w] : step[r] = "wait" /\ handle[r] = w
    BY DEF DispatchInv, RequestsAreInOnePlace
  <2>2. \A i \in 1..Len(queue[w]) : queue[w][i] \in Clients
    BY DEF DispatchInv, DispatchTypes
  <2>3. executing[w] \subseteq Clients
    BY DEF DispatchInv, DispatchTypes
  <2>4. QED
    BY <2>1, <2>2, <2>3
<1>3. CountersAreExact'
  <2> SUFFICES ASSUME NEW w \in Workers
               PROVE  /\ queue_depth'[w] = Len(queue'[w]) + Cardinality(Senders(w)')
                      /\ active_requests'[w] = Cardinality(executing'[w])
    BY DEF CountersAreExact, Senders
  <2>1. Senders(w)' = Senders(w)
    BY DEF Senders
  <2>2. QED
    BY <2>1 DEF DispatchInv, CountersAreExact, Senders
<1>4. QED
  BY <1>1, <1>2, <1>3 DEF DispatchInv

\* What worker_for_catalog leaves of the registry.
Kept == [d \in Catalogs |-> IF d \in Retained THEN workers[d] ELSE 0]

\* worker_for_catalog: the registry names started workers of its own catalogs after
\* an eviction and a start.
LEMMA WorkerForCatalogStep ==
  ASSUME DispatchInv, NEW s \in Clients, NEW c \in Catalogs, WorkerForCatalog(s, c)
  PROVE  DispatchInv'
<1>1. /\ DispatchTypes /\ step[s] = "idle"
      /\ step' = [step EXCEPT ![s] = "route"]
      /\ UNCHANGED <<session_routes, queue, queue_depth, active_requests, executing>>
  BY DEF DispatchInv, WorkerForCatalog
<1>2. /\ started \in Nat /\ started <= MaxWorkers /\ MaxWorkers \in Nat
      /\ workers \in [Catalogs -> 0..started] /\ handle \in [Clients -> 0..started]
      /\ \A d \in Catalogs : workers[d] # 0 => catalog_of[workers[d]] = d
      /\ catalog_of \in [Workers -> Catalogs \cup {NoCatalog}]
      /\ \A w \in Workers : w <= started => catalog_of[w] \in Catalogs
  BY <1>1, DispatcherAssumption DEF DispatchTypes, DispatchTypeOK, Registered
<1>3. /\ Kept \in [Catalogs -> 0..started]
      /\ \A d \in Catalogs : Kept[d] # 0 => Kept[d] = workers[d]
  BY <1>2 DEF Kept
<1>4. CASE /\ Kept[c] # 0 /\ workers' = Kept
           /\ handle' = [handle EXCEPT ![s] = Kept[c]]
           /\ UNCHANGED <<catalog_of, started>>
  <2>1. DispatchTypes'
    BY <1>1, <1>2, <1>3, <1>4 DEF DispatchTypes, DispatchTypeOK, Registered, Steps
  <2>2. handle'[s] \in Workers
    BY <1>2, <1>3, <1>4 DEF Workers
  <2>3. QED
    BY <1>1, <1>2, <1>4, <2>1, <2>2, SessionStep DEF DispatchTypes
<1>5. CASE /\ Kept[c] = 0 /\ started < MaxWorkers
           /\ started' = started + 1
           /\ workers' = [Kept EXCEPT ![c] = started + 1]
           /\ handle' = [handle EXCEPT ![s] = started + 1]
           /\ catalog_of' = [catalog_of EXCEPT ![started + 1] = c]
  <2>1. started + 1 \in Workers /\ started' \in 0..MaxWorkers
    BY <1>2, <1>5 DEF Workers
  <2>2. /\ workers' \in [Catalogs -> 0..started'] /\ handle' \in [Clients -> 0..started']
        /\ catalog_of' \in [Workers -> Catalogs \cup {NoCatalog}]
    <3>1. 0..started \subseteq 0..started' /\ started + 1 \in 0..started'
      BY <1>2, <1>5
    <3>2. Kept \in [Catalogs -> 0..started'] /\ handle \in [Clients -> 0..started']
      BY <1>2, <1>3, <3>1
    <3>3. QED
      BY <1>2, <1>5, <3>1, <3>2
  <2>3. \A d \in Catalogs : workers'[d] # 0 => catalog_of'[workers'[d]] = d
    BY <1>2, <1>3, <1>5, <2>1 DEF Workers
  <2>4. \A w \in Workers : w <= started' => catalog_of'[w] \in Catalogs
    BY <1>2, <1>5 DEF Workers
  <2>5. DispatchTypes'
    BY <1>1, <2>1, <2>2, <2>3, <2>4 DEF DispatchTypes, DispatchTypeOK, Registered, Steps
  <2>6. QED
    BY <1>1, <1>2, <1>5, <2>1, <2>5, SessionStep DEF DispatchTypes
<1>6. QED
  BY <1>4, <1>5 DEF WorkerForCatalog, Kept

\* The route of a session is recorded.
LEMMA RecordRouteStep ==
  ASSUME DispatchInv, NEW s \in Clients, RecordRoute(s)
  PROVE  DispatchInv'
<1>1. /\ DispatchTypes /\ step[s] = "route" /\ handle[s] \in Workers
      /\ step' = [step EXCEPT ![s] = "raise"]
  BY DEF DispatchInv, RecordRoute, HandlesAreHeld
<1>2. session_routes' \in [Clients -> Catalogs \cup {NoCatalog}]
  <2>1. catalog_of[handle[s]] \in Catalogs \cup {NoCatalog}
    BY <1>1 DEF DispatchTypes
  <2>2. QED
    BY <1>1, <2>1 DEF RecordRoute, DispatchTypes, DispatchTypeOK
<1>3. DispatchTypes'
  BY <1>1, <1>2 DEF RecordRoute, DispatchTypes, DispatchTypeOK, Registered, Steps
<1>4. QED
  BY <1>1, <1>3, SessionStep DEF RecordRoute, DispatchTypes

\* The depth of the worker is raised before the request is sent: the session counts
\* as a sender from then on.
LEMMA RaiseQueueDepthStep ==
  ASSUME DispatchInv, NEW s \in Clients, RaiseQueueDepth(s)
  PROVE  DispatchInv'
<1> DEFINE h == handle[s]
<1>1. /\ DispatchTypes /\ step[s] = "raise" /\ h \in Workers
      /\ step' = [step EXCEPT ![s] = "send"]
      /\ queue_depth' = [queue_depth EXCEPT ![h] = @ + 1]
      /\ UNCHANGED <<workers, session_routes, handle, catalog_of, queue, active_requests,
                     executing, started>>
  BY DEF DispatchInv, RaiseQueueDepth, HandlesAreHeld
<1>2. DispatchTypes'
  BY <1>1 DEF DispatchTypes, DispatchTypeOK, Registered, Steps
<1>3. HandlesAreHeld'
  BY <1>1 DEF DispatchInv, HandlesAreHeld, DispatchTypes
<1>4. RequestsAreInOnePlace'
  <2> SUFFICES ASSUME NEW w \in Workers
               PROVE  /\ \A i \in 1..Len(queue[w]) :
                           step'[queue[w][i]] = "wait" /\ handle'[queue[w][i]] = w
                      /\ \A r \in executing[w] : step'[r] = "wait" /\ handle'[r] = w
    BY <1>1 DEF DispatchInv, RequestsAreInOnePlace
  <2>1. /\ \A i \in 1..Len(queue[w]) :
             step[queue[w][i]] = "wait" /\ handle[queue[w][i]] = w
        /\ \A r \in executing[w] : step[r] = "wait" /\ handle[r] = w
    BY DEF DispatchInv, RequestsAreInOnePlace
  <2>2. /\ \A i \in 1..Len(queue[w]) : queue[w][i] \in Clients
        /\ executing[w] \subseteq Clients
    BY <1>1 DEF DispatchTypes
  <2>3. QED
    BY <1>1, <2>1, <2>2 DEF DispatchTypes
<1>5. CountersAreExact'
  <2> SUFFICES ASSUME NEW w \in Workers
               PROVE  /\ queue_depth'[w] = Len(queue'[w]) + Cardinality(Senders(w)')
                      /\ active_requests'[w] = Cardinality(executing'[w])
    BY DEF CountersAreExact, Senders
  <2>1. /\ queue_depth[w] = Len(queue[w]) + Cardinality(Senders(w))
        /\ active_requests[w] = Cardinality(executing[w])
    BY DEF DispatchInv, CountersAreExact, Senders
  <2> queue_depth[w] \in Nat /\ queue[w] \in Seq(Clients) /\ Len(queue[w]) \in Nat
    BY <1>1 DEF DispatchTypes
  <2>2. CASE w # h
    <3>1. Senders(w)' = Senders(w)
      BY <1>1, <2>2 DEF Senders, DispatchTypes
    <3>2. queue_depth'[w] = queue_depth[w]
      BY <1>1, <2>2 DEF DispatchTypes
    <3>3. QED
      BY <1>1, <2>1, <3>1, <3>2
  <2>3. CASE w = h
    <3>1. Senders(w)' = Senders(w) \cup {s} /\ s \notin Senders(w)
      BY <1>1, <2>3 DEF Senders, DispatchTypes
    <3>2. Cardinality(Senders(w)') = Cardinality(Senders(w)) + 1
      BY <3>1, SendersAreFinite, FS_AddElement
    <3>3. queue_depth'[w] = queue_depth[w] + 1
      BY <1>1, <2>3 DEF DispatchTypes
    <3>4. Cardinality(Senders(w)) \in Nat
      BY SendersAreFinite
    <3>5. queue' = queue /\ active_requests' = active_requests /\ executing' = executing
      BY <1>1
    <3>6. QED
      BY <2>1, <3>2, <3>3, <3>4, <3>5
  <2>4. QED
    BY <2>2, <2>3
<1>6. QED
  BY <1>2, <1>3, <1>4, <1>5 DEF DispatchInv

\* The request goes to the end of the channel: one sender less, one message more.
LEMMA SendStep ==
  ASSUME DispatchInv, NEW s \in Clients, Send(s)
  PROVE  DispatchInv'
<1> DEFINE h == handle[s]
<1>1. /\ DispatchTypes /\ step[s] = "send" /\ h \in Workers
      /\ step' = [step EXCEPT ![s] = "wait"]
      /\ queue' = [queue EXCEPT ![h] = Append(@, s)]
      /\ UNCHANGED <<workers, session_routes, handle, catalog_of, queue_depth, active_requests,
                     executing, started>>
  BY DEF DispatchInv, Send, HandlesAreHeld
<1>2. /\ queue[h] \in Seq(Clients) /\ queue'[h] = Append(queue[h], s)
      /\ \A w \in Workers : w # h => queue'[w] = queue[w]
  BY <1>1 DEF DispatchTypes
<1>3. /\ Append(queue[h], s) \in Seq(Clients)
      /\ Len(queue'[h]) = Len(queue[h]) + 1 /\ Len(queue[h]) \in Nat
      /\ \A i \in 1..Len(queue[h]) : queue'[h][i] = queue[h][i]
      /\ queue'[h][Len(queue[h]) + 1] = s
  BY <1>2
<1>4. DispatchTypes'
  BY <1>1, <1>3 DEF DispatchTypes, DispatchTypeOK, Registered, Steps
<1>5. HandlesAreHeld'
  BY <1>1 DEF DispatchInv, HandlesAreHeld, DispatchTypes
<1>6. /\ step'[s] = "wait" /\ handle'[s] = h
      /\ \A r \in Clients : step[r] = "wait" => r # s /\ step'[r] = "wait" /\ handle'[r] = handle[r]
  BY <1>1 DEF DispatchTypes
<1>7. RequestsAreInOnePlace'
  <2> SUFFICES ASSUME NEW w \in Workers
               PROVE  /\ \A i \in 1..Len(queue'[w]) :
                           /\ step'[queue'[w][i]] = "wait" /\ handle'[queue'[w][i]] = w
                           /\ queue'[w][i] \notin executing'[w]
                           /\ \A j \in 1..Len(queue'[w]) : queue'[w][i] = queue'[w][j] => i = j
                      /\ \A r \in executing'[w] :
                           /\ step'[r] = "wait" /\ handle'[r] = w /\ executing'[w] = {r}
    BY DEF RequestsAreInOnePlace
  <2>1. /\ \A i \in 1..Len(queue[w]) :
             /\ queue[w][i] \in Clients
             /\ step[queue[w][i]] = "wait" /\ handle[queue[w][i]] = w
             /\ queue[w][i] \notin executing[w]
             /\ \A j \in 1..Len(queue[w]) : queue[w][i] = queue[w][j] => i = j
        /\ \A r \in executing[w] :
             /\ r \in Clients /\ step[r] = "wait" /\ handle[r] = w /\ executing[w] = {r}
    BY <1>1 DEF DispatchInv, RequestsAreInOnePlace, DispatchTypes
  <2>2. \A r \in executing'[w] :
          /\ step'[r] = "wait" /\ handle'[r] = w /\ executing'[w] = {r} /\ r # s
    BY <1>1, <1>6, <2>1
  <2>3. CASE w # h
    BY <1>1, <1>2, <1>6, <2>1, <2>2, <2>3
  <2>4. CASE w = h
    <3>1. \A i \in 1..Len(queue[h]) :
            /\ queue'[h][i] = queue[h][i] /\ queue[h][i] # s
            /\ step'[queue[h][i]] = "wait" /\ handle'[queue[h][i]] = h
            /\ queue[h][i] \notin executing'[h]
      BY <1>1, <1>3, <1>6, <2>1, <2>4
    <3>2. \A i \in 1..Len(queue'[h]) : i \in 1..Len(queue[h]) \/ i = Len(queue[h]) + 1
      BY <1>3
    <3>3. s \notin executing'[h]
      BY <2>2, <2>4
    <3>4. \A i \in 1..Len(queue'[h]) :
            /\ step'[queue'[h][i]] = "wait" /\ handle'[queue'[h][i]] = h
            /\ queue'[h][i] \notin executing'[h]
      BY <1>3, <1>6, <3>1, <3>2, <3>3
    <3>5. \A i, j \in 1..Len(queue'[h]) : queue'[h][i] = queue'[h][j] => i = j
      <4>1. SUFFICES ASSUME NEW i \in 1..Len(queue'[h]), NEW j \in 1..Len(queue'[h]),
                            queue'[h][i] = queue'[h][j]
                     PROVE  i = j
        OBVIOUS
      <4>2. CASE i \in 1..Len(queue[h]) /\ j \in 1..Len(queue[h])
        BY <2>1, <2>4, <3>1, <4>1, <4>2
      <4>3. CASE i = Len(queue[h]) + 1 /\ j \in 1..Len(queue[h])
        BY <1>3, <3>1, <4>1, <4>3
      <4>4. CASE j = Len(queue[h]) + 1 /\ i \in 1..Len(queue[h])
        BY <1>3, <3>1, <4>1, <4>4
      <4>5. QED
        BY <3>2, <4>2, <4>3, <4>4
    <3>6. QED
      BY <2>2, <2>4, <3>4, <3>5
  <2>5. QED
    BY <2>3, <2>4
<1>8. CountersAreExact'
  <2> SUFFICES ASSUME NEW w \in Workers
               PROVE  /\ queue_depth'[w] = Len(queue'[w]) + Cardinality(Senders(w)')
                      /\ active_requests'[w] = Cardinality(executing'[w])
    BY DEF CountersAreExact, Senders
  <2>1. /\ queue_depth[w] = Len(queue[w]) + Cardinality(Senders(w))
        /\ active_requests[w] = Cardinality(executing[w])
    BY <1>1 DEF DispatchInv, CountersAreExact, Senders
  <2>2. CASE w # h
    <3>1. Senders(w)' = Senders(w)
      BY <1>1, <2>2 DEF Senders, DispatchTypes
    <3>2. QED
      BY <1>1, <1>2, <2>1, <2>2, <3>1
  <2>3. CASE w = h
    <3>1. Senders(w)' = Senders(w) \ {s} /\ s \in Senders(w)
      BY <1>1, <2>3 DEF Senders, DispatchTypes
    <3>2. Cardinality(Senders(w)') = Cardinality(Senders(w)) - 1
      BY <3>1, SendersAreFinite, FS_RemoveElement
    <3>3. Cardinality(Senders(w)) \in Nat
      BY SendersAreFinite
    <3>4. Len(queue'[w]) = Len(queue[w]) + 1 /\ Len(queue[w]) \in Nat
      BY <1>3, <2>3
    <3>5. queue_depth'[w] = queue_depth[w] /\ active_requests' = active_requests
          /\ executing' = executing
      BY <1>1
    <3>6. QED
      BY <2>1, <3>2, <3>3, <3>4, <3>5
  <2>4. QED
    BY <2>2, <2>3
<1>9. QED
  BY <1>4, <1>5, <1>7, <1>8 DEF DispatchInv

\* The worker takes the head of its channel: one message less, one request in
\* execution more.
LEMMA ReceiveStep ==
  ASSUME DispatchInv, NEW v \in Workers, Receive(v)
  PROVE  DispatchInv'
<1> DEFINE m == Head(queue[v])
<1>1. /\ DispatchTypes /\ queue[v] # << >> /\ executing[v] = {}
      /\ queue' = [queue EXCEPT ![v] = Tail(@)]
      /\ queue_depth' = [queue_depth EXCEPT ![v] = Decrement(@)]
      /\ active_requests' = [active_requests EXCEPT ![v] = @ + 1]
      /\ executing' = [executing EXCEPT ![v] = {m}]
      /\ UNCHANGED <<workers, session_routes, handle, step, catalog_of, started>>
  BY DEF DispatchInv, Receive
<1>2. queue[v] \in Seq(Clients) /\ queue_depth[v] \in Nat
  BY <1>1 DEF DispatchTypes
<1>3. /\ Len(queue[v]) \in Nat \ {0} /\ m = queue[v][1] /\ m \in Clients
      /\ Tail(queue[v]) \in Seq(Clients) /\ Len(Tail(queue[v])) = Len(queue[v]) - 1
      /\ \A i \in 1..(Len(queue[v]) - 1) : Tail(queue[v])[i] = queue[v][i + 1]
  BY <1>1, <1>2, HeadTailProperties
<1>4. queue_depth[v] = Len(queue[v]) + Cardinality(Senders(v)) /\ active_requests[v] = 0
  BY <1>1, FS_EmptySet DEF DispatchInv, CountersAreExact, Senders
<1>5. queue_depth[v] # 0 /\ Decrement(queue_depth[v]) = queue_depth[v] - 1
  <2>1. Cardinality(Senders(v)) \in Nat
    BY SendersAreFinite
  <2>2. queue_depth[v] # 0
    BY <1>2, <1>3, <1>4, <2>1
  <2>3. QED
    BY <2>2 DEF Decrement
<1>6. DispatchTypes'
  <2>1. /\ queue' \in [Workers -> Seq(Clients)] /\ queue_depth' \in [Workers -> Nat]
    BY <1>1, <1>2, <1>3, <1>5 DEF DispatchTypes
  <2>2. active_requests' \in [Workers -> Nat] /\ executing' \in [Workers -> SUBSET Clients]
    BY <1>1, <1>3 DEF DispatchTypes
  <2>3. QED
    BY <1>1, <2>1, <2>2 DEF DispatchTypes, DispatchTypeOK, Registered
<1>7. HandlesAreHeld'
  BY <1>1 DEF DispatchInv, HandlesAreHeld
<1>8. RequestsAreInOnePlace'
  <2> SUFFICES ASSUME NEW w \in Workers
               PROVE  /\ \A i \in 1..Len(queue'[w]) :
                           /\ step'[queue'[w][i]] = "wait" /\ handle'[queue'[w][i]] = w
                           /\ queue'[w][i] \notin executing'[w]
                           /\ \A j \in 1..Len(queue'[w]) : queue'[w][i] = queue'[w][j] => i = j
                      /\ \A r \in executing'[w] :
                           /\ step'[r] = "wait" /\ handle'[r] = w /\ executing'[w] = {r}
    BY DEF RequestsAreInOnePlace
  <2>1. /\ \A i \in 1..Len(queue[w]) :
             /\ step[queue[w][i]] = "wait" /\ handle[queue[w][i]] = w
             /\ queue[w][i] \notin executing[w]
             /\ \A j \in 1..Len(queue[w]) : queue[w][i] = queue[w][j] => i = j
        /\ \A r \in executing[w] :
             /\ step[r] = "wait" /\ handle[r] = w /\ executing[w] = {r}
    BY DEF DispatchInv, RequestsAreInOnePlace
  <2>2. CASE w # v
    <3>1. queue'[w] = queue[w] /\ executing'[w] = executing[w]
      BY <1>1, <2>2 DEF DispatchTypes
    <3>2. QED
      BY <1>1, <2>1, <3>1
  <2>3. CASE w = v
    <3>1. queue'[w] = Tail(queue[v]) /\ executing'[w] = {m}
      BY <1>1, <2>3 DEF DispatchTypes
    <3>2. \A i \in 1..Len(queue'[w]) :
            /\ i \in 1..(Len(queue[v]) - 1) /\ i + 1 \in 1..Len(queue[v])
            /\ queue'[w][i] = queue[v][i + 1] /\ i + 1 # 1
      BY <1>3, <3>1
    <3>3. 1 \in 1..Len(queue[v])
      BY <1>3
    <3>4. \A r \in executing'[w] :
            /\ step'[r] = "wait" /\ handle'[r] = w /\ executing'[w] = {r}
      BY <1>1, <1>3, <2>1, <2>3, <3>1, <3>3
    <3>5. ASSUME NEW i \in 1..Len(queue'[w])
          PROVE  /\ step'[queue'[w][i]] = "wait" /\ handle'[queue'[w][i]] = w
                 /\ queue'[w][i] \notin executing'[w]
      BY <1>1, <1>3, <2>1, <2>3, <3>1, <3>2, <3>3
    <3>6. ASSUME NEW i \in 1..Len(queue'[w]), NEW j \in 1..Len(queue'[w]),
                 queue'[w][i] = queue'[w][j]
          PROVE  i = j
      <4>0. /\ i + 1 \in 1..Len(queue[w]) /\ j + 1 \in 1..Len(queue[w])
            /\ queue[w][i + 1] = queue[w][j + 1]
        BY <2>3, <3>2, <3>6
      <4>1. i + 1 = j + 1
        BY <2>1, <4>0
      <4>2. QED
        BY <4>1
    <3>7. QED
      BY <3>4, <3>5, <3>6
  <2>4. QED
    BY <2>2, <2>3
<1>9. CountersAreExact'
  <2> SUFFICES ASSUME NEW w \in Workers
               PROVE  /\ queue_depth'[w] = Len(queue'[w]) + Cardinality(Senders(w)')
                      /\ active_requests'[w] = Cardinality(executing'[w])
    BY DEF CountersAreExact, Senders
  <2>1. Senders(w)' = Senders(w)
    BY <1>1 DEF Senders
  <2>2. CASE w # v
    <3>1. /\ queue'[w] = queue[w] /\ executing'[w] = executing[w]
          /\ queue_depth'[w] = queue_depth[w] /\ active_requests'[w] = active_requests[w]
      BY <1>1, <2>2 DEF DispatchTypes
    <3>2. QED
      BY <2>1, <3>1 DEF DispatchInv, CountersAreExact, Senders
  <2>3. CASE w = v
    <3>1. /\ queue'[w] = Tail(queue[v]) /\ executing'[w] = {m}
          /\ queue_depth'[w] = queue_depth[v] - 1 /\ active_requests'[w] = 0 + 1
      BY <1>1, <1>4, <1>5, <2>3 DEF DispatchTypes
    <3>2. Cardinality({m}) = 1
      BY FS_Singleton
    <3>3. Cardinality(Senders(v)) \in Nat
      BY SendersAreFinite
    <3>4. QED
      BY <1>3, <1>4, <2>1, <2>3, <3>1, <3>2, <3>3
  <2>4. QED
    BY <2>2, <2>3
<1>10. QED
  BY <1>6, <1>7, <1>8, <1>9 DEF DispatchInv

\* The session is answered and drops its handle.
LEMMA AnswerStep ==
  ASSUME DispatchInv, NEW v \in Workers, Answer(v)
  PROVE  DispatchInv'
<1>1. PICK s \in executing[v] :
        /\ executing' = [executing EXCEPT ![v] = {}]
        /\ active_requests' = [active_requests EXCEPT ![v] = Decrement(@)]
        /\ step' = [step EXCEPT ![s] = "idle"]
        /\ handle' = [handle EXCEPT ![s] = 0]
        /\ UNCHANGED <<workers, session_routes, catalog_of, queue, queue_depth, started>>
  BY DEF Answer
<1>2. /\ DispatchTypes /\ s \in Clients
      /\ step[s] = "wait" /\ handle[s] = v /\ executing[v] = {s}
  BY DEF DispatchInv, RequestsAreInOnePlace, DispatchTypes
<1>3. active_requests[v] = 1 /\ Decrement(active_requests[v]) = 0
  <2>1. active_requests[v] = Cardinality({s})
    BY <1>2 DEF DispatchInv, CountersAreExact
  <2>2. QED
    BY <2>1, FS_Singleton DEF Decrement
<1>4. DispatchTypes'
  <2>1. handle' \in [Clients -> 0..started]
    BY <1>1, <1>2 DEF DispatchTypes, DispatchTypeOK
  <2>2. active_requests' \in [Workers -> Nat] /\ executing' \in [Workers -> SUBSET Clients]
    BY <1>1, <1>2, <1>3 DEF DispatchTypes
  <2>3. step' \in [Clients -> Steps]
    BY <1>1, <1>2 DEF DispatchTypes, Steps
  <2>4. QED
    BY <1>1, <1>2, <2>1, <2>2, <2>3 DEF DispatchTypes, DispatchTypeOK, Registered
<1>5. \A r \in Clients : r # s => step'[r] = step[r] /\ handle'[r] = handle[r]
  BY <1>1, <1>2 DEF DispatchTypes, DispatchTypeOK
<1>6. HandlesAreHeld'
  BY <1>1, <1>2, <1>5 DEF DispatchInv, HandlesAreHeld, DispatchTypes
<1>7. \A w \in Workers : w # v => executing'[w] = executing[w]
                                  /\ active_requests'[w] = active_requests[w]
  BY <1>1, <1>2 DEF DispatchTypes
<1>8. executing'[v] = {} /\ active_requests'[v] = 0
  BY <1>1, <1>2, <1>3 DEF DispatchTypes
<1>9. RequestsAreInOnePlace'
  <2> SUFFICES ASSUME NEW w \in Workers
               PROVE  /\ \A i \in 1..Len(queue[w]) :
                           /\ step'[queue[w][i]] = "wait" /\ handle'[queue[w][i]] = w
                           /\ queue[w][i] \notin executing'[w]
                           /\ \A j \in 1..Len(queue[w]) : queue[w][i] = queue[w][j] => i = j
                      /\ \A r \in executing'[w] :
                           /\ step'[r] = "wait" /\ handle'[r] = w /\ executing'[w] = {r}
    BY <1>1 DEF RequestsAreInOnePlace
  <2>1. /\ \A i \in 1..Len(queue[w]) :
             /\ step[queue[w][i]] = "wait" /\ handle[queue[w][i]] = w
             /\ queue[w][i] \notin executing[w]
             /\ \A j \in 1..Len(queue[w]) : queue[w][i] = queue[w][j] => i = j
        /\ \A r \in executing[w] :
             /\ step[r] = "wait" /\ handle[r] = w /\ executing[w] = {r}
    BY DEF DispatchInv, RequestsAreInOnePlace
  <2>2. /\ \A i \in 1..Len(queue[w]) : queue[w][i] \in Clients
        /\ executing[w] \subseteq Clients
    BY <1>2 DEF DispatchTypes
  <2>3. \A i \in 1..Len(queue[w]) : queue[w][i] # s
    BY <1>2, <2>1
  <2>4. CASE w # v
    <3>1. s \notin executing[w]
      BY <1>2, <2>1, <2>4
    <3>2. QED
      BY <1>5, <1>7, <2>1, <2>2, <2>3, <2>4, <3>1
  <2>5. CASE w = v
    BY <1>5, <1>8, <2>1, <2>2, <2>3, <2>5
  <2>6. QED
    BY <2>4, <2>5
<1>10. CountersAreExact'
  <2> SUFFICES ASSUME NEW w \in Workers
               PROVE  /\ queue_depth'[w] = Len(queue'[w]) + Cardinality(Senders(w)')
                      /\ active_requests'[w] = Cardinality(executing'[w])
    BY DEF CountersAreExact, Senders
  <2>1. Senders(w)' = Senders(w)
    <3>1. s \notin Senders(w)
      BY <1>2 DEF Senders
    <3>2. s \notin Senders(w)'
      BY <1>1, <1>2 DEF Senders, DispatchTypes
    <3>3. QED
      BY <1>5, <3>1, <3>2 DEF Senders
  <2>2. /\ queue_depth[w] = Len(queue[w]) + Cardinality(Senders(w))
        /\ active_requests[w] = Cardinality(executing[w])
    BY DEF DispatchInv, CountersAreExact, Senders
  <2>3. QED
    BY <1>1, <1>7, <1>8, <2>1, <2>2, FS_EmptySet
<1>11. QED
  BY <1>4, <1>6, <1>9, <1>10 DEF DispatchInv

-----------------------------------------------------------------------------
(* The theorems.                                                           *)

\* Every step of the dispatcher keeps the inductive invariant.
LEMMA DispatchInvIsInductive ==
  ASSUME DispatchInv, [DispatchNext]_dispatchVars PROVE DispatchInv'
<1>1. CASE UNCHANGED dispatchVars
  BY <1>1 DEF DispatchInv, DispatchTypes, DispatchTypeOK, Registered, HandlesAreHeld,
     RequestsAreInOnePlace, CountersAreExact, dispatchVars
<1>2. ASSUME NEW s \in Clients, NEW c \in Catalogs, WorkerForCatalog(s, c) PROVE DispatchInv'
  BY <1>2, WorkerForCatalogStep
<1>3. ASSUME NEW s \in Clients, DispatchStep(s) PROVE DispatchInv'
  BY <1>3, RecordRouteStep, RaiseQueueDepthStep, SendStep DEF DispatchStep
<1>4. ASSUME NEW w \in Workers, WorkerStep(w) PROVE DispatchInv'
  BY <1>4, ReceiveStep, AnswerStep DEF WorkerStep
<1>5. QED
  BY <1>1, <1>2, <1>3, <1>4 DEF DispatchNext

\* The inductive invariant of the dispatcher holds in every reachable state: a
\* request is in one channel or in execution by one worker, and the counters count
\* them.
THEOREM DispatchInvariant == DispatchSpec => []DispatchInv
BY DispatchInitInv, DispatchInvIsInductive, PTL DEF DispatchSpec

\* The registry names started workers of its own catalogs, whatever evictions and
\* starts worker_for_catalog has done.
THEOREM RegistryIsConsistent == DispatchSpec => []DispatchTypeOK
<1>1. DispatchInv => DispatchTypeOK
  BY DEF DispatchInv, DispatchTypes
<1>2. QED
  BY <1>1, DispatchInvariant, PTL

\* queue_depth and active_requests are exact at every step of every session and
\* worker, and neither wraps below zero, for any number of sessions and any channel
\* capacity: the depth is raised before the request is sent and lowered after it
\* was received.
THEOREM CountersAlwaysExact == DispatchSpec => []CountersAreExact
<1>1. DispatchInv => CountersAreExact
  BY DEF DispatchInv
<1>2. QED
  BY <1>1, DispatchInvariant, PTL

\* The eviction at MAX_CATALOG_WORKERS takes no worker that has a message in its
\* channel or executes one, although is_idle reads only the two counters.
THEOREM EvictionSparesBusy == DispatchSpec => EvictionSparesBusyWorkers
<1>1. ASSUME DispatchInv, [DispatchNext]_dispatchVars, NEW c \in Catalogs,
             workers[c] # 0, workers'[c] # workers[c]
      PROVE  queue[workers[c]] = << >> /\ executing[workers[c]] = {}
  <2>1. workers[c] \in Workers /\ c \in Registered
    <3>1. workers[c] \in 0..started /\ started \in 0..MaxWorkers
      BY <1>1 DEF DispatchInv, DispatchTypes, DispatchTypeOK
    <3>2. QED
      BY <1>1, <3>1, DispatcherAssumption DEF Workers, Registered
  <2>2. workers' # workers
    BY <1>1
  <2>3. PICK s \in Clients, d \in Catalogs : WorkerForCatalog(s, d)
    BY <1>1, <2>2 DEF DispatchNext, DispatchStep, WorkerStep, RecordRoute, RaiseQueueDepth, Send,
       Receive, Answer, dispatchVars
  <2>4. \/ workers' = Kept
        \/ Kept[d] = 0 /\ workers' = [Kept EXCEPT ![d] = started + 1]
    BY <2>3 DEF WorkerForCatalog, Kept
  <2>5. Kept[c] = 0
    BY <1>1, <2>4 DEF Kept
  <2>6. IsIdle(workers[c])
    BY <1>1, <2>1, <2>5 DEF Kept, Retained
  <2>7. QED
    BY <1>1, <2>1, <2>6, IdleWorkerHasNoWork
<1>2. ASSUME DispatchInv, [DispatchNext]_dispatchVars
      PROVE  [\A c \in Catalogs :
                workers[c] # 0 /\ workers'[c] # workers[c] =>
                  queue[workers[c]] = << >> /\ executing[workers[c]] = {}]_dispatchVars
  BY <1>1, <1>2
<1>3. QED
  BY <1>2, DispatchInvariant, PTL DEF DispatchSpec, EvictionSparesBusyWorkers
=============================================================================
