--------------------------- MODULE ConnectorPeers ---------------------------
(***************************************************************************)
(* The peers a connector client knows (ConnectorP2pTransport in peerlib/   *)
(* src/connector/transport.rs): the address book, the peer its session     *)
(* sticks to, and the one live connection.  A server is first known by the *)
(* address the client was given and later by its node id, so records are   *)
(* merged and renamed while a connection is in use.                        *)
(*                                                                         *)
(* The transport is used by one thread; every operation is one action.     *)
(***************************************************************************)
EXTENDS Naturals, FiniteSets

CONSTANTS
  Nodes,             \* node ids
  Hosts, LoopbackHosts,
  Ports,
  BootstrapAddress,  \* bootstrap_peers: the address the client was started with
  BootstrapId,       \* that address as a peer id
  NoPeer

Addresses == [host : Hosts, port : Ports]
PeerIds == Nodes \cup {BootstrapId}

ASSUME PeersAssumption ==
  /\ LoopbackHosts \subseteq Hosts
  /\ BootstrapAddress \in Addresses
  /\ BootstrapId \notin Nodes /\ NoPeer \notin PeerIds

VARIABLES
  peers,           \* addresses of every known peer, {} for an unknown one
  discovered,      \* peers a server told about
  active_peer,
  live_peer,            \* peer id of the live connection
  merged           \* the last step took a peer for another with the same port

peerVars == <<peers, discovered, active_peer, live_peer, merged>>

Known == {p \in PeerIds : peers[p] # {}}

PeersInit ==
  /\ peers = [p \in PeerIds |-> {}]
  /\ discovered = {}
  /\ active_peer = NoPeer
  /\ live_peer = NoPeer
  /\ merged = FALSE

-----------------------------------------------------------------------------
IsLoopback(a) == a.host \in LoopbackHosts
LoopbackOnly(addrs) == \A a \in addrs : IsLoopback(a)
SharePort(left, right) == \E a \in left, b \in right : a.port = b.port

\* A peer with a public address and a port of the incoming loopback-only peer.
PublicMergeTargets(p, addrs) ==
  IF ~LoopbackOnly(addrs) THEN {}
  ELSE {q \in Known \ {p} : SharePort(peers[q], addrs) /\ ~LoopbackOnly(peers[q])}

\* The record of a bootstrap address that turns out to be a peer with a public one.
BootstrapAliases(p, addrs) ==
  IF LoopbackOnly(addrs) THEN {}
  ELSE {q \in Known \ {p} :
          /\ SharePort(peers[q], addrs) /\ LoopbackOnly(peers[q])
          /\ q = BootstrapId \/ BootstrapAddress \in peers[q]}

Renamed(id, old, new) == IF id \in old THEN new ELSE id

\* The incoming addresses are added to the public peer; nothing else is recorded.
MergeIntoPublic(p, addrs, isDiscovered, q) ==
  /\ peers' = [peers EXCEPT ![q] = @ \cup addrs]
  /\ discovered' = IF isDiscovered THEN discovered \cup {q} ELSE discovered
  /\ active_peer' = Renamed(active_peer, {p}, q)
  /\ merged' = TRUE
  /\ UNCHANGED live_peer

DiscoveredAfter(p, isDiscovered, gone) ==
  (discovered \ gone) \cup IF isDiscovered THEN {p} ELSE {}

\* Mutant of ActiveAfter: a stale peer stays selected.
ActiveStays(p, isDiscovered, alias, stale) == Renamed(active_peer, alias, p)

\* The first discovered peer is the sticky one, and it replaces a stale one.
ActiveAfter(p, isDiscovered, alias, stale) ==
  LET renamed == Renamed(active_peer, alias, p)
  IN  IF isDiscovered /\ (renamed = NoPeer \/ renamed \in stale) THEN p ELSE renamed

\* rebind_live_connection_peer_id
LiveAfter(p, gone) == Renamed(live_peer, gone, p)

\* The alias and every other peer with one of the addresses become the peer p.
Replace(p, addrs, isDiscovered, alias) ==
  LET all == peers[p] \cup addrs \cup UNION {peers[q] : q \in alias}
      stale == {q \in Known \ (alias \cup {p}) : peers[q] \cap all # {}}
      gone == alias \cup stale
  IN
  /\ peers' = [q \in PeerIds |-> IF q = p THEN all ELSE IF q \in gone THEN {} ELSE peers[q]]
  /\ discovered' = DiscoveredAfter(p, isDiscovered, gone)
  /\ active_peer' = ActiveAfter(p, isDiscovered, alias, stale)
  /\ live_peer' = LiveAfter(p, gone)
  /\ merged' = FALSE

\* upsert_peer.  The maps are hash maps: the first match is any match.
UpsertPeer(p, addrs, told) ==
  LET isDiscovered == told \/ p \in discovered IN
  \/ \E q \in PublicMergeTargets(p, addrs) : MergeIntoPublic(p, addrs, isDiscovered, q)
  \/ /\ PublicMergeTargets(p, addrs) = {}
     /\ \/ \E q \in BootstrapAliases(p, addrs) : Replace(p, addrs, isDiscovered, {q})
        \/ BootstrapAliases(p, addrs) = {} /\ Replace(p, addrs, isDiscovered, {})

\* A PeerDiscovered event or a row of the answer to a peer discovery query.
Discover(p, addrs) == UpsertPeer(p, addrs, TRUE)

\* A client starts with the address it was given.
KnowBootstrapPeer == Known = {} /\ UpsertPeer(BootstrapId, {BootstrapAddress}, FALSE)

\* select_peer: another peer means another connection.
SelectPeer(p) ==
  /\ p \in Known
  /\ live_peer' = IF active_peer = p THEN live_peer ELSE NoPeer
  /\ active_peer' = p
  /\ merged' = FALSE
  /\ UNCHANGED <<peers, discovered>>

\* connect_active_peer: without a peer the bootstrap address is selected; then
\* ensure_live_connection connects unless the connection is the peer's.  If no
\* address answers the old connection stays; a refused token ends the new one.
ConnectActivePeer ==
  LET peer == IF active_peer = NoPeer THEN BootstrapId ELSE active_peer
      known == IF active_peer = NoPeer /\ peer \notin Known
               THEN [peers EXCEPT ![BootstrapId] = {BootstrapAddress}] ELSE peers
  IN
  /\ peers' = known
  /\ active_peer' = peer
  /\ known[peer] # {}
  /\ live_peer' \in {peer} \cup IF live_peer = peer THEN {} ELSE {live_peer, NoPeer}
  /\ merged' = FALSE
  /\ UNCHANGED discovered

\* A request that fails drops the connection; disconnect_active_peer does too.
DropConnection ==
  /\ live_peer # NoPeer
  /\ live_peer' = NoPeer
  /\ merged' = FALSE
  /\ UNCHANGED <<peers, discovered, active_peer>>

\* Addresses a server announces for a node: one or two.
Announced == {addrs \in SUBSET Addresses : Cardinality(addrs) \in 1..2}

PeersNext ==
  \/ KnowBootstrapPeer
  \/ \E p \in Nodes, addrs \in Announced : Discover(p, addrs)
  \/ \E p \in PeerIds : SelectPeer(p)
  \/ ConnectActivePeer
  \/ DropConnection

PeersSpec == PeersInit /\ [][PeersNext]_peerVars

-----------------------------------------------------------------------------
PeersTypeOK ==
  /\ peers \in [PeerIds -> SUBSET Addresses]
  /\ discovered \subseteq Known
  /\ active_peer \in PeerIds \cup {NoPeer}
  /\ live_peer \in PeerIds \cup {NoPeer}

\* However peers are merged, renamed and replaced, the peer the session is routed to
\* is one the client has an address of: a request never ends in "no connected peer
\* selected" once a peer was active.
ActivePeerIsKnown == active_peer # NoPeer => active_peer \in Known

\* The live connection belongs to a known peer.
LivePeerIsKnown == live_peer # NoPeer => live_peer \in Known

\* The session's route and its connection both lead to a peer with an address.
RoutesAreKnown == ActivePeerIsKnown /\ LivePeerIsKnown

\* Learning more about the peer a session talks to never makes the next request
\* open another connection, and so lose the session's transaction, except when the
\* peer was taken for another one with the same port.
RenamingKeepsConnection ==
  [][live_peer # NoPeer /\ live_peer = active_peer /\ live_peer' # NoPeer /\ ~merged'
       => live_peer' = active_peer']_peerVars
=============================================================================
