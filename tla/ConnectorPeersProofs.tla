------------------------ MODULE ConnectorPeersProofs ------------------------
(***************************************************************************)
(* Proofs about the peers a connector client knows, for any nodes, hosts   *)
(* and ports.  The type invariant and RoutesAreKnown are inductive         *)
(* together: discovered peers are known ones, so whatever a merge or a     *)
(* replacement drops, the peer it leads to has an address.                 *)
(***************************************************************************)
EXTENDS ConnectorPeers, FiniteSetTheorems, TLAPS

PeersInv == PeersTypeOK /\ RoutesAreKnown

\* A client that knows nobody.
LEMMA PeersInitInv == PeersInit => PeersInv
BY PeersAssumption
   DEF PeersInit, PeersInv, PeersTypeOK, RoutesAreKnown, ActivePeerIsKnown, LivePeerIsKnown, Known

\* An announcement names at least one address.
LEMMA AnnouncedIsNotEmpty ==
  ASSUME NEW addrs \in Announced PROVE addrs \subseteq Addresses /\ addrs # {}
<1>1. addrs \in SUBSET Addresses /\ Cardinality(addrs) \in 1..2
  BY DEF Announced
<1>2. Cardinality({}) = 0
  BY FS_EmptySet
<1>3. addrs # {}
  BY <1>1, <1>2
<1>4. QED
  BY <1>1, <1>3

\* The incoming peer is taken for a public one with its port: no peer is forgotten.
LEMMA MergeIntoPublicStep ==
  ASSUME PeersInv, NEW p \in PeerIds, NEW addrs \in SUBSET Addresses, NEW told \in BOOLEAN,
         NEW q \in Known, MergeIntoPublic(p, addrs, told, q)
  PROVE  PeersInv'
<1>1. q \in PeerIds /\ peers[q] # {}
  BY DEF Known
<1>2. peers' \in [PeerIds -> SUBSET Addresses]
  BY <1>1 DEF PeersInv, PeersTypeOK, MergeIntoPublic
<1>3. Known \subseteq Known' /\ q \in Known'
  BY <1>1 DEF PeersInv, PeersTypeOK, MergeIntoPublic, Known
<1>4. discovered' \subseteq Known'
  BY <1>3 DEF PeersInv, PeersTypeOK, MergeIntoPublic
<1>5. active_peer' \in {active_peer, q} /\ live_peer' = live_peer
  BY DEF MergeIntoPublic, Renamed
<1>6. QED
  BY <1>1, <1>2, <1>3, <1>4, <1>5
     DEF PeersInv, PeersTypeOK, RoutesAreKnown, ActivePeerIsKnown, LivePeerIsKnown

\* The peer p takes the place of alias and of the stale ones.
Replaced(p, told, alias, stale) ==
  /\ peers' \in [PeerIds -> SUBSET Addresses]
  /\ peers'[p] # {}
  /\ \A q \in PeerIds : q # p =>
       peers'[q] = IF q \in alias \cup stale THEN {} ELSE peers[q]
  /\ discovered' = (discovered \ (alias \cup stale)) \cup IF told THEN {p} ELSE {}
  /\ active_peer' = ActiveAfter(p, told, alias, stale)
  /\ live_peer' = Renamed(live_peer, alias \cup stale, p)
  /\ merged' = FALSE

\* What the replaced peers are: known ones other than the new one.
LEMMA ReplaceEffect ==
  ASSUME PeersInv, NEW p \in PeerIds, NEW addrs \in SUBSET Addresses, addrs # {},
         NEW told \in BOOLEAN, NEW alias \in SUBSET Known, p \notin alias,
         Replace(p, addrs, told, alias)
  PROVE  \E stale \in SUBSET (Known \ (alias \cup {p})) : Replaced(p, told, alias, stale)
<1> DEFINE all == peers[p] \cup addrs \cup UNION {peers[q] : q \in alias}
           stale == {q \in Known \ (alias \cup {p}) : peers[q] \cap all # {}}
<1>1. /\ peers' = [q \in PeerIds |-> IF q = p THEN all
                                     ELSE IF q \in alias \cup stale THEN {} ELSE peers[q]]
      /\ discovered' = (discovered \ (alias \cup stale)) \cup IF told THEN {p} ELSE {}
      /\ active_peer' = ActiveAfter(p, told, alias, stale)
      /\ live_peer' = Renamed(live_peer, alias \cup stale, p)
      /\ merged' = FALSE
  BY DEF Replace, DiscoveredAfter, LiveAfter
<1>2. all \in SUBSET Addresses /\ all # {}
  BY DEF PeersInv, PeersTypeOK, Known
<1>3. stale \in SUBSET (Known \ (alias \cup {p}))
  OBVIOUS
<1> HIDE DEF all, stale
<1>4. /\ peers' \in [PeerIds -> SUBSET Addresses] /\ peers'[p] # {}
      /\ \A q \in PeerIds : q # p =>
           peers'[q] = IF q \in alias \cup stale THEN {} ELSE peers[q]
  BY <1>1, <1>2 DEF PeersInv, PeersTypeOK
<1>5. Replaced(p, told, alias, stale)
  BY <1>1, <1>4 DEF Replaced
<1>6. QED
  BY <1>3, <1>5

\* The route of a session cannot stay on a peer that was dropped: only a peer that a
\* server told about, or one of a client that knew nobody, replaces others.
LEMMA ReplaceStep ==
  ASSUME PeersInv, NEW p \in PeerIds, NEW addrs \in SUBSET Addresses, addrs # {},
         NEW told \in BOOLEAN, told \/ Known = {}, NEW alias \in SUBSET Known, p \notin alias,
         Replace(p, addrs, told, alias)
  PROVE  /\ PeersInv'
         /\ live_peer # NoPeer /\ live_peer = active_peer => live_peer' = active_peer'
<1>0. PICK stale \in SUBSET (Known \ (alias \cup {p})) : Replaced(p, told, alias, stale)
  BY ReplaceEffect
<1>1. /\ peers' \in [PeerIds -> SUBSET Addresses]
      /\ peers'[p] # {}
      /\ \A q \in PeerIds : q # p =>
           peers'[q] = IF q \in alias \cup stale THEN {} ELSE peers[q]
      /\ discovered' = (discovered \ (alias \cup stale)) \cup IF told THEN {p} ELSE {}
      /\ active_peer' = ActiveAfter(p, told, alias, stale)
      /\ live_peer' = Renamed(live_peer, alias \cup stale, p)
      /\ merged' = FALSE
  BY <1>0 DEF Replaced
<1>2. p \in Known' /\ Known \ (alias \cup stale) \subseteq Known'
  BY <1>1 DEF Known
<1>3. discovered' \subseteq Known'
  BY <1>1, <1>2 DEF PeersInv, PeersTypeOK
<1>4. /\ active_peer \in Known \cup {NoPeer} /\ live_peer \in Known \cup {NoPeer}
      /\ Known \subseteq PeerIds /\ NoPeer \notin Known
  BY PeersAssumption
     DEF PeersInv, RoutesAreKnown, ActivePeerIsKnown, LivePeerIsKnown, Known
<1>5. active_peer' \in (Known \ (alias \cup stale)) \cup {p, NoPeer}
  BY <1>1, <1>4 DEF ActiveAfter, Renamed
<1>6. live_peer' \in (Known \ (alias \cup stale)) \cup {p, NoPeer}
  BY <1>1, <1>4 DEF Renamed
<1>7. PeersInv'
  BY <1>1, <1>2, <1>3, <1>4, <1>5, <1>6
     DEF PeersInv, PeersTypeOK, RoutesAreKnown, ActivePeerIsKnown, LivePeerIsKnown
<1>8. ASSUME live_peer # NoPeer, live_peer = active_peer PROVE live_peer' = active_peer'
  BY <1>1, <1>4, <1>8 DEF ActiveAfter, Renamed
<1>9. QED
  BY <1>7, <1>8

\* upsert_peer, from an event of a server or at the start of the client.
LEMMA UpsertPeerStep ==
  ASSUME PeersInv, NEW p \in PeerIds, NEW addrs \in SUBSET Addresses, addrs # {},
         NEW told \in BOOLEAN, told \/ Known = {}, UpsertPeer(p, addrs, told)
  PROVE  /\ PeersInv'
         /\ live_peer # NoPeer /\ live_peer = active_peer /\ ~merged'
              => live_peer' = active_peer'
<1> DEFINE isDiscovered == told \/ p \in discovered
<1>1. isDiscovered \in BOOLEAN /\ (isDiscovered \/ Known = {})
  OBVIOUS
<1>2. \/ \E q \in PublicMergeTargets(p, addrs) : MergeIntoPublic(p, addrs, isDiscovered, q)
      \/ \E q \in BootstrapAliases(p, addrs) : Replace(p, addrs, isDiscovered, {q})
      \/ Replace(p, addrs, isDiscovered, {})
  BY DEF UpsertPeer
<1> HIDE DEF isDiscovered
<1>3. ASSUME NEW q \in PublicMergeTargets(p, addrs), MergeIntoPublic(p, addrs, isDiscovered, q)
      PROVE  PeersInv' /\ merged'
  <2>1. q \in Known
    BY DEF PublicMergeTargets
  <2>2. QED
    BY <1>1, <1>3, <2>1, MergeIntoPublicStep DEF MergeIntoPublic
<1>4. ASSUME NEW q \in BootstrapAliases(p, addrs), Replace(p, addrs, isDiscovered, {q})
      PROVE  /\ PeersInv'
             /\ live_peer # NoPeer /\ live_peer = active_peer => live_peer' = active_peer'
  <2>1. {q} \in SUBSET Known /\ p \notin {q}
    BY DEF BootstrapAliases
  <2>2. QED
    BY <1>1, <1>4, <2>1, ReplaceStep
<1>5. ASSUME Replace(p, addrs, isDiscovered, {})
      PROVE  /\ PeersInv'
             /\ live_peer # NoPeer /\ live_peer = active_peer => live_peer' = active_peer'
  BY <1>1, <1>5, ReplaceStep
<1>6. QED
  BY <1>2, <1>3, <1>4, <1>5

\* select_peer, connect_active_peer and the end of a connection change no record but
\* that of the bootstrap address.
LEMMA ConnectionSteps ==
  ASSUME PeersInv, (\E p \in PeerIds : SelectPeer(p)) \/ ConnectActivePeer \/ DropConnection
  PROVE  /\ PeersInv'
         /\ live_peer # NoPeer /\ live_peer = active_peer /\ live_peer' # NoPeer
              => live_peer' = active_peer'
<1> USE DEF PeersInv, PeersTypeOK, RoutesAreKnown, ActivePeerIsKnown, LivePeerIsKnown
<1>1. ASSUME NEW p \in PeerIds, SelectPeer(p)
      PROVE  /\ PeersInv'
             /\ live_peer # NoPeer /\ live_peer = active_peer /\ live_peer' # NoPeer
                  => live_peer' = active_peer'
  BY <1>1 DEF SelectPeer, Known
<1>2. ASSUME ConnectActivePeer
      PROVE  /\ PeersInv'
             /\ live_peer # NoPeer /\ live_peer = active_peer /\ live_peer' # NoPeer
                  => live_peer' = active_peer'
  <2> DEFINE peer == IF active_peer = NoPeer THEN BootstrapId ELSE active_peer
  <2>1. peer \in PeerIds /\ BootstrapAddress \in Addresses /\ BootstrapId \in PeerIds
    BY PeersAssumption DEF PeerIds
  <2>2. /\ peers' \in {peers, [peers EXCEPT ![BootstrapId] = {BootstrapAddress}]}
        /\ active_peer' = peer /\ peers'[peer] # {} /\ discovered' = discovered
        /\ live_peer' \in {peer, live_peer, NoPeer} /\ (live_peer = peer => live_peer' = peer)
    BY <1>2 DEF ConnectActivePeer
  <2>3. peers' \in [PeerIds -> SUBSET Addresses] /\ Known \subseteq Known'
    BY <2>1, <2>2 DEF Known
  <2>4. peer \in Known'
    BY <2>1, <2>2 DEF Known
  <2>5. QED
    BY <2>1, <2>2, <2>3, <2>4
<1>3. ASSUME DropConnection PROVE PeersInv' /\ live_peer' = NoPeer
  BY <1>3 DEF DropConnection, Known
<1>4. QED
  BY <1>1, <1>2, <1>3

\* Every step keeps the invariant, and the connection of the session unless the peer
\* was taken for another one.
LEMMA PeersStep ==
  ASSUME PeersInv, [PeersNext]_peerVars
  PROVE  /\ PeersInv'
         /\ live_peer # NoPeer /\ live_peer = active_peer /\ live_peer' # NoPeer /\ ~merged'
              => live_peer' = active_peer'
<1>1. CASE UNCHANGED peerVars
  BY <1>1 DEF PeersInv, PeersTypeOK, RoutesAreKnown, ActivePeerIsKnown, LivePeerIsKnown, Known,
     peerVars
<1>2. CASE KnowBootstrapPeer
  <2>1. /\ BootstrapId \in PeerIds /\ {BootstrapAddress} \in SUBSET Addresses
        /\ {BootstrapAddress} # {} /\ FALSE \in BOOLEAN
    BY PeersAssumption DEF PeerIds
  <2>2. QED
    BY <1>2, <2>1, UpsertPeerStep DEF KnowBootstrapPeer
<1>3. ASSUME NEW p \in Nodes, NEW addrs \in Announced, Discover(p, addrs)
      PROVE  /\ PeersInv'
             /\ live_peer # NoPeer /\ live_peer = active_peer /\ ~merged'
                  => live_peer' = active_peer'
  <2>1. p \in PeerIds /\ addrs \in SUBSET Addresses /\ addrs # {} /\ TRUE \in BOOLEAN
    BY AnnouncedIsNotEmpty DEF PeerIds
  <2>2. QED
    BY <1>3, <2>1, UpsertPeerStep DEF Discover
<1>4. QED
  BY <1>1, <1>2, <1>3, ConnectionSteps DEF PeersNext

-----------------------------------------------------------------------------
\* The address book keeps its type and the discovered peers are known ones.
THEOREM PeersInvariant == PeersSpec => []PeersInv
BY PeersInitInv, PeersStep, PTL DEF PeersSpec

\* However upsert_peer merges, renames and replaces peers, the session's route and
\* its connection lead to a peer the client has an address of.
THEOREM RoutesStayKnown == PeersSpec => []RoutesAreKnown
<1>1. PeersInv => RoutesAreKnown
  BY DEF PeersInv
<1>2. QED
  BY <1>1, PeersInvariant, PTL

\* rebind_live_connection_peer_id: learning more about the peer a session talks to
\* keeps the route and the connection together, except when the peer was taken for
\* another one with the same port.
THEOREM RenamingKeepsTheConnection == PeersSpec => RenamingKeepsConnection
<1>1. ASSUME PeersInv, [PeersNext]_peerVars
      PROVE  [live_peer # NoPeer /\ live_peer = active_peer /\ live_peer' # NoPeer /\ ~merged'
                => live_peer' = active_peer']_peerVars
  BY <1>1, PeersStep
<1>2. QED
  BY <1>1, PeersInvariant, PTL DEF PeersSpec, RenamingKeepsConnection
=============================================================================
