-------------------------- MODULE NetServiceProofs --------------------------
(***************************************************************************)
(* Proofs about NetService, for every set of connections, keys and         *)
(* listeners.  The safety properties are not inductive: each follows from  *)
(* IInv, which adds to the type invariant who owns a connection that is    *)
(* not started yet (OwnedOK), what the program counters of a connection    *)
(* say about its socket and key (PhaseOK), which connections may hold a    *)
(* slot (SlotOK), which ones must hold one (RegisteredOK), and what Stop   *)
(* finds in the list of connections (StopOK).  From it follow also the two *)
(* refinements: of PeerRegistry and of PeerExchange.                       *)
(***************************************************************************)
EXTENDS NetService, SequenceTheorems, TLAPS

\* A connection between accept or dial and trackPeer belongs to exactly one
\* of the goroutines that make connections.
OwnedOK ==
    /\ findPc \in {"check", "dial", "track"} => findNode \in NodeInfo
    /\ findPc = "track" => /\ findConn \in Conns
                           /\ recvPc[findConn] = "held"
                           /\ kind[findConn] = "known"
                           /\ peerPub[findConn] = findNode.key
    /\ seedPc = "track" => /\ seedConn \in Conns
                           /\ recvPc[seedConn] = "held"
                           /\ kind[seedConn] = "seed"
                           /\ seedsLeft > 0
    /\ \A l \in Listeners : acceptPc[l] = "track" =>
            /\ acceptConn[l] \in Conns
            /\ recvPc[acceptConn[l]] = "held"
            /\ kind[acceptConn[l]] = "inbound"
    /\ \A l, m \in Listeners :
            acceptPc[l] = "track" /\ acceptPc[m] = "track" /\ acceptConn[l] = acceptConn[m]
                => l = m

\* What the stage of a connection's goroutines says about the connection.
PhaseOK ==
    \A c \in Conns :
        /\ recvPc[c] = "none" <=> sock[c] = "none"
        /\ kind[c] = "none" => recvPc[c] = "none"
        /\ sendPc[c] # "none" => recvPc[c] \in {"relay", "closing", "done"}
        /\ recvPc[c] = "held" => sock[c] # "closed"
        /\ recvPc[c] = "closing" => sock[c] = "closed"
        /\ sendPc[c] = "closing" => sock[c] = "closed"
        /\ recvPc[c] = "done" => ctxDone \/ sock[c] = "closed"
        /\ recvPc[c] = "adopt" => (kind[c] # "known" /\ peerPub[c] \in Keys)
        /\ recvPc[c] = "verify" => peerPub[c] \in Keys
        /\ recvPc[c] = "relay" => peerPub[c] \in Keys \ {Self}
        /\ recvPc[c] = "announce" /\ kind[c] = "inbound" => peerPub[c] \in Keys \ {Self}

\* A connection that holds a slot has the slot's key, is past the step that
\* took the slot, and has a receiver that will give it back.
SlotOK ==
    \A k \in Keys, c \in Conns : connectedPeers[k] = c =>
        /\ peerPub[c] = k
        /\ recvPc[c] \notin {"none", "held", "adopt"}
        /\ recvPc[c] = "await" => kind[c] = "known"
        /\ recvPc[c] = "announce" => kind[c] # "seed"
        /\ recvPc[c] = "done" => ctxDone

\* The stages at which a connection has been through trackPeer with its key
\* or through adoptPeer.
Registers(c) ==
    \/ recvPc[c] \in {"verify", "relay"}
    \/ kind[c] = "inbound" /\ recvPc[c] = "announce"
    \/ kind[c] = "known" /\ recvPc[c] \in {"announce", "await"} /\ peerPub[c] \in Keys

RegisteredOK ==
    \A c \in Conns : Registers(c) /\ sock[c] # "closed" => connectedPeers[peerPub[c]] = c

\* Every started connection that is not closed is on the list that Stop
\* closes, and after Stop nothing on the list is open.
StopOK ==
    /\ stopRan => ctxDone
    /\ \A c \in connections : recvPc[c] \notin {"none", "held"}
    /\ \A c \in Conns : recvPc[c] \notin {"none", "held"} /\ sock[c] # "closed"
                            => c \in connections
    /\ stopRan => \A c \in connections : sock[c] = "closed"

IInv == TypeOK /\ OwnedOK /\ PhaseOK /\ SlotOK /\ RegisteredOK /\ StopOK

-----------------------------------------------------------------------------

\* Taking a node off the newPeers channel.
LEMMA TakeNewPeer ==
    ASSUME IInv, newPeers # <<>>
    PROVE  /\ Head(newPeers) \in NodeInfo
           /\ Tail(newPeers) \in Seq(AddInputs)
           /\ Len(Tail(newPeers)) <= QueueCap
BY NetAssumption DEF IInv, TypeOK

\* The inductive invariant is kept by startListeners and the goroutines of Run.
LEMMA RunKeeps ==
    ASSUME IInv, Run
    PROVE  IInv'
<1> USE DEF IInv, service, table, acceptors, finder, seeder, peer
<1>1. TypeOK'
    BY DEF Run, TypeOK
<1>2. OwnedOK'
    BY DEF Run, OwnedOK
<1>3. PhaseOK'
    BY DEF Run, PhaseOK
<1>4. SlotOK'
    BY DEF Run, SlotOK
<1>5. RegisteredOK'
    BY DEF Run, RegisteredOK, Registers
<1>6. StopOK'
    BY DEF Run, StopOK
<1> QED  BY <1>1, <1>2, <1>3, <1>4, <1>5, <1>6

\* The inductive invariant is kept by the cancelled context.
LEMMA CancelKeeps ==
    ASSUME IInv, Cancel
    PROVE  IInv'
<1> USE DEF IInv, service, table, acceptors, finder, seeder, peer
<1>1. TypeOK'
    BY DEF Cancel, TypeOK
<1>2. OwnedOK'
    BY DEF Cancel, OwnedOK
<1>3. PhaseOK'
    BY DEF Cancel, PhaseOK
<1>4. SlotOK'
    BY DEF Cancel, SlotOK
<1>5. RegisteredOK'
    BY DEF Cancel, RegisteredOK, Registers
<1>6. StopOK'
    BY DEF Cancel, StopOK
<1> QED  BY <1>1, <1>2, <1>3, <1>4, <1>5, <1>6

\* The inductive invariant is kept by Stop, which closes every listed connection.
LEMMA StopKeeps ==
    ASSUME IInv, Stop
    PROVE  IInv'
<1> USE DEF IInv, service, table, acceptors, finder, seeder, peer
<1>1. TypeOK'
    BY DEF Stop, TypeOK
<1>2. OwnedOK'
    BY DEF Stop, OwnedOK
<1>3. PhaseOK'
  <2> SUFFICES ASSUME NEW c \in Conns  PROVE PhaseOK!(c)'
    BY DEF PhaseOK
  <2> QED  BY DEF Stop, PhaseOK, StopOK
<1>4. SlotOK'
    BY DEF Stop, SlotOK
<1>5. RegisteredOK'
    BY DEF Stop, RegisteredOK, Registers
<1>6. StopOK'
    BY DEF Stop, TypeOK, StopOK
<1> QED  BY <1>1, <1>2, <1>3, <1>4, <1>5, <1>6

\* The inductive invariant is kept by the first announcement.
LEMMA ReceiveAnnounceKeeps ==
    ASSUME IInv, ReceiveAnnounce
    PROVE  IInv'
<1> USE DEF IInv, service, table, acceptors, finder, seeder, peer
<1>1. TypeOK'
    BY DEF ReceiveAnnounce, TypeOK
<1>2. OwnedOK'
    BY DEF ReceiveAnnounce, OwnedOK
<1>3. PhaseOK'
    BY DEF ReceiveAnnounce, PhaseOK
<1>4. SlotOK'
    BY DEF ReceiveAnnounce, SlotOK
<1>5. RegisteredOK'
    BY DEF ReceiveAnnounce, RegisteredOK, Registers
<1>6. StopOK'
    BY DEF ReceiveAnnounce, StopOK
<1> QED  BY <1>1, <1>2, <1>3, <1>4, <1>5, <1>6

\* The inductive invariant is kept by a node queued by the REST API.
LEMMA AddPeerKeeps ==
    ASSUME IInv, NEW n \in AddInputs, AddPeer(n)
    PROVE  IInv'
<1> USE NetAssumption DEF IInv, service, table, acceptors, finder, seeder, peer
<1>1. TypeOK'
    BY DEF AddPeer, TypeOK
<1>2. OwnedOK'
    BY DEF AddPeer, OwnedOK
<1>3. PhaseOK'
    BY DEF AddPeer, PhaseOK
<1>4. SlotOK'
    BY DEF AddPeer, SlotOK
<1>5. RegisteredOK'
    BY DEF AddPeer, RegisteredOK, Registers
<1>6. StopOK'
    BY DEF AddPeer, StopOK
<1> QED  BY <1>1, <1>2, <1>3, <1>4, <1>5, <1>6

\* The inductive invariant is kept by an accepted connection, owned by its listener until trackPeer.
LEMMA AcceptKeeps ==
    ASSUME IInv, NEW l \in Listeners, NEW c \in Conns, Accept(l, c)
    PROVE  IInv'
<1> USE DEF IInv, service, table, acceptors, finder, seeder, peer
<1>1. TypeOK'
    BY DEF Accept, NewPeer, TypeOK
<1>2. OwnedOK'
    BY DEF Accept, NewPeer, TypeOK, OwnedOK, PhaseOK
<1>3. PhaseOK'
    BY DEF Accept, NewPeer, TypeOK, PhaseOK
<1>4. SlotOK'
    BY DEF Accept, NewPeer, PhaseOK, SlotOK
<1>5. RegisteredOK'
    BY DEF Accept, NewPeer, PhaseOK, RegisteredOK, Registers
<1>6. StopOK'
    BY DEF Accept, NewPeer, PhaseOK, StopOK
<1> QED  BY <1>1, <1>2, <1>3, <1>4, <1>5, <1>6

\* The inductive invariant is kept by trackPeer of an inbound connection.
LEMMA TrackInboundKeeps ==
    ASSUME IInv, NEW l \in Listeners, TrackInbound(l)
    PROVE  IInv'
<1> USE NetAssumption DEF IInv, service, table, acceptors, finder, seeder, peer
<1>1. TypeOK'
    BY DEF TrackInbound, HandOver, TrackPeer, StartPeer, DropPeer, TypeOK, OwnedOK
<1>2. OwnedOK'
    BY DEF TrackInbound, HandOver, StartPeer, DropPeer, TypeOK, OwnedOK
<1>3. PhaseOK'
    BY DEF TrackInbound, HandOver, StartPeer, DropPeer, TypeOK, OwnedOK, PhaseOK
<1>4. SlotOK'
    BY DEF TrackInbound, HandOver, TrackPeer, StartPeer, DropPeer, TypeOK, OwnedOK, SlotOK
<1>5. RegisteredOK'
    BY DEF TrackInbound, HandOver, TrackPeer, StartPeer, DropPeer, TypeOK, OwnedOK,
       RegisteredOK, Registers
<1>6. StopOK'
  <2>1. CASE Trackable(NoPubKey)
    BY <2>1 DEF TrackInbound, HandOver, TrackPeer, StartPeer, Trackable, TypeOK, OwnedOK,
       StopOK
  <2>2. CASE ~Trackable(NoPubKey)
    BY <2>2 DEF TrackInbound, HandOver, TrackPeer, DropPeer, Trackable, HavePeer, TypeOK,
       StopOK
  <2> QED  BY <2>1, <2>2
<1> QED  BY <1>1, <1>2, <1>3, <1>4, <1>5, <1>6

\* The inductive invariant is kept by the end of an accept loop.
LEMMA AcceptFailsKeeps ==
    ASSUME IInv, NEW l \in Listeners, AcceptFails(l)
    PROVE  IInv'
<1> USE DEF IInv, service, table, acceptors, finder, seeder, peer
<1>1. TypeOK'
    BY DEF AcceptFails, TypeOK
<1>2. OwnedOK'
    BY DEF AcceptFails, OwnedOK
<1>3. PhaseOK'
    BY DEF AcceptFails, PhaseOK
<1>4. SlotOK'
    BY DEF AcceptFails, SlotOK
<1>5. RegisteredOK'
    BY DEF AcceptFails, RegisteredOK, Registers
<1>6. StopOK'
    BY DEF AcceptFails, StopOK
<1> QED  BY <1>1, <1>2, <1>3, <1>4, <1>5, <1>6

\* The inductive invariant is kept by choosePeer, first select.
LEMMA FindChooseKeeps ==
    ASSUME IInv, FindChoose
    PROVE  IInv'
<1> USE NetAssumption DEF IInv, service, table, acceptors, finder, seeder, peer
<1>1. TypeOK'
  <2>1. CASE UNCHANGED <<newPeers, findNode>>
    BY <2>1 DEF FindChoose, TypeOK
  <2>2. CASE newPeers # <<>> /\ findNode' = Head(newPeers) /\ newPeers' = Tail(newPeers)
    BY <2>2 DEF FindChoose, TypeOK
  <2> QED  BY <2>1, <2>2 DEF FindChoose
<1>2. OwnedOK'
    BY DEF FindChoose, TypeOK, OwnedOK
<1>3. PhaseOK'
    BY DEF FindChoose, PhaseOK
<1>4. SlotOK'
    BY DEF FindChoose, SlotOK
<1>5. RegisteredOK'
    BY DEF FindChoose, RegisteredOK, Registers
<1>6. StopOK'
    BY DEF FindChoose, StopOK
<1> QED  BY <1>1, <1>2, <1>3, <1>4, <1>5, <1>6

\* The inductive invariant is kept by ChooseNetNode.
LEMMA FindStoreKeeps ==
    ASSUME IInv, FindStore
    PROVE  IInv'
<1> USE NetAssumption DEF IInv, service, table, acceptors, finder, seeder, peer
<1>1. TypeOK'
    BY DEF FindStore, TypeOK
<1>2. OwnedOK'
    BY DEF FindStore, OwnedOK
<1>3. PhaseOK'
    BY DEF FindStore, PhaseOK
<1>4. SlotOK'
    BY DEF FindStore, SlotOK
<1>5. RegisteredOK'
    BY DEF FindStore, RegisteredOK, Registers
<1>6. StopOK'
    BY DEF FindStore, StopOK
<1> QED  BY <1>1, <1>2, <1>3, <1>4, <1>5, <1>6

\* The inductive invariant is kept by choosePeer, second select.
LEMMA FindWaitKeeps ==
    ASSUME IInv, FindWait
    PROVE  IInv'
<1> USE NetAssumption DEF IInv, service, table, acceptors, finder, seeder, peer
<1>1. TypeOK'
  <2>1. CASE UNCHANGED <<newPeers, findNode>>
    BY <2>1 DEF FindWait, TypeOK
  <2>2. CASE newPeers # <<>> /\ findNode' = Head(newPeers) /\ newPeers' = Tail(newPeers)
    BY TakeNewPeer DEF FindWait, TypeOK
  <2> QED  BY <2>1, <2>2 DEF FindWait
<1>2. OwnedOK'
    BY DEF FindWait, TypeOK, OwnedOK
<1>3. PhaseOK'
    BY DEF FindWait, PhaseOK
<1>4. SlotOK'
    BY DEF FindWait, SlotOK
<1>5. RegisteredOK'
    BY DEF FindWait, RegisteredOK, Registers
<1>6. StopOK'
    BY DEF FindWait, StopOK
<1> QED  BY <1>1, <1>2, <1>3, <1>4, <1>5, <1>6

\* The inductive invariant is kept by the tests of findPeers.
LEMMA FindCheckKeeps ==
    ASSUME IInv, FindCheck
    PROVE  IInv'
<1> USE DEF IInv, service, table, acceptors, finder, seeder, peer
<1>1. TypeOK'
    BY DEF FindCheck, FindIdle, TypeOK, OwnedOK, NodeInfo
<1>2. OwnedOK'
    BY DEF FindCheck, OwnedOK
<1>3. PhaseOK'
    BY DEF FindCheck, PhaseOK
<1>4. SlotOK'
    BY DEF FindCheck, SlotOK
<1>5. RegisteredOK'
    BY DEF FindCheck, RegisteredOK, Registers
<1>6. StopOK'
    BY DEF FindCheck, StopOK
<1> QED  BY <1>1, <1>2, <1>3, <1>4, <1>5, <1>6

\* The inductive invariant is kept by a dialled connection, owned by findPeers until trackPeer.
LEMMA FindDialKeeps ==
    ASSUME IInv, FindDial
    PROVE  IInv'
<1> USE DEF IInv, service, table, acceptors, finder, seeder, peer
<1>1. TypeOK'
  <2>1. CASE UNCHANGED peer
    BY <2>1 DEF FindDial, FindIdle, TypeOK
  <2>2. ASSUME NEW c \in Conns, NewPeer(c, "known", findNode.key), findConn' = c,
               findPc' = "track", UNCHANGED findNode
        PROVE  TypeOK'
    <3>1. findNode.key \in Keys \cup {NoPubKey}
      BY DEF FindDial, OwnedOK, NodeInfo
    <3> QED  BY <2>2, <3>1 DEF FindDial, NewPeer, TypeOK
  <2> QED  BY <2>1, <2>2 DEF FindDial
<1>2. OwnedOK'
    BY DEF FindDial, NewPeer, TypeOK, OwnedOK, PhaseOK
<1>3. PhaseOK'
    BY DEF FindDial, NewPeer, TypeOK, PhaseOK
<1>4. SlotOK'
    BY DEF FindDial, NewPeer, TypeOK, PhaseOK, SlotOK
<1>5. RegisteredOK'
    BY DEF FindDial, NewPeer, TypeOK, RegisteredOK, Registers
<1>6. StopOK'
    BY DEF FindDial, FindIdle, NewPeer, TypeOK, PhaseOK, StopOK
<1> QED  BY <1>1, <1>2, <1>3, <1>4, <1>5, <1>6

\* The inductive invariant is kept by trackPeer of a dialled node: its slot is taken before it is heard.
LEMMA FindTrackKeeps ==
    ASSUME IInv, FindTrack
    PROVE  IInv'
<1> USE NetAssumption DEF IInv, service, table, acceptors, finder, seeder, peer
<1>1. TypeOK'
  <2>1. /\ connections' \subseteq Conns
        /\ connectedPeers' \in [Keys -> Conns \cup {NoConn}]
    BY DEF FindTrack, HandOver, TrackPeer, TypeOK, OwnedOK
  <2>2. /\ recvPc' \in [Conns -> {"none", "held", "announce", "await", "adopt",
                                "verify", "relay", "closing", "done"}]
        /\ sock' \in [Conns -> {"none", "open", "remoteClosed", "dead", "closed"}]
        /\ UNCHANGED <<kind, peerPub, sendPc>>
    BY DEF FindTrack, HandOver, StartPeer, DropPeer, TypeOK
  <2> QED  BY <2>1, <2>2 DEF FindTrack, FindIdle, TypeOK
<1>2. OwnedOK'
    BY DEF FindTrack, HandOver, StartPeer, DropPeer, TypeOK, OwnedOK
<1>3. PhaseOK'
    BY DEF FindTrack, HandOver, StartPeer, DropPeer, TypeOK, OwnedOK, PhaseOK
<1>4. SlotOK'
    BY DEF FindTrack, HandOver, TrackPeer, StartPeer, DropPeer, Trackable, TypeOK, OwnedOK,
       SlotOK
<1>5. RegisteredOK'
    BY DEF FindTrack, HandOver, TrackPeer, StartPeer, DropPeer, Trackable, HavePeer, TypeOK,
       OwnedOK, PhaseOK, RegisteredOK, Registers
<1>6. StopOK'
    BY DEF FindTrack, FindIdle, HandOver, TrackPeer, StartPeer, DropPeer, Trackable,
       HavePeer, TypeOK, OwnedOK, PhaseOK, StopOK
<1> QED  BY <1>1, <1>2, <1>3, <1>4, <1>5, <1>6

\* The inductive invariant is kept by PeerLockTime.
LEMMA LockExpiresKeeps ==
    ASSUME IInv, NEW k \in Keys \cup {NoPubKey}, LockExpires(k)
    PROVE  IInv'
<1> USE DEF IInv, service, table, acceptors, finder, seeder, peer
<1>1. TypeOK'
    BY DEF LockExpires, TypeOK
<1>2. OwnedOK'
    BY DEF LockExpires, OwnedOK
<1>3. PhaseOK'
    BY DEF LockExpires, PhaseOK
<1>4. SlotOK'
    BY DEF LockExpires, SlotOK
<1>5. RegisteredOK'
    BY DEF LockExpires, RegisteredOK, Registers
<1>6. StopOK'
    BY DEF LockExpires, StopOK
<1> QED  BY <1>1, <1>2, <1>3, <1>4, <1>5, <1>6

\* The inductive invariant is kept by the DNS lookup.
LEMMA SeedLookupKeeps ==
    ASSUME IInv, SeedLookup
    PROVE  IInv'
<1> USE NetAssumption DEF IInv, service, table, acceptors, finder, seeder, peer
<1>1. TypeOK'
    BY DEF SeedLookup, TypeOK
<1>2. OwnedOK'
    BY DEF SeedLookup, OwnedOK
<1>3. PhaseOK'
    BY DEF SeedLookup, PhaseOK
<1>4. SlotOK'
    BY DEF SeedLookup, SlotOK
<1>5. RegisteredOK'
    BY DEF SeedLookup, RegisteredOK, Registers
<1>6. StopOK'
    BY DEF SeedLookup, StopOK
<1> QED  BY <1>1, <1>2, <1>3, <1>4, <1>5, <1>6

\* The inductive invariant is kept by a dialled seed, owned by seedFromDNS until trackPeer.
LEMMA SeedDialKeeps ==
    ASSUME IInv, NEW c \in Conns, SeedDial(c)
    PROVE  IInv'
<1> USE DEF IInv, service, table, acceptors, finder, seeder, peer
<1>1. TypeOK'
    BY DEF SeedDial, NewPeer, TypeOK
<1>2. OwnedOK'
    BY DEF SeedDial, NewPeer, TypeOK, OwnedOK, PhaseOK
<1>3. PhaseOK'
    BY DEF SeedDial, NewPeer, TypeOK, PhaseOK
<1>4. SlotOK'
    BY DEF SeedDial, NewPeer, PhaseOK, SlotOK
<1>5. RegisteredOK'
    BY DEF SeedDial, NewPeer, PhaseOK, RegisteredOK, Registers
<1>6. StopOK'
    BY DEF SeedDial, NewPeer, PhaseOK, StopOK
<1> QED  BY <1>1, <1>2, <1>3, <1>4, <1>5, <1>6

\* The inductive invariant is kept by trackPeer of a seed, whose key is not known.
LEMMA SeedTrackKeeps ==
    ASSUME IInv, SeedTrack
    PROVE  IInv'
<1> USE NetAssumption DEF IInv, service, table, acceptors, finder, seeder, peer
<1>1. TypeOK'
    BY DEF SeedTrack, HandOver, TrackPeer, StartPeer, DropPeer, TypeOK, OwnedOK
<1>2. OwnedOK'
    BY DEF SeedTrack, HandOver, StartPeer, DropPeer, TypeOK, OwnedOK
<1>3. PhaseOK'
    BY DEF SeedTrack, HandOver, StartPeer, DropPeer, TypeOK, OwnedOK, PhaseOK
<1>4. SlotOK'
    BY DEF SeedTrack, HandOver, TrackPeer, StartPeer, DropPeer, TypeOK, OwnedOK, SlotOK
<1>5. RegisteredOK'
    BY DEF SeedTrack, HandOver, TrackPeer, StartPeer, DropPeer, TypeOK, OwnedOK,
       RegisteredOK, Registers
<1>6. StopOK'
  <2>1. CASE Trackable(NoPubKey)
    BY <2>1 DEF SeedTrack, HandOver, TrackPeer, StartPeer, Trackable, TypeOK, OwnedOK,
       StopOK
  <2>2. CASE ~Trackable(NoPubKey)
    BY <2>2 DEF SeedTrack, HandOver, TrackPeer, DropPeer, TypeOK, OwnedOK, StopOK
  <2> QED  BY <2>1, <2>2
<1> QED  BY <1>1, <1>2, <1>3, <1>4, <1>5, <1>6

\* The inductive invariant is kept by the end of seedFromDNS.
LEMMA SeedExitsKeeps ==
    ASSUME IInv, SeedExits
    PROVE  IInv'
<1> USE DEF IInv, service, table, acceptors, finder, seeder, peer
<1>1. TypeOK'
    BY DEF SeedExits, TypeOK
<1>2. OwnedOK'
    BY DEF SeedExits, OwnedOK
<1>3. PhaseOK'
    BY DEF SeedExits, PhaseOK
<1>4. SlotOK'
    BY DEF SeedExits, SlotOK
<1>5. RegisteredOK'
    BY DEF SeedExits, RegisteredOK, Registers
<1>6. StopOK'
    BY DEF SeedExits, StopOK
<1> QED  BY <1>1, <1>2, <1>3, <1>4, <1>5, <1>6

\* The inductive invariant is kept by sendMyAddress at either end of the handshake.
LEMMA SendMyAddressKeeps ==
    ASSUME IInv, NEW c \in Conns, SendMyAddress(c)
    PROVE  IInv'
<1> USE NetAssumption DEF IInv, service, table, acceptors, finder, seeder, peer
<1>1. TypeOK'
    BY DEF SendMyAddress, StartSender, RecvGivesUp, TypeOK
<1>2. OwnedOK'
    BY DEF SendMyAddress, StartSender, RecvGivesUp, TypeOK, OwnedOK
<1>3. PhaseOK'
    BY DEF SendMyAddress, StartSender, RecvGivesUp, TypeOK, PhaseOK
<1>4. SlotOK'
    BY DEF SendMyAddress, StartSender, RecvGivesUp, TypeOK, PhaseOK, SlotOK
<1>5. RegisteredOK'
    BY DEF SendMyAddress, StartSender, RecvGivesUp, TypeOK, RegisteredOK, Registers
<1>6. StopOK'
    BY DEF SendMyAddress, StartSender, RecvGivesUp, TypeOK, StopOK
<1> QED  BY <1>1, <1>2, <1>3, <1>4, <1>5, <1>6

\* The inductive invariant is kept by the first message, which fixes peerPub.
LEMMA ReadFirstKeeps ==
    ASSUME IInv, NEW c \in Conns, NEW k \in Keys, ReadFirst(c, k)
    PROVE  IInv'
<1> USE DEF IInv, service, table, acceptors, finder, seeder, peer
<1>1. TypeOK'
  <2>1. /\ recvPc' \in [Conns -> {"none", "held", "announce", "await", "adopt",
                                "verify", "relay", "closing", "done"}]
        /\ sock' \in [Conns -> {"none", "open", "remoteClosed", "dead", "closed"}]
    BY DEF ReadFirst, RecvGivesUp, TypeOK
  <2> QED  BY <2>1 DEF ReadFirst, TypeOK
<1>2. OwnedOK'
    BY DEF ReadFirst, RecvGivesUp, TypeOK, OwnedOK
<1>3. PhaseOK'
    BY DEF ReadFirst, RecvGivesUp, TypeOK, PhaseOK
<1>4. SlotOK'
    BY DEF ReadFirst, RecvGivesUp, TypeOK, SlotOK
<1>5. RegisteredOK'
    BY DEF ReadFirst, RecvGivesUp, TypeOK, RegisteredOK, Registers
<1>6. StopOK'
    BY DEF ReadFirst, RecvGivesUp, TypeOK, PhaseOK, StopOK
<1> QED  BY <1>1, <1>2, <1>3, <1>4, <1>5, <1>6

\* The inductive invariant is kept by adoptPeer: the slot is taken once the key is known.
LEMMA AdoptKeeps ==
    ASSUME IInv, NEW c \in Conns, Adopt(c)
    PROVE  IInv'
<1> USE NetAssumption DEF IInv, service, table, acceptors, finder, seeder, peer
<1>1. TypeOK'
  <2>1. CASE HavePeer(peerPub[c])
    BY <2>1 DEF Adopt, RecvGivesUp, TypeOK
  <2>2. CASE ~HavePeer(peerPub[c])
    BY <2>2 DEF Adopt, AdoptPeer, TypeOK
  <2> QED  BY <2>1, <2>2
<1>2. OwnedOK'
    BY DEF Adopt, RecvGivesUp, TypeOK, OwnedOK
<1>3. PhaseOK'
    BY DEF Adopt, RecvGivesUp, TypeOK, PhaseOK
<1>4. SlotOK'
    BY DEF Adopt, AdoptPeer, RecvGivesUp, TypeOK, PhaseOK, SlotOK
<1>5. RegisteredOK'
    BY DEF Adopt, AdoptPeer, HavePeer, RecvGivesUp, TypeOK, PhaseOK, RegisteredOK, Registers
<1>6. StopOK'
  <2>1. CASE HavePeer(peerPub[c])
    BY DEF Adopt, RecvGivesUp, TypeOK, StopOK
  <2>2. CASE ~HavePeer(peerPub[c])
    BY <2>2 DEF Adopt, TypeOK, StopOK
  <2> QED  BY <2>1, <2>2
<1> QED  BY <1>1, <1>2, <1>3, <1>4, <1>5, <1>6

\* The inductive invariant is kept by what is checked after the peer is registered.
LEMMA VerifyKeeps ==
    ASSUME IInv, NEW c \in Conns, Verify(c)
    PROVE  IInv'
<1> USE NetAssumption DEF IInv, service, table, acceptors, finder, seeder, peer
<1>1. TypeOK'
    BY DEF Verify, StartSender, RecvGivesUp, TypeOK
<1>2. OwnedOK'
    BY DEF Verify, StartSender, RecvGivesUp, TypeOK, OwnedOK
<1>3. PhaseOK'
    BY DEF Verify, StartSender, RecvGivesUp, TypeOK, PhaseOK
<1>4. SlotOK'
    BY DEF Verify, StartSender, RecvGivesUp, TypeOK, SlotOK
<1>5. RegisteredOK'
    BY DEF Verify, StartSender, RecvGivesUp, TypeOK, RegisteredOK, Registers
<1>6. StopOK'
    BY DEF Verify, StartSender, RecvGivesUp, TypeOK, PhaseOK, StopOK
<1> QED  BY <1>1, <1>2, <1>3, <1>4, <1>5, <1>6

\* The inductive invariant is kept by a failing read.
LEMMA ReadFailsKeeps ==
    ASSUME IInv, NEW c \in Conns, ReadFails(c)
    PROVE  IInv'
<1> USE DEF IInv, service, table, acceptors, finder, seeder, peer
<1>1. TypeOK'
    BY DEF ReadFails, RecvGivesUp, TypeOK
<1>2. OwnedOK'
    BY DEF ReadFails, RecvGivesUp, OwnedOK
<1>3. PhaseOK'
    BY DEF ReadFails, RecvGivesUp, TypeOK, PhaseOK
<1>4. SlotOK'
    BY DEF ReadFails, RecvGivesUp, SlotOK
<1>5. RegisteredOK'
    BY DEF ReadFails, RecvGivesUp, RegisteredOK, Registers
<1>6. StopOK'
    BY DEF ReadFails, RecvGivesUp, StopOK
<1> QED  BY <1>1, <1>2, <1>3, <1>4, <1>5, <1>6

\* The inductive invariant is kept by the end of the relay loop on shutdown.
LEMMA RelayStopsKeeps ==
    ASSUME IInv, NEW c \in Conns, RelayStops(c)
    PROVE  IInv'
<1> USE DEF IInv, service, table, acceptors, finder, seeder, peer
<1>1. TypeOK'
    BY DEF RelayStops, TypeOK
<1>2. OwnedOK'
    BY DEF RelayStops, OwnedOK
<1>3. PhaseOK'
    BY DEF RelayStops, PhaseOK
<1>4. SlotOK'
    BY DEF RelayStops, SlotOK
<1>5. RegisteredOK'
    BY DEF RelayStops, RegisteredOK, Registers
<1>6. StopOK'
    BY DEF RelayStops, StopOK
<1> QED  BY <1>1, <1>2, <1>3, <1>4, <1>5, <1>6

\* The inductive invariant is kept by closePeer by the receiver.
LEMMA RecvCloseKeeps ==
    ASSUME IInv, NEW c \in Conns, RecvClose(c)
    PROVE  IInv'
<1> USE NetAssumption DEF IInv, service, table, acceptors, finder, seeder, peer
<1>1. TypeOK'
    BY DEF RecvClose, ClosePeer, TypeOK
<1>2. OwnedOK'
    BY DEF RecvClose, OwnedOK
<1>3. PhaseOK'
    BY DEF RecvClose, PhaseOK
<1>4. SlotOK'
    BY DEF RecvClose, ClosePeer, SlotOK
<1>5. RegisteredOK'
    BY DEF RecvClose, ClosePeer, PhaseOK, RegisteredOK, Registers
<1>6. StopOK'
    BY DEF RecvClose, ClosePeer, PhaseOK, StopOK
<1> QED  BY <1>1, <1>2, <1>3, <1>4, <1>5, <1>6

\* The inductive invariant is kept by a failing write.
LEMMA SendFailsKeeps ==
    ASSUME IInv, NEW c \in Conns, SendFails(c)
    PROVE  IInv'
<1> USE DEF IInv, service, table, acceptors, finder, seeder, peer
<1>1. TypeOK'
    BY DEF SendFails, TypeOK
<1>2. OwnedOK'
    BY DEF SendFails, OwnedOK
<1>3. PhaseOK'
    BY DEF SendFails, TypeOK, PhaseOK
<1>4. SlotOK'
    BY DEF SendFails, SlotOK
<1>5. RegisteredOK'
    BY DEF SendFails, RegisteredOK, Registers
<1>6. StopOK'
    BY DEF SendFails, StopOK
<1> QED  BY <1>1, <1>2, <1>3, <1>4, <1>5, <1>6

\* The inductive invariant is kept by the end of sendToPeer on shutdown.
LEMMA SendStopsKeeps ==
    ASSUME IInv, NEW c \in Conns, SendStops(c)
    PROVE  IInv'
<1> USE DEF IInv, service, table, acceptors, finder, seeder, peer
<1>1. TypeOK'
  <2> QED  BY DEF SendStops, TypeOK
<1>2. OwnedOK'
    BY DEF SendStops, OwnedOK
<1>3. PhaseOK'
    BY DEF SendStops, TypeOK, PhaseOK
<1>4. SlotOK'
    BY DEF SendStops, SlotOK
<1>5. RegisteredOK'
    BY DEF SendStops, TypeOK, RegisteredOK, Registers
<1>6. StopOK'
    BY DEF SendStops, TypeOK, StopOK
<1> QED  BY <1>1, <1>2, <1>3, <1>4, <1>5, <1>6

\* The inductive invariant is kept by closePeer by the sender.
LEMMA SendCloseKeeps ==
    ASSUME IInv, NEW c \in Conns, SendClose(c)
    PROVE  IInv'
<1> USE NetAssumption DEF IInv, service, table, acceptors, finder, seeder, peer
<1>1. TypeOK'
    BY DEF SendClose, ClosePeer, TypeOK
<1>2. OwnedOK'
    BY DEF SendClose, OwnedOK
<1>3. PhaseOK'
    BY DEF SendClose, PhaseOK
<1>4. SlotOK'
    BY DEF SendClose, ClosePeer, SlotOK
<1>5. RegisteredOK'
    BY DEF SendClose, ClosePeer, PhaseOK, RegisteredOK, Registers
<1>6. StopOK'
    BY DEF SendClose, ClosePeer, PhaseOK, StopOK
<1> QED  BY <1>1, <1>2, <1>3, <1>4, <1>5, <1>6

\* The inductive invariant is kept by the remote end of a socket.
LEMMA RemoteEndsKeeps ==
    ASSUME IInv, NEW c \in Conns, NEW how \in {"remoteClosed", "dead"}, RemoteEnds(c, how)
    PROVE  IInv'
<1> USE DEF IInv, service, table, acceptors, finder, seeder, peer
<1>1. TypeOK'
    BY DEF RemoteEnds, TypeOK
<1>2. OwnedOK'
    BY DEF RemoteEnds, OwnedOK
<1>3. PhaseOK'
    BY DEF RemoteEnds, PhaseOK
<1>4. SlotOK'
    BY DEF RemoteEnds, SlotOK
<1>5. RegisteredOK'
    BY DEF RemoteEnds, RegisteredOK, Registers
<1>6. StopOK'
    BY DEF RemoteEnds, StopOK
<1> QED  BY <1>1, <1>2, <1>3, <1>4, <1>5, <1>6

\* The actions that write the slots of connectedPeers.
LEMMA SlotActions ==
    ASSUME [Next]_vars
    PROVE  \/ UNCHANGED connectedPeers
           \/ FindTrack
           \/ SeedTrack
           \/ \E l \in Listeners : TrackInbound(l)
           \/ \E c \in Conns : Adopt(c) \/ RecvClose(c) \/ SendClose(c)
<1> USE DEF vars, table
<1>1. CASE Run \/ Stop  BY <1>1 DEF Run, Stop
<1>2. CASE Finder  BY <1>2 DEF Finder, FindChoose, FindStore, FindWait, FindCheck, FindDial
<1>3. CASE Seeder  BY <1>3 DEF Seeder, SeedLookup, SeedDial, SeedExits
<1>4. CASE Environment
  BY <1>4 DEF Environment, Cancel, ReceiveAnnounce, AddPeer, LockExpires, RemoteEnds
<1>5. ASSUME NEW l \in Listeners, Acceptor(l)
      PROVE  UNCHANGED connectedPeers \/ TrackInbound(l)
  BY <1>5 DEF Acceptor, Accept, AcceptFails
<1>6. ASSUME NEW c \in Conns, Receiver(c) \/ Sender(c)
      PROVE  UNCHANGED connectedPeers \/ Adopt(c) \/ RecvClose(c) \/ SendClose(c)
  BY <1>6 DEF Receiver, Sender, SendMyAddress, ReadFirst, Verify, ReadFails, RelayStops,
     SendFails, SendStops
<1> QED  BY <1>1, <1>2, <1>3, <1>4, <1>5, <1>6 DEF Next

\* Every step keeps the inductive invariant.
LEMMA StepKeeps == IInv /\ [Next]_vars => IInv'
<1> SUFFICES ASSUME IInv, [Next]_vars  PROVE IInv'
  OBVIOUS
<1>1. CASE Run  BY <1>1, RunKeeps
<1>2. CASE Stop  BY <1>2, StopKeeps
<1>3. CASE Finder
  BY <1>3, FindChooseKeeps, FindStoreKeeps, FindWaitKeeps, FindCheckKeeps, FindDialKeeps,
     FindTrackKeeps DEF Finder
<1>4. CASE Seeder
  BY <1>4, SeedLookupKeeps, SeedDialKeeps, SeedTrackKeeps, SeedExitsKeeps DEF Seeder
<1>5. CASE Environment
  BY <1>5, CancelKeeps, ReceiveAnnounceKeeps, AddPeerKeeps, LockExpiresKeeps,
     RemoteEndsKeeps DEF Environment
<1>6. ASSUME NEW l \in Listeners, Acceptor(l)  PROVE IInv'
  BY <1>6, AcceptKeeps, TrackInboundKeeps, AcceptFailsKeeps DEF Acceptor
<1>7. ASSUME NEW c \in Conns, Receiver(c)  PROVE IInv'
  BY <1>7, SendMyAddressKeeps, ReadFirstKeeps, AdoptKeeps, VerifyKeeps, ReadFailsKeeps,
     RelayStopsKeeps, RecvCloseKeeps DEF Receiver
<1>8. ASSUME NEW c \in Conns, Sender(c)  PROVE IInv'
  BY <1>8, SendFailsKeeps, SendStopsKeeps, SendCloseKeeps DEF Sender
<1>9. CASE UNCHANGED vars
  BY <1>9 DEF IInv, TypeOK, OwnedOK, PhaseOK, SlotOK, RegisteredOK, Registers, StopOK, vars,
     service, table, acceptors, finder, seeder, peer
<1> QED  BY <1>1, <1>2, <1>3, <1>4, <1>5, <1>6, <1>7, <1>8, <1>9 DEF Next

\* Every reachable state of NetService satisfies the inductive invariant.
THEOREM Invariance == Spec => []IInv
<1>1. Init => IInv
  <2> SUFFICES ASSUME Init  PROVE IInv
    OBVIOUS
  <2> USE NetAssumption DEF Init
  <2>1. TypeOK
    <3>1. newPeers \in Seq(AddInputs) /\ Len(newPeers) = 0
      OBVIOUS
    <3>2. /\ sock \in [Conns -> {"none", "open", "remoteClosed", "dead", "closed"}]
          /\ kind \in [Conns -> {"none", "known", "seed", "inbound"}]
          /\ peerPub \in [Conns -> Keys \cup {NoPubKey}]
          /\ recvPc \in [Conns -> {"none", "held", "announce", "await", "adopt",
                                   "verify", "relay", "closing", "done"}]
          /\ sendPc \in [Conns -> {"none", "run", "closing", "done"}]
      OBVIOUS
    <3>3. /\ acceptPc \in [Listeners -> {"off", "accept", "track", "exited"}]
          /\ acceptConn \in [Listeners -> Conns \cup {NoConn}]
          /\ connectedPeers \in [Keys -> Conns \cup {NoConn}]
      OBVIOUS
    <3> HIDE DEF Init
    <3>4. /\ ctxDone \in BOOLEAN
          /\ stopRan \in BOOLEAN
          /\ haveAnnounce \in BOOLEAN
      BY DEF Init
    <3>5. Len(newPeers) <= QueueCap /\ seedsLeft \in 0..SeedCount
      BY DEF Init
    <3>6. /\ listening = {} /\ connections = {} /\ lockedPeers = {}
          /\ findPc = "off" /\ findNode = NoNode /\ findConn = NoConn
          /\ seedPc = "off" /\ seedConn = NoConn
      BY DEF Init
    <3> QED  BY <3>1, <3>2, <3>3, <3>4, <3>5, <3>6 DEF TypeOK
  <2>2. OwnedOK  BY DEF OwnedOK
  <2>3. PhaseOK  BY DEF PhaseOK
  <2>4. SlotOK  BY DEF SlotOK
  <2>5. RegisteredOK  BY DEF RegisteredOK, Registers
  <2>6. StopOK  BY DEF StopOK
  <2> QED  BY <2>1, <2>2, <2>3, <2>4, <2>5, <2>6 DEF IInv
<1> QED  BY <1>1, StepKeeps, PTL DEF Spec

-----------------------------------------------------------------------------

\* The variables keep their types: no goroutine reaches a stage, and the table
\* and the newPeers channel reach no content, outside those TypeOK lists.
THEOREM TypeCorrect == Spec => []TypeOK
<1>1. IInv => TypeOK  BY DEF IInv
<1> QED  BY <1>1, Invariance, PTL

\* A peer whose messages are relayed holds the slot of its key (trackPeer,
\* adoptPeer, closePeer under every interleaving).
THEOREM RelayingRegistered == Spec => []RelayingIsRegistered
<1>1. IInv => RelayingIsRegistered
  BY DEF IInv, PhaseOK, RegisteredOK, Registers, RelayingIsRegistered, Relaying
<1> QED  BY <1>1, Invariance, PTL

\* Two connections to one node are never both served ("already connected").
THEOREM OnePeer == Spec => []OnePeerPerKey
<1>1. RelayingIsRegistered => OnePeerPerKey
  BY DEF RelayingIsRegistered, OnePeerPerKey
<1> QED  BY <1>1, RelayingRegistered, PTL

\* No slot of connectedPeers is leaked while the service runs.
THEOREM SlotsHeld == Spec => []SlotsAreHeld
<1>1. IInv => SlotsAreHeld
  <2> SUFFICES ASSUME IInv, NEW k \in Keys, connectedPeers[k] # NoConn
               PROVE  LET c == connectedPeers[k]
                      IN /\ peerPub[c] = k
                         /\ \/ recvPc[c] \in {"announce", "await", "verify", "relay", "closing"}
                            \/ ctxDone /\ recvPc[c] = "done"
    BY DEF SlotsAreHeld
  <2> QED  BY DEF IInv, TypeOK, SlotOK
<1> QED  BY <1>1, Invariance, PTL

\* The node never serves itself: both handshakes compare the peer's key with
\* nodeKey.Pub before the sender starts.
THEOREM NoSelfPeer == Spec => []NotConnectedToSelf
<1>1. IInv => NotConnectedToSelf
  BY DEF IInv, PhaseOK, NotConnectedToSelf, Relaying
<1> QED  BY <1>1, Invariance, PTL

\* A taken slot never changes hands and is freed only after its connection's
\* socket was closed (closePeer compares p == peer).
THEOREM SlotsFreed == Spec => SlotsFreedByOwner
<1>1. IInv /\ [Next]_vars => SlotStep
  <2> SUFFICES ASSUME IInv, [Next]_vars, NEW k \in Keys, connectedPeers[k] # NoConn
               PROVE  \/ connectedPeers'[k] = connectedPeers[k]
                      \/ connectedPeers'[k] = NoConn /\ sock[connectedPeers[k]] = "closed"
    BY DEF SlotStep
  <2> USE DEF IInv, TypeOK
  <2>1. ASSUME NEW c \in Conns, NEW j \in Keys \cup {NoPubKey}, TrackPeer(c, j)
        PROVE  connectedPeers'[k] = connectedPeers[k]
    BY <2>1 DEF TrackPeer, HavePeer, table
  <2>2. ASSUME NEW c \in Conns, sock[c] = "closed", ClosePeer(c)
        PROVE  \/ connectedPeers'[k] = connectedPeers[k]
               \/ connectedPeers'[k] = NoConn /\ sock[connectedPeers[k]] = "closed"
    BY <2>2 DEF ClosePeer
  <2>3. ASSUME NEW c \in Conns, Adopt(c)
        PROVE  connectedPeers'[k] = connectedPeers[k]
    BY <2>3 DEF Adopt, AdoptPeer, HavePeer, table
  <2>4. CASE FindTrack
    BY <2>1, <2>4 DEF FindTrack, HandOver, OwnedOK
  <2>5. CASE SeedTrack
    BY <2>1, <2>5 DEF SeedTrack, HandOver, OwnedOK
  <2>6. ASSUME NEW l \in Listeners, TrackInbound(l)
        PROVE  connectedPeers'[k] = connectedPeers[k]
    BY <2>1, <2>6 DEF TrackInbound, HandOver, OwnedOK
  <2>7. ASSUME NEW c \in Conns, RecvClose(c) \/ SendClose(c)
        PROVE  \/ connectedPeers'[k] = connectedPeers[k]
               \/ connectedPeers'[k] = NoConn /\ sock[connectedPeers[k]] = "closed"
    BY <2>2, <2>7 DEF RecvClose, SendClose, PhaseOK
  <2>8. \/ UNCHANGED connectedPeers
        \/ FindTrack
        \/ SeedTrack
        \/ \E l \in Listeners : TrackInbound(l)
        \/ \E c \in Conns : Adopt(c) \/ RecvClose(c) \/ SendClose(c)
    BY SlotActions
  <2> QED  BY <2>3, <2>4, <2>5, <2>6, <2>7, <2>8
<1> QED  BY <1>1, Invariance, PTL DEF Spec, SlotsFreedByOwner

\* peer.peerPub does not change once sendToPeer has started (peer.go:294).
THEOREM PeerPubFinal == Spec => PeerPubIsFinal
<1>1. IInv /\ [Next]_vars => PeerPubStep
  <2> SUFFICES ASSUME IInv, [Next]_vars, NEW c \in Conns, sendPc[c] # "none"
               PROVE  peerPub'[c] = peerPub[c]
    BY DEF PeerPubStep
  <2>1. sock[c] # "none" /\ recvPc[c] # "await"
    BY DEF IInv, PhaseOK
  <2>2. ASSUME NEW d \in Conns, NEW how, NEW k, NewPeer(d, how, k)
        PROVE  peerPub'[c] = peerPub[c]
    BY <2>1, <2>2 DEF NewPeer
  <2>3. ASSUME NEW d, HandOver(d, NoPubKey) \/ HandOver(d, findNode.key)
        PROVE  peerPub'[c] = peerPub[c]
    BY <2>3 DEF HandOver, StartPeer, DropPeer
  <2> USE DEF peer
  <2>4. CASE Run \/ Stop  BY <2>4 DEF Run, Stop
  <2>5. CASE FindDial  BY <2>2, <2>5 DEF FindDial
  <2>6. CASE Finder
    BY <2>3, <2>5, <2>6 DEF Finder, FindChoose, FindStore, FindWait, FindCheck, FindTrack
  <2>7. CASE Seeder
    BY <2>2, <2>3, <2>7 DEF Seeder, SeedLookup, SeedDial, SeedTrack, SeedExits
  <2>8. CASE Environment
    BY <2>8 DEF Environment, Cancel, ReceiveAnnounce, AddPeer, LockExpires, RemoteEnds
  <2>9. ASSUME NEW l \in Listeners, Acceptor(l)
        PROVE  peerPub'[c] = peerPub[c]
    BY <2>2, <2>3, <2>9 DEF Acceptor, Accept, TrackInbound, AcceptFails
  <2>10. ASSUME NEW d \in Conns, Receiver(d) \/ Sender(d)
         PROVE  peerPub'[c] = peerPub[c]
    <3>1. CASE \E k \in Keys : ReadFirst(d, k)
      BY <2>1, <3>1 DEF ReadFirst
    <3> QED
      BY <2>10, <3>1 DEF Receiver, Sender, SendMyAddress, StartSender, Adopt, Verify,
         ReadFails, RelayStops, RecvClose, SendFails, SendStops, SendClose
  <2>11. CASE UNCHANGED vars  BY <2>11 DEF vars
  <2> QED  BY <2>4, <2>6, <2>7, <2>8, <2>9, <2>10, <2>11 DEF Next
<1> QED  BY <1>1, Invariance, PTL DEF Spec, PeerPubIsFinal

\* No connection escapes Stop between accept or dial and trackPeer.
THEOREM StopCloses == Spec => []StopClosesAll
<1>1. IInv => StopClosesAll
  BY DEF IInv, PhaseOK, StopOK, StopClosesAll
<1> QED  BY <1>1, Invariance, PTL

-----------------------------------------------------------------------------
(* NetService implements PeerRegistry.                                     *)

Live == {c \in Conns : sock[c] \notin {"none", "closed"}}

\* Opening a connection is an Open of the registry.
LEMMA NewPeerOpens ==
    ASSUME IInv, NEW c \in Conns, NEW how, NEW k, NewPeer(c, how, k), UNCHANGED connectedPeers
    PROVE  Registry!Open(c)
<1> USE DEF IInv, TypeOK
<1>1. c \notin Live /\ Live' = Live \cup {c}
  BY DEF NewPeer, Live
<1>2. \A j \in Keys : connectedPeers[j] # c
  BY DEF NewPeer, SlotOK, PhaseOK
<1> QED  BY <1>1, <1>2 DEF Live, Registry!Open, Registry!HoldsNothing

\* Closing a set of sockets is a Close of the registry.
LEMMA SocketsClose ==
    ASSUME NEW cs \in SUBSET Conns, UNCHANGED connectedPeers,
           \A c \in Conns : sock'[c] = IF c \in cs THEN "closed" ELSE sock[c]
    PROVE  Registry!Close(cs)
<1> QED  BY DEF Registry!Close

\* A receiver that gives up closes its socket: a Close of the registry.
LEMMA GivingUpCloses ==
    ASSUME IInv, NEW c \in Conns, RecvGivesUp(c), UNCHANGED connectedPeers
    PROVE  Registry!Close({c})
<1>1. \A d \in Conns : sock'[d] = IF d \in {c} THEN "closed" ELSE sock[d]
  BY DEF RecvGivesUp, IInv, TypeOK
<1> QED  BY <1>1, SocketsClose

\* A step that neither opens nor closes a socket, nor writes a slot, is a
\* stutter of the registry.
LEMMA NothingHappens ==
    ASSUME UNCHANGED connectedPeers,
           \A c \in Conns : sock'[c] \in {"none", "closed"} <=> sock[c] \in {"none", "closed"}
    PROVE  UNCHANGED Registry!vars
<1> QED  BY DEF Registry!vars

\* trackPeer takes a slot, or leaves the table alone and its caller closes
\* the connection.
LEMMA HandOverClaims ==
    ASSUME IInv, NEW c \in Conns, NEW k \in Keys \cup {NoPubKey}, HandOver(c, k),
           recvPc[c] = "held"
    PROVE  [Registry!Next]_(Registry!vars)
<1> USE DEF IInv, TypeOK, HandOver, TrackPeer, HavePeer, table
<1>1. CASE Trackable(k) /\ k \in Keys
  <2>1. \A j \in Keys : connectedPeers[j] # c
    BY DEF SlotOK
  <2>2. connectedPeers' = [connectedPeers EXCEPT ![k] = c] /\ UNCHANGED sock
    BY <1>1 DEF Trackable, StartPeer
  <2>3. connectedPeers[k] = NoConn
    BY <1>1 DEF Trackable
  <2>4. Registry!Claim(c, k)
    BY <2>1, <2>2, <2>3 DEF Registry!Claim, Registry!HoldsNothing
  <2> QED  BY <1>1, <2>4 DEF Registry!Next
<1>2. CASE Trackable(k) /\ k \notin Keys
  BY <1>2, NothingHappens DEF StartPeer
<1>3. CASE ~Trackable(k)
  <2>1. UNCHANGED connectedPeers
    BY <1>3 DEF Trackable
  <2>2. \A d \in Conns : sock'[d] = IF d \in {c} THEN "closed" ELSE sock[d]
    BY <1>3 DEF DropPeer
  <2>3. Registry!Close({c})
    BY <2>1, <2>2, SocketsClose
  <2> QED  BY <2>3 DEF Registry!Next
<1> QED  BY <1>1, <1>2, <1>3

\* closePeer on a closed socket gives the slot back.
LEMMA ClosePeerReleases ==
    ASSUME IInv, NEW c \in Conns, ClosePeer(c), sock[c] = "closed", UNCHANGED sock
    PROVE  Registry!Release(c)
<1>1. connectedPeers' = [k \in Keys |-> IF connectedPeers[k] = c THEN NoConn
                                        ELSE connectedPeers[k]]
  BY DEF ClosePeer, IInv, SlotOK
<1> QED  BY <1>1 DEF Registry!Release

\* Every step of NetService is a step or a stutter of the registry.
LEMMA StepRefines == IInv /\ [Next]_vars => [Registry!Next]_(Registry!vars)
<1> SUFFICES ASSUME IInv, [Next]_vars  PROVE [Registry!Next]_(Registry!vars)
  OBVIOUS
<1> USE DEF table, peer
<1>1. CASE UNCHANGED <<sock, connectedPeers>>
  BY <1>1, NothingHappens
<1>2. CASE Stop
  <2>1. connections \in SUBSET Conns
    BY DEF IInv, TypeOK
  <2>2. \A c \in Conns : sock'[c] = IF c \in connections THEN "closed" ELSE sock[c]
    BY <1>2 DEF Stop
  <2>3. UNCHANGED connectedPeers
    BY <1>2 DEF Stop
  <2> QED  BY <2>1, <2>2, <2>3, SocketsClose DEF Registry!Next
<1>3. ASSUME NEW c \in Conns, NEW how, NEW k, NewPeer(c, how, k), UNCHANGED connectedPeers
      PROVE  [Registry!Next]_(Registry!vars)
  BY <1>3, NewPeerOpens DEF Registry!Next
<1>4. CASE Finder
  <2>1. CASE FindDial
    BY <1>1, <1>3, <2>1 DEF FindDial
  <2>2. CASE FindTrack
    BY <2>2, HandOverClaims DEF FindTrack, IInv, OwnedOK, NodeInfo
  <2> QED
    BY <1>1, <1>4, <2>1, <2>2 DEF Finder, FindChoose, FindStore, FindWait, FindCheck
<1>5. CASE Seeder
  <2>1. CASE SeedTrack
    BY <2>1, HandOverClaims DEF SeedTrack, IInv, OwnedOK
  <2> QED  BY <1>1, <1>3, <1>5, <2>1 DEF Seeder, SeedLookup, SeedDial, SeedExits
<1>6. CASE Environment
  <2>1. ASSUME NEW c \in Conns, NEW how \in {"remoteClosed", "dead"}, RemoteEnds(c, how)
        PROVE  [Registry!Next]_(Registry!vars)
    BY <2>1, NothingHappens DEF RemoteEnds
  <2> QED
    BY <1>1, <1>6, <2>1 DEF Environment, Cancel, ReceiveAnnounce, AddPeer, LockExpires
<1>7. ASSUME NEW l \in Listeners, Acceptor(l)  PROVE [Registry!Next]_(Registry!vars)
  <2>1. CASE TrackInbound(l)
    BY <2>1, HandOverClaims DEF TrackInbound, IInv, OwnedOK
  <2> QED  BY <1>1, <1>3, <1>7, <2>1 DEF Acceptor, Accept, AcceptFails
<1>8. ASSUME NEW c \in Conns, Receiver(c)  PROVE [Registry!Next]_(Registry!vars)
  <2>1. CASE RecvGivesUp(c) /\ UNCHANGED connectedPeers
    BY <2>1, GivingUpCloses DEF Registry!Next
  <2>2. CASE Adopt(c)
    <3>1. CASE HavePeer(peerPub[c])
      BY <2>1, <2>2, <3>1 DEF Adopt
    <3>2. CASE ~HavePeer(peerPub[c])
      <4>1. peerPub[c] \in Keys /\ connectedPeers[peerPub[c]] = NoConn
        BY <2>2, <3>2 DEF Adopt, HavePeer, IInv, PhaseOK
      <4>2. \A k \in Keys : connectedPeers[k] # c
        BY <2>2 DEF Adopt, IInv, SlotOK
      <4>3. Registry!Claim(c, peerPub[c])
        BY <2>2, <3>2, <4>1, <4>2 DEF Adopt, AdoptPeer, Registry!Claim,
           Registry!HoldsNothing
      <4> QED  BY <4>1, <4>3 DEF Registry!Next
    <3> QED  BY <3>1, <3>2
  <2>3. CASE RecvClose(c)
    BY <2>3, ClosePeerReleases DEF RecvClose, IInv, PhaseOK, Registry!Next
  <2> QED
    BY <1>1, <1>8, <2>1, <2>2, <2>3 DEF Receiver, SendMyAddress, StartSender, ReadFirst,
       Verify, ReadFails, RelayStops
<1>9. ASSUME NEW c \in Conns, Sender(c)  PROVE [Registry!Next]_(Registry!vars)
  <2>1. CASE SendClose(c)
    BY <2>1, ClosePeerReleases DEF SendClose, IInv, PhaseOK, Registry!Next
  <2>2. CASE sock' = [sock EXCEPT ![c] = "closed"] /\ UNCHANGED connectedPeers
    <3>1. \A d \in Conns : sock'[d] = IF d \in {c} THEN "closed" ELSE sock[d]
      BY <2>2 DEF IInv, TypeOK
    <3>2. Registry!Close({c})
      BY <2>2, <3>1, SocketsClose
    <3> QED  BY <3>2 DEF Registry!Next
  <2> QED  BY <1>1, <1>9, <2>1, <2>2 DEF Sender, SendFails, SendStops
<1> QED
  BY <1>1, <1>2, <1>4, <1>5, <1>6, <1>7, <1>8, <1>9 DEF Next, Run, vars

\* The connection table implements the registry of one slot per peer key.
THEOREM ImplementsRegistry == Spec => RegistrySpec
<1>1. Init => Registry!Init
  BY DEF Init, Registry!Init
<1> QED  BY <1>1, StepRefines, Invariance, PTL DEF Spec, RegistrySpec, Registry!Spec

-----------------------------------------------------------------------------
(* NetService implements PeerExchange.                                     *)

\* A connection whose socket is not closed goes to another stage.
LEMMA GoesOn ==
    ASSUME TypeOK, NEW c \in Conns, sock[c] # "closed", UNCHANGED <<sock, kind>>,
           NEW to \in {"announce", "await", "adopt", "verify", "relay"},
           recvPc' = [recvPc EXCEPT ![c] = to]
    PROVE  /\ ExchangeStage' = [ExchangeStage EXCEPT ![c] = to]
           /\ ExchangeKind' = [ExchangeKind EXCEPT ![c] = kind[c]]
           /\ recvPc[c] \notin {"none", "held"} => UNCHANGED ExchangeKind
<1>1. \A d \in Conns : recvPc'[d] = IF d = c THEN to ELSE recvPc[d]
  BY DEF TypeOK
<1>2. ExchangeStage' = [ExchangeStage EXCEPT ![c] = to]
  BY <1>1 DEF ExchangeStage
<1>3. \A d \in Conns : ExchangeStage'[d] = IF d = c THEN to ELSE ExchangeStage[d]
  BY <1>1 DEF ExchangeStage
<1>4. ExchangeKind' = [ExchangeKind EXCEPT ![c] = kind[c]]
  BY <1>3 DEF ExchangeKind
<1>5. ASSUME recvPc[c] \notin {"none", "held"}  PROVE UNCHANGED ExchangeKind
  <2>1. \A d \in Conns :
            ExchangeStage'[d] \in {"new", "closed"} <=> ExchangeStage[d] \in {"new", "closed"}
    BY <1>5 DEF ExchangeStage, TypeOK
  <2> QED  BY <2>1 DEF ExchangeKind
<1> QED  BY <1>2, <1>4, <1>5

\* Closing a set of sockets is a Close of the exchange, whatever their receivers do.
LEMMA ConnectionsClose ==
    ASSUME NEW cs \in SUBSET Conns, UNCHANGED <<kind, connectedPeers>>,
           \A d \in Conns : sock'[d] = IF d \in cs THEN "closed" ELSE sock[d],
           \A d \in Conns \ cs : recvPc'[d] = recvPc[d]
    PROVE  [Exchange!Next]_(Exchange!vars)
<1>1. \A d \in Conns : ExchangeStage'[d] = IF d \in cs THEN "closed" ELSE ExchangeStage[d]
  BY DEF ExchangeStage
<1>2. ExchangeStage' = [d \in Conns |-> IF d \in cs THEN "closed" ELSE ExchangeStage[d]]
  BY DEF ExchangeStage
<1>3. ExchangeKind' = [d \in Conns |-> IF d \in cs THEN "none" ELSE ExchangeKind[d]]
  BY <1>1 DEF ExchangeKind
<1>4. Registered' = Registered \ cs
  BY DEF Registered
<1> QED  BY <1>2, <1>3, <1>4 DEF Exchange!Close, Exchange!Next

\* What the receiver of a closed connection does, or of one that is at no stage
\* of the exchange yet, is a stutter, and so is what its remote end does.
LEMMA NothingToSee ==
    ASSUME \A d \in Conns : /\ sock'[d] = "closed" <=> sock[d] = "closed"
                            /\ \/ sock[d] = "closed"
                               \/ ExchangeStage'[d] = ExchangeStage[d] /\ kind'[d] = kind[d]
                               \/ ExchangeStage'[d] = "new" /\ ExchangeStage[d] = "new",
           Registered' = Registered
    PROVE  UNCHANGED Exchange!vars
<1>1. UNCHANGED ExchangeStage
  BY DEF ExchangeStage
<1>2. UNCHANGED ExchangeKind
  BY DEF ExchangeStage, ExchangeKind
<1> QED  BY <1>1, <1>2 DEF Exchange!vars

\* A fresh connection is new until trackPeer, whoever made it.
LEMMA NewPeerIsNew ==
    ASSUME IInv, NEW c \in Conns, NEW how, NEW k, NewPeer(c, how, k), UNCHANGED connectedPeers
    PROVE  UNCHANGED Exchange!vars
<1>1. Registered' = Registered
  BY DEF NewPeer, Registered
<1>2. \A d \in Conns \ {c} : UNCHANGED <<sock[d], recvPc[d], kind[d]>>
  BY DEF NewPeer
<1>3. sock[c] = "none" /\ sock'[c] = "open" /\ recvPc[c] = "none" /\ recvPc'[c] = "held"
  BY DEF IInv, TypeOK, PhaseOK, NewPeer
<1> QED  BY <1>1, <1>2, <1>3, NothingToSee DEF ExchangeStage

\* trackPeer and start() begin the exchange, or the connection is closed.
LEMMA HandOverStarts ==
    ASSUME IInv, NEW c \in Conns, NEW k \in Keys \cup {NoPubKey}, HandOver(c, k),
           recvPc[c] = "held", k \in Keys => kind[c] = "known"
    PROVE  [Exchange!Next]_(Exchange!vars)
<1> USE NetAssumption DEF IInv, TypeOK, HandOver
<1>1. sock[c] # "closed" /\ kind[c] \in {"known", "seed", "inbound"} /\ ExchangeStage[c] = "new"
  BY DEF PhaseOK, ExchangeStage
<1>2. CASE Trackable(k)
  <2> DEFINE to == IF kind[c] = "inbound" THEN "await" ELSE "announce"
  <2>1. recvPc' = [recvPc EXCEPT ![c] = to] /\ UNCHANGED <<sock, kind>>
    BY <1>2 DEF StartPeer
  <2>2. /\ ExchangeStage' = [ExchangeStage EXCEPT ![c] = to]
        /\ ExchangeKind' = [ExchangeKind EXCEPT ![c] = kind[c]]
    BY <1>1, <2>1, GoesOn
  <2>3. UNCHANGED Registered \/ (kind[c] = "known" /\ Registered' = Registered \cup {c})
    <3>1. CASE k \in Keys
      BY <1>2, <2>1 DEF Trackable, TrackPeer, HavePeer, Registered
    <3>2. CASE k \notin Keys
      BY <2>1, <3>2 DEF TrackPeer, Registered, table
    <3> QED  BY <3>1, <3>2
  <2>4. Exchange!Start(c, kind[c])
    BY <1>1, <2>2, <2>3 DEF Exchange!Start, Exchange!Goes
  <2> QED  BY <1>1, <2>4 DEF Exchange!Next
<1>3. CASE ~Trackable(k)
  <2>1. UNCHANGED <<kind, connectedPeers>>
    BY <1>3 DEF Trackable, TrackPeer, DropPeer, table
  <2>2. /\ \A d \in Conns : sock'[d] = IF d \in {c} THEN "closed" ELSE sock[d]
        /\ \A d \in Conns \ {c} : recvPc'[d] = recvPc[d]
    BY <1>3 DEF DropPeer
  <2> HIDE DEF IInv, TypeOK, HandOver
  <2> QED  BY <2>1, <2>2, ConnectionsClose
<1> QED  BY <1>2, <1>3

\* A receiver that gives up closes its connection.
LEMMA GivingUpEnds ==
    ASSUME IInv, NEW c \in Conns, RecvGivesUp(c), UNCHANGED <<kind, connectedPeers>>
    PROVE  [Exchange!Next]_(Exchange!vars)
<1>1. /\ \A d \in Conns : sock'[d] = IF d \in {c} THEN "closed" ELSE sock[d]
      /\ \A d \in Conns \ {c} : recvPc'[d] = recvPc[d]
  BY DEF RecvGivesUp, IInv, TypeOK
<1> QED  BY <1>1, ConnectionsClose

\* The steps of a receiver that goes on: each is the step of the exchange that
\* is due, or a stutter if Stop or the sender has closed the connection.
LEMMA ReceiverExchanges ==
    ASSUME IInv, NEW c \in Conns, Receiver(c), ~RecvGivesUp(c)
    PROVE  [Exchange!Next]_(Exchange!vars)
<1> USE NetAssumption DEF IInv, peer, table
<1>1. CASE sock[c] = "closed"
  <2>1. UNCHANGED <<sock, kind>> /\ \A d \in Conns \ {c} : recvPc'[d] = recvPc[d]
    BY DEF Receiver, SendMyAddress, ReadFirst, Adopt, Verify, ReadFails, RelayStops,
       RecvClose, StartSender, TypeOK
  <2>2. \A k \in Keys, d \in Conns \ {c} : connectedPeers'[k] = d <=> connectedPeers[k] = d
    BY DEF Receiver, SendMyAddress, ReadFirst, Adopt, Verify, ReadFails, RelayStops,
       RecvClose, AdoptPeer, ClosePeer, HavePeer, TypeOK
  <2>3. Registered' = Registered
    BY <1>1, <2>1, <2>2 DEF Registered
  <2> QED  BY <1>1, <2>1, <2>3, NothingToSee DEF ExchangeStage
<1>2. CASE sock[c] # "closed"
  <2>1. /\ ExchangeStage[c] = IF recvPc[c] = "done" THEN "relay" ELSE recvPc[c]
        /\ ExchangeKind[c] = kind[c]
    BY <1>2 DEF Receiver, SendMyAddress, ReadFirst, Adopt, Verify, ReadFails, RelayStops,
       RecvClose, ExchangeStage, ExchangeKind
  <2>2. CASE SendMyAddress(c)
    <3>1. /\ recvPc' = [recvPc EXCEPT ![c] = IF kind[c] = "inbound" THEN "relay" ELSE "await"]
          /\ UNCHANGED <<sock, kind, connectedPeers>> /\ recvPc[c] = "announce"
      BY <2>2 DEF SendMyAddress, StartSender
    <3>2. UNCHANGED Registered
      BY <3>1 DEF Registered
    <3>3. Exchange!Announce(c)
      BY <1>2, <2>1, <3>1, <3>2, GoesOn DEF Exchange!Announce, Exchange!Goes
    <3> QED  BY <3>3 DEF Exchange!Next
  <2>3. ASSUME NEW k \in Keys, ReadFirst(c, k)  PROVE Exchange!Receive(c)
    <3>1. /\ recvPc' = [recvPc EXCEPT ![c] = IF kind[c] = "known" THEN "verify" ELSE "adopt"]
          /\ UNCHANGED <<sock, kind, connectedPeers>> /\ recvPc[c] = "await"
          /\ kind[c] = "known" => peerPub[c] = k
      BY <2>3 DEF ReadFirst
    <3>2. kind[c] = "known" => c \in Registered
      BY <1>2, <3>1 DEF RegisteredOK, Registers, Registered
    <3>3. UNCHANGED Registered
      BY <3>1 DEF Registered
    <3> QED
      BY <1>2, <2>1, <3>1, <3>2, <3>3, GoesOn DEF Exchange!Receive, Exchange!Goes
  <2>4. CASE Adopt(c)
    <3>1. /\ recvPc' = [recvPc EXCEPT ![c] = "verify"] /\ recvPc[c] = "adopt"
          /\ UNCHANGED <<sock, kind>> /\ AdoptPeer(c) /\ ~HavePeer(peerPub[c])
      BY <2>4 DEF Adopt
    <3>2. peerPub[c] \in Keys
      BY <3>1 DEF PhaseOK
    <3>3. Registered' = Registered \cup {c}
      BY <1>2, <3>1, <3>2 DEF AdoptPeer, HavePeer, Registered, TypeOK
    <3>4. Exchange!Adopt(c)
      BY <1>2, <2>1, <3>1, <3>3, GoesOn DEF Exchange!Adopt, Exchange!Goes
    <3> QED  BY <3>4 DEF Exchange!Next
  <2>5. CASE Verify(c)
    <3>1. /\ recvPc' = [recvPc EXCEPT ![c] = IF kind[c] = "inbound" THEN "announce" ELSE "relay"]
          /\ UNCHANGED <<sock, kind, connectedPeers>> /\ recvPc[c] = "verify"
      BY <2>5 DEF Verify, StartSender
    <3>2. UNCHANGED Registered
      BY <3>1 DEF Registered
    <3>3. Exchange!Accept(c)
      BY <1>2, <2>1, <3>1, <3>2, GoesOn DEF Exchange!Accept, Exchange!Goes
    <3> QED  BY <3>3 DEF Exchange!Next
  <2>6. CASE RelayStops(c)
    BY <2>6, NothingToSee DEF RelayStops, ExchangeStage, Registered
  <2>7. ~ReadFails(c) /\ ~RecvClose(c)
    BY <1>2 DEF ReadFails, RecvClose, PhaseOK
  <2> QED  BY <2>2, <2>3, <2>4, <2>5, <2>6, <2>7 DEF Receiver, Exchange!Next
<1> QED  BY <1>1, <1>2

\* A sender closes its connection, or gives back the slot of a closed one.
LEMMA SenderEnds ==
    ASSUME IInv, NEW c \in Conns, Sender(c)
    PROVE  [Exchange!Next]_(Exchange!vars)
<1> USE DEF IInv
<1>1. UNCHANGED <<recvPc, kind>>
  BY DEF Sender, SendFails, SendStops, SendClose
<1>2. CASE SendClose(c)
  <2>1. sock[c] = "closed" /\ UNCHANGED sock /\ ClosePeer(c)
    BY <1>2 DEF SendClose, PhaseOK
  <2>2. Registered' = Registered
    BY <2>1, NetAssumption DEF ClosePeer, Registered
  <2> QED  BY <1>1, <2>1, <2>2, NothingToSee DEF ExchangeStage
<1>3. CASE sock' = [sock EXCEPT ![c] = "closed"] /\ UNCHANGED connectedPeers
  <2>1. \A d \in Conns : sock'[d] = IF d \in {c} THEN "closed" ELSE sock[d]
    BY <1>3 DEF TypeOK
  <2> HIDE DEF IInv
  <2> QED  BY <1>1, <1>3, <2>1, ConnectionsClose
<1>4. CASE UNCHANGED <<sock, connectedPeers>>
  BY <1>1, <1>4, NothingToSee DEF ExchangeStage, Registered
<1> QED  BY <1>2, <1>3, <1>4 DEF Sender, SendFails, SendStops, table

\* Every step of NetService is a step or a stutter of the exchange.
LEMMA StepExchanges == IInv /\ [Next]_vars => [Exchange!Next]_(Exchange!vars)
<1> SUFFICES ASSUME IInv, [Next]_vars  PROVE [Exchange!Next]_(Exchange!vars)
  OBVIOUS
<1> USE DEF table, peer
<1>1. CASE UNCHANGED <<sock, kind, recvPc, connectedPeers>>
  BY <1>1, NothingToSee DEF ExchangeStage, Registered
<1>2. CASE Stop
  <2>1. connections \in SUBSET Conns
    BY DEF IInv, TypeOK
  <2>2. \A c \in Conns : sock'[c] = IF c \in connections THEN "closed" ELSE sock[c]
    BY <1>2 DEF Stop
  <2>3. UNCHANGED <<recvPc, kind, connectedPeers>>
    BY <1>2 DEF Stop
  <2> QED  BY <2>1, <2>2, <2>3, ConnectionsClose
<1>3. CASE Finder
  <2>1. CASE FindTrack
    BY <2>1, HandOverStarts DEF FindTrack, IInv, OwnedOK, NodeInfo
  <2> QED
    BY <1>1, <1>3, <2>1, NewPeerIsNew DEF Finder, FindChoose, FindStore, FindWait,
       FindCheck, FindDial
<1>4. CASE Seeder
  <2>1. CASE SeedTrack
    BY <2>1, HandOverStarts, NetAssumption DEF SeedTrack, IInv, OwnedOK
  <2> QED
    BY <1>1, <1>4, <2>1, NewPeerIsNew DEF Seeder, SeedLookup, SeedDial, SeedExits
<1>5. CASE Environment
  <2>1. ASSUME NEW c \in Conns, NEW how \in {"remoteClosed", "dead"}, RemoteEnds(c, how)
        PROVE  UNCHANGED Exchange!vars
    <3>1. UNCHANGED <<recvPc, kind, connectedPeers>>
      BY <2>1 DEF RemoteEnds
    <3>2. \A d \in Conns : sock'[d] = "closed" <=> sock[d] = "closed"
      BY <2>1 DEF RemoteEnds
    <3> QED  BY <3>1, <3>2, NothingToSee DEF ExchangeStage, Registered
  <2> QED
    BY <1>1, <1>5, <2>1 DEF Environment, Cancel, ReceiveAnnounce, AddPeer, LockExpires
<1>6. ASSUME NEW l \in Listeners, Acceptor(l)  PROVE [Exchange!Next]_(Exchange!vars)
  <2>1. CASE TrackInbound(l)
    BY <2>1, HandOverStarts, NetAssumption DEF TrackInbound, IInv, OwnedOK
  <2> QED  BY <1>1, <1>6, <2>1, NewPeerIsNew DEF Acceptor, Accept, AcceptFails
<1>7. ASSUME NEW c \in Conns, Receiver(c)  PROVE [Exchange!Next]_(Exchange!vars)
  <2>1. CASE RecvGivesUp(c)
    <3>1. UNCHANGED <<kind, connectedPeers>>
      BY <1>7, <2>1 DEF Receiver, SendMyAddress, StartSender, ReadFirst, Adopt, Verify,
         ReadFails, RelayStops, RecvClose, RecvGivesUp, IInv, TypeOK
    <3> QED  BY <2>1, <3>1, GivingUpEnds
  <2> QED  BY <1>7, <2>1, ReceiverExchanges
<1> QED
  BY <1>1, <1>2, <1>3, <1>4, <1>5, <1>6, <1>7, SenderEnds DEF Next, Run, vars

\* The goroutines of a connection implement the exchange of addresses: trackPeer,
\* sendMyAddress, the first message, adoptPeer and ingestAddress come in its
\* order, a peer that is served has been through all of them, and a connection
\* that was dialled by its key is registered when it is heard.
THEOREM ImplementsExchange == Spec => ExchangeSpec
<1>1. Init => Exchange!Init
  BY NetAssumption DEF Init, ExchangeStage, ExchangeKind, Registered, Exchange!Init
<1> QED  BY <1>1, StepExchanges, Invariance, PTL DEF Spec, ExchangeSpec, Exchange!Spec

=============================================================================
