----------------------------- MODULE NetService -----------------------------
(***************************************************************************)
(* The peer side of the gossip service: the connection table kept under    *)
(* NetService.mutex (internal/netsvc/service.go) and every goroutine that  *)
(* works on it - the accept loop of each listener, findPeers, seedFromDNS, *)
(* and, for each connection, receiveFromPeer and sendToPeer (peer.go).     *)
(*                                                                         *)
(* A critical section of the mutex is one action.  What a goroutine does   *)
(* between two critical sections on its own data is part of the action     *)
(* before or after it.  A connection is a fresh element of Conns, so a     *)
(* closed connection is never reused.                                      *)
(***************************************************************************)
EXTENDS Naturals, Sequences, FiniteSets

CONSTANTS
    Conns,       \* net.Conn values and the peerConn built on each
    Keys,        \* public keys of nodes, this node's own included
    Self,        \* this node's own public key (nodeKey.Pub)
    NoPubKey,    \* 32 zero bytes: no key known yet
    NoConn,      \* absence of a connection
    Listeners,   \* addresses to bind (bindAddrs)
    SeedCount,   \* number of addresses the DNS seed resolves to
    IdealPeers,  \* findPeers looks for peers below this count
    QueueCap,    \* capacity of the newPeers channel
    AddInputs,   \* NodeInfo values the REST API may hand to AddPeer
    KnownNodes,  \* NodeInfo values ChooseNetNode may return
    NoNode       \* the zero NodeInfo

\* An address is only ever tested for being valid and for being our own.
NodeInfo == [key : Keys \cup {NoPubKey}, addr : {"remote", "mine", "invalid"}]

ASSUME NetAssumption ==
    /\ Self \in Keys
    /\ NoPubKey \notin Keys
    /\ NoConn \notin Conns
    /\ SeedCount \in Nat
    /\ IdealPeers \in Nat
    /\ QueueCap \in Nat
    /\ AddInputs \subseteq NodeInfo
    /\ KnownNodes \subseteq NodeInfo
    /\ NoNode \notin NodeInfo

VARIABLES
    \* service
    ctxDone,         \* ns.Context is cancelled: Stopping() answers true
    stopRan,         \* Stop() has run
    haveAnnounce,    \* encAnnounce holds an announcement
    newPeers,        \* channel from AddPeer to choosePeer
    \* under NetService.mutex
    listening,       \* open listen sockets
    connections,     \* every tracked connection
    connectedPeers,  \* peer key -> connection, or NoConn
    lockedPeers,     \* keys whose connection attempt was less than 30 s ago
    \* goroutines of the service
    acceptPc, acceptConn,       \* acceptIncoming, per listener
    findPc, findNode, findConn, \* findPeers
    seedPc, seedConn, seedsLeft,\* seedFromDNS
    \* per connection
    sock,            \* state of the socket
    kind,            \* how it came about: dialled with a key, dialled seed, inbound
    peerPub,         \* peerConn.peerPub
    recvPc,          \* goroutine receiveFromPeer
    sendPc           \* goroutine sendToPeer

service   == <<ctxDone, stopRan, haveAnnounce, newPeers, listening>>
table     == <<connections, connectedPeers>>
acceptors == <<acceptPc, acceptConn>>
finder    == <<findPc, findNode, findConn, lockedPeers>>
seeder    == <<seedPc, seedConn, seedsLeft>>
peer      == <<sock, kind, peerPub, recvPc, sendPc>>

vars == <<service, table, acceptors, finder, seeder, peer>>

TypeOK ==
    /\ ctxDone \in BOOLEAN
    /\ stopRan \in BOOLEAN
    /\ haveAnnounce \in BOOLEAN
    /\ newPeers \in Seq(AddInputs)
    /\ Len(newPeers) <= QueueCap
    /\ listening \subseteq Listeners
    /\ connections \subseteq Conns
    /\ connectedPeers \in [Keys -> Conns \cup {NoConn}]
    /\ lockedPeers \subseteq Keys \cup {NoPubKey}
    /\ acceptPc \in [Listeners -> {"off", "accept", "track", "exited"}]
    /\ acceptConn \in [Listeners -> Conns \cup {NoConn}]
    /\ findPc \in {"off", "choose", "store", "wait", "check", "dial", "track", "exited"}
    /\ findNode \in NodeInfo \cup {NoNode}
    /\ findConn \in Conns \cup {NoConn}
    /\ seedPc \in {"off", "lookup", "dial", "track", "exited"}
    /\ seedConn \in Conns \cup {NoConn}
    /\ seedsLeft \in 0..SeedCount
    /\ sock \in [Conns -> {"none", "open", "remoteClosed", "dead", "closed"}]
    /\ kind \in [Conns -> {"none", "known", "seed", "inbound"}]
    /\ peerPub \in [Conns -> Keys \cup {NoPubKey}]
    /\ recvPc \in [Conns -> {"none", "held", "announce", "await", "adopt",
                             "verify", "relay", "closing", "done"}]
    /\ sendPc \in [Conns -> {"none", "run", "closing", "done"}]

Init ==
    /\ ctxDone = FALSE
    /\ stopRan = FALSE
    /\ haveAnnounce = FALSE
    /\ newPeers = <<>>
    /\ listening = {}
    /\ connections = {}
    /\ connectedPeers = [k \in Keys |-> NoConn]
    /\ lockedPeers = {}
    /\ acceptPc = [l \in Listeners |-> "off"]
    /\ acceptConn = [l \in Listeners |-> NoConn]
    /\ findPc = "off"
    /\ findNode = NoNode
    /\ findConn = NoConn
    /\ seedPc = "off"
    /\ seedConn = NoConn
    /\ seedsLeft = 0
    /\ sock = [c \in Conns |-> "none"]
    /\ kind = [c \in Conns |-> "none"]
    /\ peerPub = [c \in Conns |-> NoPubKey]
    /\ recvPc = [c \in Conns |-> "none"]
    /\ sendPc = [c \in Conns |-> "none"]

-----------------------------------------------------------------------------
(* Critical sections of NetService.mutex, as effects on the table.         *)

HavePeer(k) == k \in Keys /\ connectedPeers[k] # NoConn

CountPeers == Cardinality({k \in Keys : connectedPeers[k] # NoConn})

\* Slip: trackPeer does not ask Stopping().
TrackableAlways(k) == ~HavePeer(k)

\* trackPeer returns true.
Trackable(k) == ~ctxDone /\ ~HavePeer(k)

\* Slip: trackPeer sets the slot without looking whether it is taken.
TrackPeerOverwrites(c, k) ==
    IF ctxDone THEN UNCHANGED table
    ELSE /\ connections' = connections \cup {c}
         /\ connectedPeers' = [j \in Keys |-> IF j = k THEN c ELSE connectedPeers[j]]

\* trackPeer: nothing once the service is stopping; otherwise the connection
\* is appended before the key is looked up, and a key that is known takes its
\* slot if the slot is free.
TrackPeer(c, k) ==
    IF ctxDone THEN UNCHANGED table
    ELSE /\ connections' = connections \cup {c}
         /\ connectedPeers' =
                [j \in Keys |-> IF j = k /\ ~HavePeer(j) THEN c ELSE connectedPeers[j]]

\* adoptPeer, when it returns true.
AdoptPeer(c) == connectedPeers' = [connectedPeers EXCEPT ![peerPub[c]] = c]

\* Slip: closePeer empties the slot of the key, whoever holds it.
ClosePeerOfKey(c) ==
    /\ connectedPeers' = [k \in Keys |-> IF k = peerPub[c] THEN NoConn ELSE connectedPeers[k]]
    /\ connections' = connections \ {c}

\* closePeer: the slot is emptied only if this very connection holds it.
ClosePeer(c) ==
    /\ connectedPeers' = [k \in Keys |-> IF k = peerPub[c] /\ connectedPeers[k] = c
                                         THEN NoConn ELSE connectedPeers[k]]
    /\ connections' = connections \ {c}

-----------------------------------------------------------------------------
(* Service start and stop.                                                 *)

\* startListeners and the go statements of Run.  A listen error skips that
\* address; a cancelled context closes the listener again.
Run ==
    /\ findPc = "off"
    /\ \E ls \in SUBSET Listeners :
        /\ ctxDone => ls = {}
        /\ listening' = ls
        /\ acceptPc' = [l \in Listeners |-> IF l \in ls THEN "accept" ELSE "exited"]
    /\ findPc' = "choose"
    /\ seedPc' = "lookup"
    /\ UNCHANGED <<ctxDone, stopRan, haveAnnounce, newPeers, table, acceptConn,
                   findNode, findConn, lockedPeers, seedConn, seedsLeft, peer>>

\* The governor cancels the service context, then calls Stop (external).
Cancel ==
    /\ ~ctxDone
    /\ ctxDone' = TRUE
    /\ UNCHANGED <<stopRan, haveAnnounce, newPeers, listening, table, acceptors,
                   finder, seeder, peer>>

\* Slip: Stop closes the listeners and forgets the connections.
StopListening ==
    /\ ctxDone
    /\ ~stopRan
    /\ stopRan' = TRUE
    /\ listening' = {}
    /\ UNCHANGED <<ctxDone, haveAnnounce, newPeers, table, acceptors, finder, seeder, peer>>

Stop ==
    /\ ctxDone
    /\ ~stopRan
    /\ stopRan' = TRUE
    /\ listening' = {}
    /\ sock' = [c \in Conns |-> IF c \in connections THEN "closed" ELSE sock[c]]
    /\ UNCHANGED <<ctxDone, haveAnnounce, newPeers, table, acceptors, finder, seeder,
                   kind, peerPub, recvPc, sendPc>>

\* setAnnounce, called by the announce service.
ReceiveAnnounce ==
    /\ haveAnnounce' = TRUE
    /\ UNCHANGED <<ctxDone, stopRan, newPeers, listening, table, acceptors, finder,
                   seeder, peer>>

\* Slip: AddPeer queues without bound.
AddPeerUnbounded(n) ==
    /\ newPeers' = Append(newPeers, n)
    /\ UNCHANGED <<ctxDone, stopRan, haveAnnounce, listening, table, acceptors,
                   finder, seeder, peer>>

\* AddPeer blocks while the channel is full.
AddPeer(n) ==
    /\ Len(newPeers) < QueueCap
    /\ newPeers' = Append(newPeers, n)
    /\ UNCHANGED <<ctxDone, stopRan, haveAnnounce, listening, table, acceptors,
                   finder, seeder, peer>>

-----------------------------------------------------------------------------
(* Connections handed from the goroutine that made them to their own.      *)

\* newPeer on a fresh connection.
NewPeer(c, how, k) ==
    /\ sock[c] = "none"
    /\ sock' = [sock EXCEPT ![c] = "open"]
    /\ kind' = [kind EXCEPT ![c] = how]
    /\ peerPub' = [peerPub EXCEPT ![c] = k]
    /\ recvPc' = [recvPc EXCEPT ![c] = "held"]
    /\ UNCHANGED sendPc

\* Slip: start() starts the sender along with the receiver.
StartBoth(c) ==
    /\ recvPc' = [recvPc EXCEPT ![c] = IF kind[c] = "inbound" THEN "await" ELSE "announce"]
    /\ sendPc' = [sendPc EXCEPT ![c] = "run"]
    /\ UNCHANGED <<sock, kind, peerPub>>

\* peer.start(): an inbound peer listens first, an outbound one speaks first.
StartPeer(c) ==
    /\ recvPc' = [recvPc EXCEPT ![c] = IF kind[c] = "inbound" THEN "await" ELSE "announce"]
    /\ UNCHANGED <<sock, kind, peerPub, sendPc>>

\* conn.Close() on a connection that is not started.
DropPeer(c) ==
    /\ sock' = [sock EXCEPT ![c] = "closed"]
    /\ recvPc' = [recvPc EXCEPT ![c] = "done"]
    /\ UNCHANGED <<kind, peerPub, sendPc>>

\* trackPeer and what its caller does with the answer.
HandOver(c, k) ==
    /\ TrackPeer(c, k)
    /\ IF Trackable(k) THEN StartPeer(c) ELSE DropPeer(c)

-----------------------------------------------------------------------------
(* acceptIncoming                                                          *)

Accept(l, c) ==
    /\ acceptPc[l] = "accept"
    /\ l \in listening
    /\ NewPeer(c, "inbound", NoPubKey)
    /\ acceptPc' = [acceptPc EXCEPT ![l] = "track"]
    /\ acceptConn' = [acceptConn EXCEPT ![l] = c]
    /\ UNCHANGED <<service, table, finder, seeder>>

TrackInbound(l) ==
    /\ acceptPc[l] = "track"
    /\ HandOver(acceptConn[l], NoPubKey)
    /\ acceptPc' = [acceptPc EXCEPT ![l] = IF Trackable(NoPubKey) THEN "accept" ELSE "exited"]
    /\ acceptConn' = [acceptConn EXCEPT ![l] = NoConn]
    /\ listening' = IF Trackable(NoPubKey) THEN listening ELSE listening \ {l}
    /\ UNCHANGED <<ctxDone, stopRan, haveAnnounce, newPeers, finder, seeder>>

AcceptFails(l) ==
    /\ acceptPc[l] = "accept"
    /\ acceptPc' = [acceptPc EXCEPT ![l] = "exited"]
    /\ listening' = listening \ {l}
    /\ UNCHANGED <<ctxDone, stopRan, haveAnnounce, newPeers, table, acceptConn,
                   finder, seeder, peer>>

-----------------------------------------------------------------------------
(* findPeers                                                               *)

\* The finder's registers once it is back at the top of its loop.
FindIdle == findNode' = NoNode /\ findConn' = NoConn

\* choosePeer: an added peer first; the store is asked only while there are
\* too few peers; otherwise wait for an added peer.
FindChoose ==
    /\ findPc = "choose"
    /\ \/ /\ ctxDone
          /\ findPc' = "exited"
          /\ UNCHANGED <<newPeers, findNode>>
       \/ /\ ~ctxDone
          /\ newPeers # <<>>
          /\ findNode' = Head(newPeers)
          /\ newPeers' = Tail(newPeers)
          /\ findPc' = "check"
       \/ /\ ~ctxDone
          /\ newPeers = <<>>
          /\ findPc' = IF CountPeers < IdealPeers THEN "store" ELSE "wait"
          /\ UNCHANGED <<newPeers, findNode>>
    /\ UNCHANGED <<ctxDone, stopRan, haveAnnounce, listening, table, acceptors,
                   findConn, lockedPeers, seeder, peer>>

\* ChooseNetNode returns some stored node, or fails.
FindStore ==
    /\ findPc = "store"
    /\ \/ \E n \in KnownNodes : findNode' = n /\ findPc' = "check"
       \/ findPc' = "wait" /\ UNCHANGED findNode
    /\ UNCHANGED <<service, table, acceptors, findConn, lockedPeers, seeder, peer>>

\* The second select of choosePeer: an added peer, or 30 seconds pass.
FindWait ==
    /\ findPc = "wait"
    /\ \/ /\ newPeers # <<>>
          /\ findNode' = Head(newPeers)
          /\ newPeers' = Tail(newPeers)
          /\ findPc' = "check"
       \/ findPc' = "choose" /\ UNCHANGED <<newPeers, findNode>>
    /\ UNCHANGED <<ctxDone, stopRan, haveAnnounce, listening, table, acceptors,
                   findConn, lockedPeers, seeder, peer>>

\* The tests of findPeers in their order: lockPeer also locks the key of a
\* node that isMyAddress then turns down.
FindCheck ==
    LET k == findNode.key
        lockable == /\ findNode.addr # "invalid"
                    /\ ~HavePeer(k)
                    /\ k \notin lockedPeers
    IN /\ findPc = "check"
       /\ lockedPeers' = IF lockable THEN lockedPeers \cup {k} ELSE lockedPeers
       /\ IF lockable /\ findNode.addr # "mine"
          THEN findPc' = "dial" /\ UNCHANGED <<findNode, findConn>>
          ELSE findPc' = "choose" /\ FindIdle
       /\ UNCHANGED <<service, table, acceptors, seeder, peer>>

\* DialContext fails once the context is cancelled.
FindDial ==
    /\ findPc = "dial"
    /\ \/ \E c \in Conns :
            /\ ~ctxDone
            /\ NewPeer(c, "known", findNode.key)
            /\ findConn' = c
            /\ findPc' = "track"
            /\ UNCHANGED findNode
       \/ /\ findPc' = "choose"
          /\ FindIdle
          /\ UNCHANGED peer
    /\ UNCHANGED <<service, table, acceptors, lockedPeers, seeder>>

\* A refused connection ends the goroutine, whatever the reason.
FindTrack ==
    /\ findPc = "track"
    /\ HandOver(findConn, findNode.key)
    /\ findPc' = IF Trackable(findNode.key) THEN "choose" ELSE "exited"
    /\ FindIdle
    /\ UNCHANGED <<service, acceptors, lockedPeers, seeder>>

\* PeerLockTime has passed for one key.
LockExpires(k) ==
    /\ k \in lockedPeers
    /\ lockedPeers' = lockedPeers \ {k}
    /\ UNCHANGED <<service, table, acceptors, findPc, findNode, findConn, seeder, peer>>

-----------------------------------------------------------------------------
(* seedFromDNS                                                             *)

SeedLookup ==
    /\ seedPc = "lookup"
    /\ ~ctxDone
    /\ SeedCount > 0
    /\ seedsLeft' = SeedCount
    /\ seedPc' = "dial"
    /\ UNCHANGED <<service, table, acceptors, finder, seedConn, peer>>

\* A seed that does not answer stays on the list and is tried again.
SeedDial(c) ==
    /\ seedPc = "dial"
    /\ seedsLeft > 0
    /\ ~ctxDone
    /\ NewPeer(c, "seed", NoPubKey)
    /\ seedConn' = c
    /\ seedPc' = "track"
    /\ UNCHANGED <<service, table, acceptors, finder, seedsLeft>>

SeedTrack ==
    /\ seedPc = "track"
    /\ HandOver(seedConn, NoPubKey)
    /\ IF Trackable(NoPubKey)
       THEN seedPc' = "dial" /\ seedsLeft' = seedsLeft - 1
       ELSE seedPc' = "exited" /\ UNCHANGED seedsLeft
    /\ seedConn' = NoConn
    /\ UNCHANGED <<service, acceptors, finder>>

SeedExits ==
    /\ \/ seedPc \in {"lookup", "dial"} /\ ctxDone
       \/ seedPc = "dial" /\ seedsLeft = 0
    /\ seedPc' = "exited"
    /\ UNCHANGED <<service, table, acceptors, finder, seedConn, seedsLeft, peer>>

-----------------------------------------------------------------------------
(* receiveFromPeer.  The receiver and the sender both end in closePeer,    *)
(* which closes the socket first and takes the mutex afterwards: "closing" *)
(* is the moment between the two.                                          *)

\* Slip: an error return without closePeer.
RecvReturns(c) ==
    /\ recvPc' = [recvPc EXCEPT ![c] = "done"]
    /\ UNCHANGED sock

RecvGivesUp(c) ==
    /\ recvPc' = [recvPc EXCEPT ![c] = "closing"]
    /\ sock' = [sock EXCEPT ![c] = "closed"]

\* The receiver of an established connection relays, and its sender runs.
StartSender(c) ==
    /\ recvPc' = [recvPc EXCEPT ![c] = "relay"]
    /\ sendPc' = [sendPc EXCEPT ![c] = "run"]
    /\ UNCHANGED <<sock, kind, peerPub>>

\* sendMyAddress waits until there is an announcement, then writes it.  A
\* write is sure to fail only on a socket that this node closed.
SendMyAddress(c) ==
    /\ recvPc[c] = "announce"
    /\ haveAnnounce \/ ctxDone
    /\ \/ /\ sock[c] # "closed"
          /\ IF kind[c] = "inbound"
             THEN StartSender(c)
             ELSE /\ recvPc' = [recvPc EXCEPT ![c] = "await"]
                  /\ UNCHANGED <<sock, kind, peerPub, sendPc>>
       \/ /\ sock[c] # "open"
          /\ RecvGivesUp(c)
          /\ UNCHANGED <<kind, peerPub, sendPc>>
    /\ UNCHANGED <<service, table, acceptors, finder, seeder>>

\* The first message has arrived, signed by the node with key k.
ReadFirst(c, k) ==
    /\ recvPc[c] = "await"
    /\ sock[c] # "closed"
    /\ peerPub' = IF kind[c] = "known" THEN peerPub ELSE [peerPub EXCEPT ![c] = k]
    /\ IF \/ kind[c] = "known" /\ k # peerPub[c]
          \/ kind[c] = "inbound" /\ k = Self
       THEN RecvGivesUp(c)
       ELSE /\ recvPc' = [recvPc EXCEPT ![c] = IF kind[c] = "known" THEN "verify" ELSE "adopt"]
            /\ UNCHANGED sock
    /\ UNCHANGED <<service, table, acceptors, finder, seeder, kind, sendPc>>

\* Slip: a peer is adopted without looking whether its slot is taken.
AdoptAnyway(c) ==
    /\ recvPc[c] = "adopt"
    /\ AdoptPeer(c)
    /\ recvPc' = [recvPc EXCEPT ![c] = "verify"]
    /\ UNCHANGED <<sock, connections, service, acceptors, finder, seeder, kind,
                   peerPub, sendPc>>

Adopt(c) ==
    /\ recvPc[c] = "adopt"
    /\ IF HavePeer(peerPub[c])
       THEN RecvGivesUp(c) /\ UNCHANGED table
       ELSE /\ AdoptPeer(c)
            /\ recvPc' = [recvPc EXCEPT ![c] = "verify"]
            /\ UNCHANGED <<sock, connections>>
    /\ UNCHANGED <<service, acceptors, finder, seeder, kind, peerPub, sendPc>>

\* Slip: a dialled peer is not compared with this node's own key.
VerifyAnyKey(c) ==
    /\ recvPc[c] = "verify"
    /\ IF kind[c] = "inbound"
       THEN /\ recvPc' = [recvPc EXCEPT ![c] = "announce"]
            /\ UNCHANGED <<sock, kind, peerPub, sendPc>>
       ELSE StartSender(c)
    /\ UNCHANGED <<service, table, acceptors, finder, seeder>>

\* What is still checked once the peer is registered: that it is not this
\* node, that the message is an address and that ingestAddress takes it.
Verify(c) ==
    /\ recvPc[c] = "verify"
    /\ \/ /\ RecvGivesUp(c)
          /\ UNCHANGED <<kind, peerPub, sendPc>>
       \/ /\ peerPub[c] # Self
          /\ IF kind[c] = "inbound"
             THEN /\ recvPc' = [recvPc EXCEPT ![c] = "announce"]
                  /\ UNCHANGED <<sock, kind, peerPub, sendPc>>
             ELSE StartSender(c)
    /\ UNCHANGED <<service, table, acceptors, finder, seeder>>

\* ReadMessage fails, or (outbound) the first message is no address, or
\* (relaying) an address that ingestAddress refuses.
ReadFails(c) ==
    /\ recvPc[c] \in {"await", "relay"}
    /\ RecvGivesUp(c)
    /\ UNCHANGED <<service, table, acceptors, finder, seeder, kind, peerPub, sendPc>>

\* The relay loop ends between two messages, without closePeer.
RelayStops(c) ==
    /\ recvPc[c] = "relay"
    /\ ctxDone
    /\ recvPc' = [recvPc EXCEPT ![c] = "done"]
    /\ UNCHANGED <<service, table, acceptors, finder, seeder, sock, kind, peerPub, sendPc>>

RecvClose(c) ==
    /\ recvPc[c] = "closing"
    /\ ClosePeer(c)
    /\ recvPc' = [recvPc EXCEPT ![c] = "done"]
    /\ UNCHANGED <<service, acceptors, finder, seeder, sock, kind, peerPub, sendPc>>

-----------------------------------------------------------------------------
(* sendToPeer                                                              *)

\* A write failed; writes fail only on a connection that is not whole.
SendFails(c) ==
    /\ sendPc[c] = "run"
    /\ sock[c] # "open"
    /\ sendPc' = [sendPc EXCEPT ![c] = "closing"]
    /\ sock' = [sock EXCEPT ![c] = "closed"]
    /\ UNCHANGED <<service, table, acceptors, finder, seeder, kind, peerPub, recvPc>>

\* The loop condition ends the goroutine, or the select takes Context.Done.
SendStops(c) ==
    /\ sendPc[c] = "run"
    /\ ctxDone
    /\ \/ /\ sendPc' = [sendPc EXCEPT ![c] = "done"]
          /\ UNCHANGED sock
       \/ /\ sendPc' = [sendPc EXCEPT ![c] = "closing"]
          /\ sock' = [sock EXCEPT ![c] = "closed"]
    /\ UNCHANGED <<service, table, acceptors, finder, seeder, kind, peerPub, recvPc>>

SendClose(c) ==
    /\ sendPc[c] = "closing"
    /\ ClosePeer(c)
    /\ sendPc' = [sendPc EXCEPT ![c] = "done"]
    /\ UNCHANGED <<service, acceptors, finder, seeder, sock, kind, peerPub, recvPc>>

-----------------------------------------------------------------------------
(* The remote end of a connection: it closes, or it vanishes silently.     *)

RemoteEnds(c, how) ==
    /\ sock[c] = "open"
    /\ sock' = [sock EXCEPT ![c] = how]
    /\ UNCHANGED <<service, table, acceptors, finder, seeder, kind, peerPub, recvPc, sendPc>>

-----------------------------------------------------------------------------

Acceptor(l) == (\E c \in Conns : Accept(l, c)) \/ TrackInbound(l) \/ AcceptFails(l)

Finder == FindChoose \/ FindStore \/ FindWait \/ FindCheck \/ FindDial \/ FindTrack

Seeder == SeedLookup \/ (\E c \in Conns : SeedDial(c)) \/ SeedTrack \/ SeedExits

Receiver(c) ==
    \/ SendMyAddress(c)
    \/ \E k \in Keys : ReadFirst(c, k)
    \/ Adopt(c) \/ Verify(c) \/ ReadFails(c) \/ RelayStops(c) \/ RecvClose(c)

Sender(c) == SendFails(c) \/ SendStops(c) \/ SendClose(c)

Environment ==
    \/ Cancel \/ ReceiveAnnounce
    \/ \E n \in AddInputs : AddPeer(n)
    \/ \E k \in Keys \cup {NoPubKey} : LockExpires(k)
    \/ \E c \in Conns, how \in {"remoteClosed", "dead"} : RemoteEnds(c, how)

Next ==
    \/ Run \/ Stop \/ Finder \/ Seeder \/ Environment
    \/ \E l \in Listeners : Acceptor(l)
    \/ \E c \in Conns : Receiver(c) \/ Sender(c)

Spec == Init /\ [][Next]_vars

\* A read on this connection is sure to fail in the end: this node or the
\* remote closed it, or the remote is gone and keep-alive probes notice.
\* Probes run on dialled connections only (the listener switches them off).
Broken(c) ==
    \/ sock[c] \in {"remoteClosed", "closed"}
    \/ sock[c] = "dead" /\ kind[c] # "inbound"

\* What the Go scheduler, the timeouts of dial and sleep, and the governor
\* see to.  Nothing is assumed of remote nodes, of the REST API or of the
\* announce service.  A sender may stay blocked in its select until Stop, but
\* gossipRandomAddresses makes it write to a dead peer sooner or later.
Fairness ==
    /\ WF_vars(Stop)
    /\ WF_vars(Finder)
    /\ WF_vars(SeedTrack)
    /\ WF_vars(SeedExits)
    /\ \A l \in Listeners :
        /\ WF_vars(TrackInbound(l))
        /\ WF_vars(l \notin listening /\ AcceptFails(l))
    /\ \A c \in Conns :
        /\ WF_vars(SendMyAddress(c))
        /\ WF_vars(Adopt(c))
        /\ WF_vars(Verify(c))
        /\ WF_vars(Broken(c) /\ ReadFails(c))
        /\ WF_vars(RecvClose(c))
        /\ WF_vars(stopRan /\ SendStops(c))
        /\ WF_vars(sock[c] = "dead" /\ SendFails(c))
        /\ WF_vars(SendClose(c))

FairSpec == Spec /\ Fairness

-----------------------------------------------------------------------------
(* Safety.                                                                 *)

\* The peer has shown its key and is served: its messages are relayed and
\* gossip is sent to it.
Relaying(c) == recvPc[c] = "relay" /\ sock[c] # "closed"

\* Every peer whose messages are relayed holds the slot of its key, so that
\* forwardToPeers reaches it and havePeer answers for it - although the slot
\* is taken, and checked, in three places by goroutines that race.
RelayingIsRegistered ==
    \A c \in Conns : Relaying(c) => /\ peerPub[c] \in Keys
                                    /\ connectedPeers[peerPub[c]] = c

\* Two connections to the same node are never both served: the inbound and
\* the outbound one of two nodes that dial each other, a seed and a known
\* address of one node (trackPeer, adoptPeer: "already connected to peer").
OnePeerPerKey ==
    \A c, d \in Conns :
        Relaying(c) /\ Relaying(d) /\ peerPub[c] = peerPub[d] => c = d

\* No slot is leaked: while the service runs, whoever holds a slot has that
\* slot's key and a receiver that will end in closePeer.  A leaked slot would
\* keep the node from ever connecting to that peer again.
SlotsAreHeld ==
    \A k \in Keys : connectedPeers[k] # NoConn =>
        LET c == connectedPeers[k]
        IN /\ peerPub[c] = k
           /\ \/ recvPc[c] \in {"announce", "await", "verify", "relay", "closing"}
              \/ ctxDone /\ recvPc[c] = "done"

\* This node never serves itself, although its own address is gossiped back
\* to it and is one of the nodes its own store offers to findPeers.
NotConnectedToSelf == \A c \in Conns : Relaying(c) => peerPub[c] # Self

\* After Stop, the only sockets still open are those whose goroutine has yet
\* to call trackPeer, which will refuse them: no connection slips through
\* between accept or dial and the list that Stop closes.
StopClosesAll ==
    stopRan => \A c \in Conns : sock[c] \in {"none", "closed"} \/ recvPc[c] = "held"

\* A taken slot never changes hands, and is emptied only after the socket of
\* the connection that holds it was closed: a late closePeer, by the second
\* of the two goroutines of an old connection to the same node, leaves the
\* new connection alone.  (RegistrySpec, which follows, says this and more.)
SlotStep ==
    \A k \in Keys : connectedPeers[k] # NoConn =>
        \/ connectedPeers'[k] = connectedPeers[k]
        \/ connectedPeers'[k] = NoConn /\ sock[connectedPeers[k]] = "closed"
SlotsFreedByOwner == [][SlotStep]_vars

\* peer.go:294 "no race: peer.peerPub is final before sendToPeer starts
\* (closePeer OK to read peer.peerPub)".
PeerPubStep == \A c \in Conns : sendPc[c] # "none" => peerPub'[c] = peerPub[c]
PeerPubIsFinal == [][PeerPubStep]_vars

\* The connection table implements the registry of one slot per key.
Registry == INSTANCE PeerRegistry WITH
    live <- {c \in Conns : sock[c] \notin {"none", "closed"}},
    slot <- connectedPeers
RegistrySpec == Registry!Spec

\* The goroutines implement the exchange of addresses: a connection is
\* registered when PeerExchange says so, although closePeer takes its slot
\* back some time after it closed the socket, and RelayStops does not.
ExchangeStage ==
    [c \in Conns |-> IF sock[c] = "closed" THEN "closed"
                     ELSE IF recvPc[c] \in {"none", "held"} THEN "new"
                     ELSE IF recvPc[c] = "done" THEN "relay" ELSE recvPc[c]]
ExchangeKind ==
    [c \in Conns |-> IF ExchangeStage[c] \in {"new", "closed"} THEN "none" ELSE kind[c]]
Registered == {c \in Conns : sock[c] # "closed" /\ \E k \in Keys : connectedPeers[k] = c}

Exchange == INSTANCE PeerExchange WITH
    stage <- ExchangeStage, kind <- ExchangeKind, registered <- Registered
ExchangeSpec == Exchange!Spec

-----------------------------------------------------------------------------
(* Liveness, of FairSpec.                                                  *)

\* The goroutines of the module have ended and every socket is closed.  Not among
\* them are gossipRandomAddresses, which sleeps and tests Stopping(), and a REST
\* request that is blocked in AddPeer.
Quiet ==
    /\ findPc \in {"off", "exited"}
    /\ seedPc \in {"off", "exited"}
    /\ \A l \in Listeners : acceptPc[l] \in {"off", "exited"}
    /\ \A c \in Conns : /\ recvPc[c] \in {"none", "done"}
                        /\ sendPc[c] \in {"none", "done"}
                        /\ sock[c] \in {"none", "closed"}

\* After the context is cancelled all of them wind down: none waits for a
\* remote, for another goroutine or for a channel for ever.
ShutdownCompletes == ctxDone ~> Quiet

\* Once there is an announcement to send, a slot whose peer has closed its end
\* comes free, whatever stage of the handshake the connection had reached, so
\* that findPeers can replace the peer.
ClosedPeerLosesSlot ==
    \A c \in Conns :
        (sock[c] = "remoteClosed" /\ haveAnnounce)
            ~> (ctxDone \/ \A k \in Keys : connectedPeers[k] # c)

-----------------------------------------------------------------------------
(* What a comment of the code says and the code does not do.               *)

\* service.go:384 "returns false if service is stopping" (trackPeer), on which
\* findPeers ends: as long as the service runs it looks for peers.
FindPeersKeepsRunning == findPc = "exited" => ctxDone

=============================================================================
