------------------------------ MODULE Delivery ------------------------------
(***************************************************************************)
(* How the announcement of this node reaches its peers                     *)
(* (internal/netsvc/service.go, peer.go; generateAnnounce of               *)
(* internal/announce/announce.go): ReceiveAnnounce, the address exchange   *)
(* of a new connection, the send queue of each peer, messages relayed for  *)
(* others, and the gossip of random records.                               *)
(*                                                                         *)
(* NetService has the table of connections in full; here a connection has  *)
(* the stages at which it sends, and every error is a Close, as is what    *)
(* Stop closes.  A shutdown may begin at any point.                        *)
(***************************************************************************)
EXTENDS Naturals, Sequences, Functions

CONSTANTS
    Conns,        \* bound: connections made
    QueueCap,     \* capacity of a send queue (100)
    Other,        \* a message that is not this node's announcement
    MaxVersion,   \* bound: announcements of this node, of which a shutdown replaces one
    MaxFaults,    \* bound: failing transactions
    MaxOthers     \* bound: messages relayed for others

ASSUME DeliveryAssumption ==
    /\ QueueCap \in Nat \ {0}
    /\ {MaxVersion, MaxFaults, MaxOthers} \subseteq Nat

\* Announcements are numbered in the order in which they are generated.
Versions == 1..MaxVersion
None == 0

Kinds == {"known", "seed", "inbound"}

ASSUME OtherAssumption == Other \notin Versions \cup {None}

VARIABLES
    version,     \* the latest announcement generated
    ownRow,      \* the one in this node's row of the store
    current,     \* ns.encAnnounce
    announcer,   \* the announce goroutine, from generateAnnounce to ReceiveAnnounce
    gossip,      \* what gossipRandomAddresses has read and not forwarded yet
    stage,       \* where the receiver of each connection is
    kind,        \* who made the connection, while it is open; a seed is dialled without
                 \* its key
    toSend,      \* what sendMyAddress has read
    registered,  \* ns.connectedPeers
    queue,       \* peer.send
    senders,     \* connections whose sendToPeer waits in its select
    wire,        \* what has been written to an open connection: the last announcement,
                 \* all of them, and whether some other message came first
    dropped,     \* open connections for which an announcement of this node was dropped
                 \* at a full queue
    stopping,    \* ns.Stopping()
    faults, others

node  == <<version, ownRow, current, announcer>>
peers == <<stage, kind, toSend, registered, queue, senders, wire, dropped>>
vars  == <<node, gossip, peers, stopping, faults, others>>

NothingSent == [last |-> None, heard |-> {}, otherFirst |-> FALSE]

TypeOK ==
    /\ {version, ownRow, current, gossip} \subseteq Versions \cup {None}
    /\ announcer \in {"idle", "set", "forward"}
    /\ stage \in [Conns -> {"new", "poll", "write", "await", "adopt", "ingest", "relay",
                           "closed"}]
    /\ kind \in [Conns -> Kinds \cup {"none"}]
    /\ toSend \in [Conns -> Versions \cup {None}]
    /\ registered \subseteq Conns
    /\ queue \in [Conns -> Seq(Versions \cup {Other})]
    /\ \A c \in Conns : Len(queue[c]) <= QueueCap
    /\ wire \in [Conns -> [last : Versions \cup {None}, heard : SUBSET Versions,
                           otherFirst : BOOLEAN]]
    /\ senders \subseteq Conns /\ dropped \subseteq Conns
    /\ stopping \in BOOLEAN
    /\ faults \in 0..MaxFaults /\ others \in 0..MaxOthers

Init ==
    /\ version = None /\ ownRow = None /\ current = None
    /\ announcer = "idle" /\ gossip = None
    /\ stage = [c \in Conns |-> "new"]
    /\ kind = [c \in Conns |-> "none"]
    /\ toSend = [c \in Conns |-> None]
    /\ registered = {}
    /\ queue = [c \in Conns |-> <<>>]
    /\ wire = [c \in Conns |-> NothingSent]
    /\ senders = {} /\ dropped = {}
    /\ stopping = FALSE
    /\ faults = 0 /\ others = 0

-----------------------------------------------------------------------------
(* Forwarding and writing.                                                 *)

\* Slip: peers that wait for the return announcement are left out.
RelayingPeers == {c \in registered : stage[c] = "relay"}

Addressees == registered

\* Slip: a queue that grows in place of a channel.
HasRoomAlways(c) == TRUE

HasRoom(c) == Len(queue[c]) < QueueCap

\* forwardToPeers: to every peer that is registered and has room.
ForwardToPeers(m) ==
    LET room == {c \in Addressees : HasRoom(c)} IN
    /\ queue' = [c \in Conns |-> IF c \in room THEN Append(queue[c], m) ELSE queue[c]]
    /\ dropped' = IF m = Other THEN dropped ELSE dropped \cup (Addressees \ room)

\* What the wire has after a message was written to it.
Written(w, m) ==
    IF m = Other THEN [w EXCEPT !.otherFirst = @ \/ w.heard = {}]
    ELSE [w EXCEPT !.last = m, !.heard = @ \cup {m}]

\* A message of somebody else, if any is to be forwarded.
RelayOther ==
    \/ /\ others < MaxOthers
       /\ others' = others + 1
       /\ ForwardToPeers(Other)
    \/ UNCHANGED <<others, queue, dropped>>

-----------------------------------------------------------------------------
(* The announce goroutine.                                                 *)

\* generateAnnounce: the row of this node is updated, or fails to be.
Generate ==
    /\ announcer = "idle"
    /\ version < (IF stopping THEN MaxVersion - 1 ELSE MaxVersion)
    /\ version' = version + 1
    /\ \/ ownRow' = version' /\ UNCHANGED faults
       \/ faults < MaxFaults /\ faults' = faults + 1 /\ UNCHANGED ownRow
    /\ announcer' = "set"
    /\ UNCHANGED <<current, gossip, peers, stopping, others>>

SetAnnounce ==
    /\ announcer = "set"
    /\ current' = version
    /\ announcer' = "forward"
    /\ UNCHANGED <<version, ownRow, gossip, peers, stopping, faults, others>>

ForwardAnnounce ==
    /\ announcer = "forward"
    /\ ForwardToPeers(version)
    /\ announcer' = "idle"
    /\ UNCHANGED <<version, ownRow, current, gossip, stage, kind, toSend, registered,
                   senders, wire, stopping, faults, others>>

-----------------------------------------------------------------------------
(* gossipRandomAddresses, when it draws this node's own row.               *)

\* Slip: this node's own row is left out.
DrawnOfOthers == None

Drawn == ownRow

GossipRead ==
    /\ gossip = None
    /\ Drawn # None
    /\ gossip' = Drawn
    /\ UNCHANGED <<node, peers, stopping, faults, others>>

GossipForward ==
    /\ gossip # None
    /\ ForwardToPeers(gossip)
    /\ gossip' = None
    /\ UNCHANGED <<node, stage, kind, toSend, registered, senders, wire, stopping,
                   faults, others>>

-----------------------------------------------------------------------------
(* receiveFromPeer.                                                        *)

Goes(c, to) == stage' = [stage EXCEPT ![c] = to]

Inbound == {c \in Conns : kind[c] = "inbound"}

Register(c) == registered' = registered \cup {c}

\* Slip: both sides announce first.
SpeaksFirst(k) == "poll"

\* The side that dialled announces first.
FirstStage(k) == IF k = "inbound" THEN "await" ELSE "poll"

\* trackPeer, which refuses in a shutdown: a node that was dialled by its key is
\* registered at once.
Connect(c, k) ==
    /\ stage[c] = "new"
    /\ ~stopping
    /\ Goes(c, FirstStage(k))
    /\ kind' = [kind EXCEPT ![c] = k]
    /\ IF k = "known" THEN Register(c) ELSE UNCHANGED registered
    /\ UNCHANGED <<node, gossip, toSend, queue, senders, wire, dropped, stopping,
                   faults, others>>

\* The address of the other side arrives.
ReceiveAddress(c) ==
    /\ stage[c] = "await"
    /\ Goes(c, IF kind[c] = "known" THEN "ingest" ELSE "adopt")
    /\ UNCHANGED <<node, gossip, kind, toSend, registered, queue, senders, wire, dropped,
                   stopping, faults, others>>

\* adoptPeer, for a connection whose key was not known.
Adopt(c) ==
    /\ stage[c] = "adopt"
    /\ Register(c)
    /\ Goes(c, "ingest")
    /\ UNCHANGED <<node, gossip, kind, toSend, queue, senders, wire, dropped, stopping,
                   faults, others>>

\* for !ns.Stopping() { select ... } of sendToPeer, which is started on the
\* connections that are done and ends at once in a shutdown.
StartSender(done) == senders' = IF stopping THEN senders ELSE senders \cup done

\* ingestAddress may forward the address to every peer.  An outbound connection
\* is then done, and an inbound one sends its address in return.
Ingest(c) ==
    /\ stage[c] = "ingest"
    /\ RelayOther
    /\ Goes(c, IF kind[c] = "inbound" THEN "poll" ELSE "relay")
    /\ StartSender({c} \ Inbound)
    /\ UNCHANGED <<node, gossip, kind, toSend, registered, wire, stopping, faults>>

\* sendMyAddress polls until there is an announcement, or a shutdown begins and
\* it is left with an empty message ...
GetAnnounce(c) ==
    /\ stage[c] = "poll"
    /\ \/ current # None /\ toSend' = [toSend EXCEPT ![c] = current]
       \/ stopping /\ UNCHANGED toSend
    /\ Goes(c, "write")
    /\ UNCHANGED <<node, gossip, kind, registered, queue, senders, wire, dropped, stopping,
                   faults, others>>

\* ... and writes what it has read, without the mutex.
SendMyAddress(c) ==
    /\ stage[c] = "write"
    /\ wire' = IF toSend[c] = None THEN wire
               ELSE [wire EXCEPT ![c] = Written(@, toSend[c])]
    /\ toSend' = [toSend EXCEPT ![c] = None]
    /\ Goes(c, IF kind[c] = "inbound" THEN "relay" ELSE "await")
    /\ StartSender({c} \cap Inbound)
    /\ UNCHANGED <<node, gossip, kind, registered, queue, dropped, stopping, faults, others>>

\* A message of a peer, or of a handler, or a record of another node drawn by
\* gossipRandomAddresses, goes to all peers, the one it came from included.
Relay ==
    /\ RelayOther
    /\ UNCHANGED <<node, gossip, stage, kind, toSend, registered, senders, wire, stopping,
                   faults>>

\* Slip: the sender runs from the moment the peer is registered.
SenderRunsAtOnce(c) == stage[c] # "closed"

\* sendToPeer is started when the addresses have been exchanged.
SenderRuns(c) == c \in senders

\* In a shutdown the select may still take a message, and then the loop ends.
SendToPeer(c) ==
    /\ SenderRuns(c)
    /\ queue[c] # <<>>
    /\ wire' = [wire EXCEPT ![c] = Written(@, Head(queue[c]))]
    /\ queue' = [queue EXCEPT ![c] = Tail(@)]
    /\ senders' = IF stopping THEN senders \ {c} ELSE senders
    /\ UNCHANGED <<node, gossip, stage, kind, toSend, registered, dropped, stopping,
                   faults, others>>

Close(c) ==
    /\ stage[c] \notin {"new", "closed"}
    /\ Goes(c, "closed")
    /\ registered' = registered \ {c}
    /\ queue' = [queue EXCEPT ![c] = <<>>]
    /\ toSend' = [toSend EXCEPT ![c] = None]
    /\ senders' = senders \ {c}
    /\ kind' = [kind EXCEPT ![c] = "none"]
    /\ wire' = [wire EXCEPT ![c] = NothingSent]
    /\ dropped' = dropped \ {c}
    /\ UNCHANGED <<node, gossip, stopping, faults, others>>

\* The governor cancels the context.
Cancel ==
    /\ ~stopping
    /\ version < MaxVersion
    /\ stopping' = TRUE
    /\ UNCHANGED <<node, gossip, peers, faults, others>>

-----------------------------------------------------------------------------

Announcing == SetAnnounce \/ ForwardAnnounce
Gossip == GossipRead \/ GossipForward

Next ==
    \/ Generate \/ Announcing \/ Gossip \/ Relay \/ Cancel
    \/ \E c \in Conns :
        \/ \E k \in Kinds : Connect(c, k)
        \/ ReceiveAddress(c) \/ Adopt(c) \/ Ingest(c)
        \/ GetAnnounce(c) \/ SendMyAddress(c) \/ SendToPeer(c) \/ Close(c)

Spec == Init /\ [][Next]_vars

\* Goroutines run; a peer reads what is sent to it, or the connection ends; a
\* random choice draws this node's own row again and again: all of it until a
\* shutdown.  Nothing is assumed of peers that connect, of their address, or of
\* what others send.
Fairness ==
    /\ WF_vars(~stopping /\ Announcing)
    /\ WF_vars(~stopping /\ GossipRead) /\ WF_vars(~stopping /\ GossipForward)
    /\ \A c \in Conns : WF_vars(~stopping /\ SendToPeer(c))

FairSpec == Spec /\ Fairness

-----------------------------------------------------------------------------
(* Safety.                                                                 *)

\* The first message on a connection is this node's announcement, on either
\* side: nothing that waits in the queue overtakes it, and it is never empty.
\* In a shutdown the wait for it ends without one, and a peer that is sent
\* none is sent nothing else either, whatever is in its queue.
FirstIsAnnouncement ==
    \A c \in Conns :
        /\ ~wire[c].otherFirst
        /\ stage[c] = "relay" => wire[c].heard # {} \/ stopping

\* Once the exchange is over, a peer has been told, or is about to be told, the
\* current announcement, although it changes at any point of the exchange and
\* is read and sent without a lock.  Not so a seed, which is registered after
\* it was sent the announcement, a peer whose queue was full, and in a shutdown
\* one that waited for an announcement when it began.
AnnouncementNotMissed ==
    \A c \in Conns :
        stage[c] = "relay" /\ kind[c] # "seed" /\ c \notin dropped /\ announcer # "forward"
        /\ ~stopping
            => current \in wire[c].heard \cup Range(queue[c])

\* The stages at which a connection sends, and those at which it is sent to,
\* are the ones of the exchange that the goroutines of NetService implement.
ExchangeStage ==
    [c \in Conns |-> CASE stage[c] \in {"poll", "write"} -> "announce"
                       [] stage[c] = "ingest" -> "verify"
                       [] OTHER -> stage[c]]

Exchange == INSTANCE PeerExchange WITH stage <- ExchangeStage
ExchangeSpec == Exchange!Spec

\* A peer that missed an announcement is told by gossip in the end, and none is
\* left with an older one: not by a queue that was full, a seed's late
\* registration, or gossip that was read before a change and sent after it.
PeersHearCurrent ==
    \A c \in Conns :
        <>[](stage[c] = "relay" /\ ownRow = current /\ ~stopping => wire[c].last = current)

=============================================================================
