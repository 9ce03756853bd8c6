------------------------------- MODULE Gossip -------------------------------
(***************************************************************************)
(* A network of nodes that run this program, and the record of one of      *)
(* them, the origin: how it spreads, is replaced, and is forgotten         *)
(* (ingestAddress and receiveFromPeer of internal/netsvc/peer.go;          *)
(* forwardToPeers and gossipRandomAddresses of service.go; AddNetNode and  *)
(* TrimNodes of internal/store/sqlite.go).                                 *)
(*                                                                         *)
(* The handshake of a connection, the store, and the sending of one node   *)
(* are those of NetService, StoreTxn and Delivery.  Time is in days; every *)
(* node runs, and trims its store, every day.                              *)
(***************************************************************************)
EXTENDS Naturals, Sequences

CONSTANTS
    Nodes,       \* the nodes
    Origin,      \* the node whose record is followed
    Edges,       \* pairs of nodes that connect to each other
    NoRow,       \* a node has no record of the origin
    MaxAge,      \* days for which a record is accepted (30)
    NodeDays,    \* days for which a record is stored after receipt (30)
    QueueCap,    \* capacity of a send queue (100)
    MaxVersions  \* bound: announcements of the origin

ASSUME GossipAssumption ==
    /\ Origin \in Nodes
    /\ \A e \in Edges : \E a, b \in Nodes : a # b /\ e = {a, b}
    /\ {MaxAge, NodeDays, MaxVersions} \subseteq Nat
    /\ QueueCap \in Nat \ {0}

Versions == 1..MaxVersions

\* left: the times the row survives TrimNodes.
Row == [version : Versions, left : 0..NodeDays]

ASSUME NoRowAssumption == NoRow \notin Row

\* Bound: records are not told apart by their age beyond this.
Ancient == MaxAge + NodeDays + 2

VARIABLES
    alive,     \* the origin runs
    age,       \* days since each version was signed, in the order of signing
    row,       \* what the other nodes store
    trimmed,   \* nodes that have run TrimNodes today
    up,        \* edges that are connected
    queue      \* messages from one node to another

vars == <<alive, age, row, trimmed, up, queue>>

Others == Nodes \ {Origin}

TypeOK ==
    /\ alive \in BOOLEAN
    /\ age \in Seq(0..Ancient) /\ Len(age) <= MaxVersions
    /\ row \in [Others -> Row \cup {NoRow}]
    /\ trimmed \subseteq Others
    /\ up \subseteq Edges
    /\ queue \in [Nodes \X Nodes -> Seq(Versions)]
    /\ \A link \in Nodes \X Nodes :
        /\ Len(queue[link]) <= QueueCap
        /\ {link[1], link[2]} \notin up => queue[link] = <<>>

Init ==
    /\ alive = TRUE
    /\ age = <<>>
    /\ row = [n \in Others |-> NoRow]
    /\ trimmed = {}
    /\ up = {}
    /\ queue = [link \in Nodes \X Nodes |-> <<>>]

Newest == Len(age)

-----------------------------------------------------------------------------

\* Slip: a send that does not look for room.
HasRoomAlways(queued) == TRUE

HasRoom(queued) == Len(queued) < QueueCap

\* forwardToPeers of node n, over the queues q.
Forwarded(q, n, v) ==
    [link \in Nodes \X Nodes |->
        IF link[1] = n /\ {link[1], link[2]} \in up /\ HasRoom(q[link])
        THEN Append(q[link], v) ELSE q[link]]

\* The origin signs a new announcement.
Announce ==
    /\ alive
    /\ Newest < MaxVersions
    /\ age' = Append(age, 0)
    /\ queue' = Forwarded(queue, Origin, Newest + 1)
    /\ UNCHANGED <<alive, row, trimmed, up>>

\* gossipRandomAddresses draws the record of the origin: on the origin itself,
\* or on a node that stores it.
GossipFrom(n) ==
    /\ IF n = Origin
       THEN alive /\ Newest > 0 /\ queue' = Forwarded(queue, n, Newest)
       ELSE row[n] # NoRow /\ queue' = Forwarded(queue, n, row[n].version)
    /\ UNCHANGED <<alive, age, row, trimmed, up>>

Hang(e) ==
    /\ up' = up \ {e}
    /\ queue' = [link \in Nodes \X Nodes |->
                    IF {link[1], link[2]} = e THEN <<>> ELSE queue[link]]

\* Slip: the timestamp is not checked.
AcceptedAlways(v) == TRUE

Accepted(v) == age[v] <= MaxAge

\* Node b takes a message of node a.  It ignores a record of its own, closes the
\* connection on one that is too old, and stores and forwards - also back to a -
\* one that differs from what it has, whether newer or older.
Receive(a, b) ==
    LET v    == Head(queue[<<a, b>>])
        rest == [queue EXCEPT ![<<a, b>>] = Tail(@)]
    IN /\ queue[<<a, b>>] # <<>>
       /\ \/ /\ b = Origin
             /\ queue' = rest
             /\ UNCHANGED <<row, up>>
          \/ /\ b # Origin
             /\ ~Accepted(v)
             /\ Hang({a, b})
             /\ UNCHANGED row
          \/ /\ b # Origin
             /\ Accepted(v)
             /\ row[b] # NoRow /\ row[b].version = v
             /\ queue' = rest
             /\ UNCHANGED <<row, up>>
          \/ /\ b # Origin
             /\ Accepted(v)
             /\ row[b] # NoRow => row[b].version # v
             /\ row' = [row EXCEPT ![b] = [version |-> v, left |-> NodeDays]]
             /\ queue' = Forwarded(rest, b, v)
             /\ UNCHANGED up
       /\ UNCHANGED <<alive, age, trimmed>>

\* A connection is made; the origin sends its announcement on it.
Connect(e) ==
    /\ e \notin up
    /\ Origin \in e => alive /\ Newest > 0
    /\ up' = up \cup {e}
    /\ queue' = [link \in Nodes \X Nodes |->
                    IF {link[1], link[2]} = e /\ link[1] = Origin THEN <<Newest>>
                    ELSE queue[link]]
    /\ UNCHANGED <<alive, age, row, trimmed>>

\* A connection is lost, and with it what was under way.
Disconnect(e) ==
    /\ e \in up
    /\ Hang(e)
    /\ UNCHANGED <<alive, age, row, trimmed>>

OriginLeaves ==
    /\ alive
    /\ alive' = FALSE
    /\ up' = {e \in up : Origin \notin e}
    /\ queue' = [link \in Nodes \X Nodes |->
                    IF Origin \in {link[1], link[2]} THEN <<>> ELSE queue[link]]
    /\ UNCHANGED <<age, row, trimmed>>

\* Slip: a row is counted down and not deleted.
CountedDown(r) == IF r.left = 0 THEN r ELSE [r EXCEPT !.left = @ - 1]

\* A row after the day count has advanced, which passes that of the row
\* NodeDays + 1 times after it was written.
Aged(r) == IF r.left = 0 THEN NoRow ELSE [r EXCEPT !.left = @ - 1]

TrimNodes(n) ==
    /\ n \notin trimmed
    /\ trimmed' = trimmed \cup {n}
    /\ row' = [row EXCEPT ![n] = IF @ = NoRow THEN NoRow ELSE Aged(@)]
    /\ UNCHANGED <<alive, age, up, queue>>

DayPasses ==
    /\ trimmed = Others
    /\ trimmed' = {}
    /\ age' = [v \in 1..Newest |-> IF age[v] = Ancient THEN Ancient ELSE age[v] + 1]
    /\ UNCHANGED <<alive, row, up, queue>>

-----------------------------------------------------------------------------

Next ==
    \/ Announce \/ OriginLeaves \/ DayPasses
    \/ \E n \in Nodes : GossipFrom(n)
    \/ \E n \in Others : TrimNodes(n)
    \/ \E a, b \in Nodes : Receive(a, b)
    \/ \E e \in Edges : Connect(e) \/ Disconnect(e)

Spec == Init /\ [][Next]_vars

\* Days pass, and every node trims its store every day.  Nothing is assumed of
\* connections and messages.
Fairness == WF_vars(DayPasses) /\ \A n \in Others : WF_vars(TrimNodes(n))

FairSpec == Spec /\ Fairness

-----------------------------------------------------------------------------

\* No copy of a record outlives the days it is accepted plus the days it is
\* stored: nodes that send it to each other, forget it, and learn it again, do
\* not keep a node that has left known for ever.
RecordsAgeOut ==
    \A n \in Others : row[n] # NoRow => age[row[n].version] <= MaxAge + NodeDays + 1

\* A node that has left is forgotten, by all and for good.
LeftNodeIsForgotten == ~alive ~> [](\A n \in Others : row[n] = NoRow)

=============================================================================
