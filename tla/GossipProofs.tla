---------------------------- MODULE GossipProofs ----------------------------
(***************************************************************************)
(* Proofs about the gossip of one node's record: its type invariant, and   *)
(* that no copy of the record outlives the days it is accepted plus the    *)
(* days it is stored - for every set of nodes, every graph of connections, *)
(* every capacity of the queues and every pair of periods.                 *)
(*                                                                         *)
(* RecordsAgeOut bounds the age of a stored version, but a row may be      *)
(* renewed on any day by a neighbour that has the same version.  What is   *)
(* inductive is the sum of the age and of the days the row has left, which *)
(* grows when a day passes and shrinks when the node trims: a node that    *)
(* has trimmed today is one day ahead (Aging).                             *)
(***************************************************************************)
EXTENDS Gossip, SequenceTheorems, TLAPS

Links == Nodes \X Nodes

\* Versions that are sent, or stored, have been signed.
QueuesKnown == \A link \in Links : queue[link] \in Seq(1..Newest)

RowsKnown == \A n \in Others : row[n] # NoRow => row[n].version \in 1..Newest

\* The latest day on which a row is stored, as an age of its version.
Aging ==
    \A n \in Others : row[n] # NoRow =>
        age[row[n].version] + row[n].left
            <= MaxAge + NodeDays + (IF n \in trimmed THEN 0 ELSE 1)

IInv == TypeOK /\ QueuesKnown /\ RowsKnown /\ Aging

-----------------------------------------------------------------------------
(* Queues.                                                                 *)

\* What TypeOK and QueuesKnown say of the queues, for a set of versions, of
\* connections and of queues.
QueuesOK(q, edges, n) ==
    /\ q \in [Links -> Seq(1..n)]
    /\ \A link \in Links : /\ Len(q[link]) <= QueueCap
                           /\ {link[1], link[2]} \notin edges => q[link] = <<>>

\* forwardToPeers appends to a queue that has room, on a connection.
LEMMA ForwardedOK ==
    ASSUME NEW m \in Nat, NEW q, QueuesOK(q, up, m), NEW n, NEW v \in 1..m
    PROVE  QueuesOK(Forwarded(q, n, v), up, m)
<1> DEFINE f == Forwarded(q, n, v)
<1>1. ASSUME NEW link \in Links
      PROVE  /\ f[link] \in Seq(1..m)
             /\ Len(f[link]) <= QueueCap
             /\ {link[1], link[2]} \notin up => f[link] = <<>>
  <2>1. q[link] \in Seq(1..m) /\ Len(q[link]) \in Nat /\ Len(q[link]) <= QueueCap
    BY LenProperties DEF QueuesOK
  <2>2. /\ Append(q[link], v) \in Seq(1..m)
        /\ Len(Append(q[link], v)) = Len(q[link]) + 1
    BY <2>1
  <2>3. CASE {link[1], link[2]} \in up /\ HasRoom(q[link]) /\ link[1] = n
    <3>1. f[link] = Append(q[link], v)
      BY <2>3 DEF Forwarded, Links
    <3>2. Len(q[link]) + 1 <= QueueCap
      BY <2>3, GossipAssumption DEF HasRoom
    <3> QED  BY <2>2, <2>3, <3>1, <3>2
  <2>4. CASE ~({link[1], link[2]} \in up /\ HasRoom(q[link]) /\ link[1] = n)
    <3>1. f[link] = q[link]
      BY <2>4 DEF Forwarded, Links
    <3> QED  BY <3>1 DEF QueuesOK
  <2> QED  BY <2>3, <2>4
<1>2. f = [link \in Links |-> f[link]]
  BY DEF Forwarded, Links
<1>3. QueuesOK(f, up, m)
  <2> HIDE DEF f
  <2> QED  BY <1>1, <1>2 DEF QueuesOK
<1> QED  BY <1>3

\* A message is taken off one queue.
LEMMA TakenOK ==
    ASSUME NEW m \in Nat, NEW q, QueuesOK(q, up, m), NEW link \in Links, q[link] # <<>>
    PROVE  /\ QueuesOK([q EXCEPT ![link] = Tail(q[link])], up, m)
           /\ Head(q[link]) \in 1..m
<1>1. q[link] \in Seq(1..m) /\ Len(q[link]) <= QueueCap
  BY DEF QueuesOK
<1>2. /\ Head(q[link]) \in 1..m /\ Tail(q[link]) \in Seq(1..m)
      /\ Len(q[link]) \in Nat /\ Len(Tail(q[link])) = Len(q[link]) - 1
  BY <1>1, HeadTailProperties, EmptySeq
<1>3. Len(Tail(q[link])) <= QueueCap
  BY <1>1, GossipAssumption
<1> QED  BY <1>2, <1>3 DEF QueuesOK

\* The queues of the connections that end are emptied.
LEMMA EmptiedOK ==
    ASSUME NEW m \in Nat, QueuesOK(queue, up, m),
           queue' = [link \in Links |-> queue'[link]],
           \A link \in Links :
                /\ queue'[link] \in {<<>>, queue[link]}
                /\ {link[1], link[2]} \notin up' /\ {link[1], link[2]} \in up
                        => queue'[link] = <<>>
    PROVE  QueuesOK(queue', up', m)
<1>1. <<>> \in Seq(1..m) /\ Len(<<>>) <= QueueCap
  BY GossipAssumption
<1>2. \A link \in Links : queue'[link] \in Seq(1..m) /\ Len(queue'[link]) <= QueueCap
  BY <1>1 DEF QueuesOK
<1> QED  BY <1>2 DEF QueuesOK

\* A connection that ends.
LEMMA HangOK ==
    ASSUME NEW m \in Nat, QueuesOK(queue, up, m), NEW e, Hang(e)
    PROVE  QueuesOK(queue', up', m)
<1>1. ASSUME NEW link \in Links
      PROVE  /\ queue'[link] \in {<<>>, queue[link]}
             /\ {link[1], link[2]} \notin up' /\ {link[1], link[2]} \in up
                    => queue'[link] = <<>>
  BY DEF Hang, Links
<1>2. queue' = [link \in Links |-> queue'[link]]
  BY DEF Hang, Links
<1> QED  BY <1>1, <1>2, EmptiedOK

\* A version more makes no difference to what is queued.
LEMMA MoreVersions ==
    ASSUME NEW m \in Nat, NEW q, QueuesOK(q, up, m)
    PROVE  QueuesOK(q, up, m + 1)
<1>1. \A link \in Links : q[link] \in Seq(1..(m + 1))
  BY DEF QueuesOK
<1> QED  BY <1>1 DEF QueuesOK

\* The queues, as the invariant has them.
LEMMA QueuesOfInvariant ==
    ASSUME IInv
    PROVE  Newest \in Nat /\ Newest <= MaxVersions /\ QueuesOK(queue, up, Newest)
<1>1. Newest \in Nat /\ Newest <= MaxVersions
  BY DEF IInv, TypeOK, Newest
<1> QED  BY <1>1 DEF IInv, TypeOK, QueuesKnown, QueuesOK, Links

\* What there is to show of a step, apart from the rows.
LEMMA InvariantOfQueues ==
    ASSUME alive' \in BOOLEAN,
           age' \in Seq(0..Ancient), Newest' <= MaxVersions,
           row' \in [Others -> Row \cup {NoRow}],
           trimmed' \subseteq Others, up' \subseteq Edges,
           QueuesOK(queue', up', Newest')
    PROVE  TypeOK' /\ QueuesKnown'
<1>1. Newest' \in Nat /\ MaxVersions \in Nat
  BY GossipAssumption DEF Newest
<1>2. 1..Newest' \subseteq Versions
  BY <1>1 DEF Versions
<1>3. \A link \in Links : queue'[link] \in Seq(Versions)
  BY <1>2, SeqMonotonic DEF QueuesOK
<1> QED  BY <1>3 DEF TypeOK, QueuesKnown, QueuesOK, Links, Newest

-----------------------------------------------------------------------------
(* Every step keeps the invariant.                                         *)

\* The record of a version that is known, and its age.
LEMMA KnownRow ==
    ASSUME IInv, NEW n \in Others, row[n] # NoRow
    PROVE  /\ row[n] \in Row /\ row[n].version \in 1..Newest /\ row[n].left \in 0..NodeDays
           /\ age[row[n].version] \in 0..Ancient
<1>1. row[n] \in Row /\ row[n].version \in 1..Newest
  BY DEF IInv, TypeOK, RowsKnown
<1>2. age[row[n].version] \in 0..Ancient
  BY <1>1, ElementOfSeq DEF IInv, TypeOK, Newest
<1> QED  BY <1>1, <1>2 DEF Row

\* A new announcement is of age 0 and goes to the peers of the origin; the
\* versions before it keep their ages.
LEMMA AnnounceKeeps ==
    ASSUME IInv, Announce
    PROVE  IInv'
<1> USE GossipAssumption DEF IInv, Announce
<1>1. /\ Newest \in Nat /\ Newest' = Newest + 1 /\ Newest' <= MaxVersions
      /\ age' \in Seq(0..Ancient)
      /\ \A v \in 1..Newest : age'[v] = age[v]
  <2>1. 0 \in 0..Ancient
    BY DEF Ancient
  <2> QED  BY <2>1 DEF TypeOK, Newest
<1>2. QueuesOK(queue', up', Newest')
  <2>1. QueuesOK(queue, up, Newest + 1) /\ Newest + 1 \in 1..(Newest + 1)
    BY MoreVersions, QueuesOfInvariant
  <2>2. QueuesOK(Forwarded(queue, Origin, Newest + 1), up, Newest + 1)
    BY <2>1, ForwardedOK
  <2> QED  BY <1>1, <2>2
<1>3. TypeOK' /\ QueuesKnown'
  BY <1>1, <1>2, InvariantOfQueues DEF TypeOK
<1>4. RowsKnown'
  BY <1>1 DEF RowsKnown
<1>5. Aging'
  BY <1>1, KnownRow DEF Aging
<1> QED  BY <1>3, <1>4, <1>5

\* gossipRandomAddresses sends a version that the node has.
LEMMA GossipFromKeeps ==
    ASSUME IInv, NEW n \in Nodes, GossipFrom(n)
    PROVE  IInv'
<1> USE DEF IInv, GossipFrom
<1>1. \E v \in 1..Newest : queue' = Forwarded(queue, n, v)
  <2>1. CASE n = Origin
    BY <2>1, QueuesOfInvariant
  <2>2. CASE n # Origin
    BY <2>2, KnownRow DEF Others
  <2> QED  BY <2>1, <2>2
<1>2. QueuesOK(queue', up', Newest')
  BY <1>1, ForwardedOK, QueuesOfInvariant DEF Newest
<1>3. TypeOK' /\ QueuesKnown'
  BY <1>2, InvariantOfQueues DEF TypeOK, Newest
<1>4. RowsKnown' /\ Aging'
  BY DEF RowsKnown, Aging, Newest
<1> QED  BY <1>3, <1>4

\* A message that is received is dropped, closes the connection, or is stored
\* and passed on; a row is written with a version young enough to be accepted.
LEMMA ReceiveKeeps ==
    ASSUME IInv, NEW a \in Nodes, NEW b \in Nodes, Receive(a, b)
    PROVE  IInv'
<1> DEFINE v    == Head(queue[<<a, b>>])
           rest == [queue EXCEPT ![<<a, b>>] = Tail(queue[<<a, b>>])]
<1>1. /\ Newest \in Nat /\ Newest <= MaxVersions /\ Newest' = Newest
      /\ QueuesOK(queue, up, Newest) /\ queue[<<a, b>>] # <<>> /\ <<a, b>> \in Links
  BY QueuesOfInvariant DEF Receive, Links, Newest
<1>2. QueuesOK(rest, up, Newest) /\ v \in 1..Newest
  BY <1>1, TakenOK
<1>3. UNCHANGED <<alive, age, trimmed>>
  BY DEF Receive
<1>4. \/ UNCHANGED <<row, up>> /\ queue' = rest
      \/ UNCHANGED row /\ Hang({a, b})
      \/ /\ b \in Others /\ Accepted(v)
         /\ row' = [row EXCEPT ![b] = [version |-> v, left |-> NodeDays]]
         /\ UNCHANGED up /\ queue' = Forwarded(rest, b, v)
  BY DEF Receive, Others
<1> HIDE DEF v, rest
<1>5. QueuesOK(queue', up', Newest') /\ up' \subseteq Edges
  <2>1. up \subseteq Edges
    BY DEF IInv, TypeOK
  <2>2. CASE UNCHANGED up /\ queue' \in {rest, Forwarded(rest, b, v)}
    BY <1>1, <1>2, <2>1, <2>2, ForwardedOK
  <2>3. CASE Hang({a, b})
    <3>1. up' \subseteq Edges
      BY <2>1, <2>3 DEF Hang
    <3> QED  BY <1>1, <2>3, <3>1, HangOK
  <2> QED  BY <1>4, <2>2, <2>3
<1>6. CASE UNCHANGED row
  <2>1. TypeOK' /\ QueuesKnown'
    BY <1>1, <1>3, <1>5, <1>6, InvariantOfQueues DEF IInv, TypeOK
  <2>2. RowsKnown' /\ Aging'
    BY <1>1, <1>3, <1>6 DEF IInv, RowsKnown, Aging
  <2> QED  BY <2>1, <2>2 DEF IInv
<1>7. CASE b \in Others /\ Accepted(v)
           /\ row' = [row EXCEPT ![b] = [version |-> v, left |-> NodeDays]]
  <2>1. [version |-> v, left |-> NodeDays] \in Row
    BY <1>1, <1>2, GossipAssumption DEF Row, Versions
  <2>2. row' \in [Others -> Row \cup {NoRow}] /\ row'[b] = [version |-> v, left |-> NodeDays]
        /\ \A n \in Others \ {b} : row'[n] = row[n]
    BY <1>7, <2>1 DEF IInv, TypeOK
  <2>3. TypeOK' /\ QueuesKnown'
    BY <1>1, <1>3, <1>5, <2>2, InvariantOfQueues DEF IInv, TypeOK
  <2>4. RowsKnown'
    BY <1>1, <1>2, <2>2 DEF IInv, RowsKnown
  <2>5. age[v] \in 0..Ancient /\ age[v] <= MaxAge
    BY <1>2, <1>7, ElementOfSeq DEF IInv, TypeOK, Newest, Accepted
  <2>6. age[v] + NodeDays <= MaxAge + NodeDays + (IF b \in trimmed THEN 0 ELSE 1)
    BY <2>5, GossipAssumption
  <2>7. Aging'
    BY <1>3, <2>2, <2>6 DEF IInv, Aging
  <2> QED  BY <2>3, <2>4, <2>7 DEF IInv
<1> QED  BY <1>4, <1>6, <1>7

\* A connection is made, or lost, or the origin takes all of its with it.
LEMMA ConnectionsKeep ==
    ASSUME IInv, (\E e \in Edges : Connect(e) \/ Disconnect(e)) \/ OriginLeaves
    PROVE  IInv'
<1> USE DEF IInv
<1>1. Newest \in Nat /\ Newest <= MaxVersions /\ QueuesOK(queue, up, Newest)
  BY QueuesOfInvariant
<1>2. /\ UNCHANGED <<age, row, trimmed>> /\ alive' \in BOOLEAN /\ up' \subseteq Edges
      /\ Newest' = Newest
  BY DEF Connect, Disconnect, Hang, OriginLeaves, TypeOK, Newest
<1>3. QueuesOK(queue', up', Newest)
  <2>1. ASSUME NEW e \in Edges, Connect(e)  PROVE QueuesOK(queue', up', Newest)
    <3>1. ASSUME NEW link \in Links
          PROVE  /\ queue'[link] \in Seq(1..Newest)
                 /\ Len(queue'[link]) <= QueueCap
                 /\ {link[1], link[2]} \notin up' => queue'[link] = <<>>
      <4>1. CASE {link[1], link[2]} = e /\ link[1] = Origin
        <5>1. Newest \in 1..Newest
          BY <1>1, <2>1, <4>1 DEF Connect
        <5>2. <<Newest>> \in Seq(1..Newest) /\ Len(<<Newest>>) = 1
          BY <5>1
        <5>3. queue'[link] = <<Newest>> /\ {link[1], link[2]} \in up'
          BY <2>1, <4>1 DEF Connect, Links
        <5> QED  BY <5>2, <5>3, GossipAssumption
      <4>2. CASE ~({link[1], link[2]} = e /\ link[1] = Origin)
        <5>1. queue'[link] = queue[link]
          BY <2>1, <4>2 DEF Connect, Links
        <5> QED  BY <1>1, <2>1, <5>1 DEF QueuesOK, Connect
      <4> QED  BY <4>1, <4>2
    <3>2. queue' = [link \in Links |-> queue'[link]]
      BY <2>1 DEF Connect, Links
    <3> QED  BY <3>1, <3>2 DEF QueuesOK
  <2>2. ASSUME NEW e \in Edges, Disconnect(e)  PROVE QueuesOK(queue', up', Newest)
    BY <1>1, <2>2, HangOK DEF Disconnect
  <2>3. CASE OriginLeaves
    <3>1. ASSUME NEW link \in Links
          PROVE  /\ queue'[link] \in {<<>>, queue[link]}
                 /\ {link[1], link[2]} \notin up' /\ {link[1], link[2]} \in up
                        => queue'[link] = <<>>
      BY <2>3 DEF OriginLeaves, Links
    <3>2. DOMAIN queue' = Links /\ queue' = [link \in Links |-> queue'[link]]
      BY <2>3 DEF OriginLeaves, Links
    <3> QED  BY <1>1, <3>1, <3>2, EmptiedOK
  <2> QED  BY <2>1, <2>2, <2>3
<1>4. TypeOK' /\ QueuesKnown'
  BY <1>1, <1>2, <1>3, InvariantOfQueues DEF TypeOK
<1>5. RowsKnown' /\ Aging'
  BY <1>2 DEF RowsKnown, Aging
<1> QED  BY <1>4, <1>5

\* A row loses a day on the day its node trims, or is deleted.
LEMMA TrimKeeps ==
    ASSUME IInv, NEW n \in Others, TrimNodes(n)
    PROVE  IInv'
<1> USE GossipAssumption DEF IInv, TrimNodes
<1>1. UNCHANGED <<alive, age, up, queue>> /\ Newest' = Newest /\ n \notin trimmed
      /\ trimmed' = trimmed \cup {n}
      /\ \A m \in Others \ {n} : row'[m] = row[m]
  BY DEF Newest
<1>2. \/ row'[n] = NoRow
      \/ /\ row[n] # NoRow /\ row'[n] \in Row
         /\ row'[n].version = row[n].version /\ row'[n].left = row[n].left - 1
  <2>1. row'[n] = IF row[n] = NoRow THEN NoRow ELSE Aged(row[n])
    BY DEF TypeOK
  <2>2. ASSUME row[n] # NoRow, row[n].left # 0
        PROVE  LET r == [row[n] EXCEPT !.left = row[n].left - 1]
               IN r \in Row /\ r.version = row[n].version /\ r.left = row[n].left - 1
    <3>1. row[n] \in Row /\ row[n].left - 1 \in 0..NodeDays
      BY <2>2, KnownRow
    <3> QED  BY <3>1 DEF Row
  <2> QED  BY <2>1, <2>2 DEF Aged
<1>3. row' \in [Others -> Row \cup {NoRow}]
  BY <1>2 DEF TypeOK
<1>4. TypeOK' /\ QueuesKnown'
  BY <1>1, <1>3, QueuesOfInvariant, InvariantOfQueues DEF TypeOK
<1>5. RowsKnown'
  BY <1>1, <1>2 DEF RowsKnown
<1>6. Aging'
  <2> SUFFICES ASSUME NEW m \in Others, row'[m] # NoRow
               PROVE  age[row'[m].version] + row'[m].left
                        <= MaxAge + NodeDays + (IF m \in trimmed' THEN 0 ELSE 1)
    BY DEF Aging
  <2>1. CASE m # n
    BY <2>1 DEF Aging
  <2>2. CASE m = n
    BY <1>2, KnownRow DEF Aging
  <2> QED  BY <2>1, <2>2
<1> QED  BY <1>4, <1>5, <1>6

\* A day passes when all have trimmed: every version is a day older, at most.
LEMMA DayPassesKeeps ==
    ASSUME IInv, DayPasses
    PROVE  IInv'
<1> USE GossipAssumption DEF IInv, DayPasses
<1>1. Newest \in Nat /\ Newest <= MaxVersions /\ QueuesOK(queue, up, Newest)
  BY QueuesOfInvariant
<1>2. \A v \in 1..Newest : /\ age[v] \in 0..Ancient
                           /\ (IF age[v] = Ancient THEN Ancient ELSE age[v] + 1) \in 0..Ancient
  <2>1. \A v \in 1..Newest : age[v] \in 0..Ancient
    BY ElementOfSeq DEF TypeOK, Newest
  <2>2. Ancient \in Nat
    BY DEF Ancient
  <2> QED  BY <2>1, <2>2
<1>3. /\ age' \in Seq(0..Ancient) /\ Newest' = Newest
      /\ \A v \in 1..Newest : age'[v] \in 0..Ancient /\ age'[v] <= age[v] + 1
  <2>1. age' \in [1..Newest -> 0..Ancient]
    BY <1>2
  <2>2. age' \in Seq(0..Ancient)
    BY <1>1, <2>1
  <2>3. Newest' = Newest
    BY DEF Newest
  <2>4. \A v \in 1..Newest : age'[v] \in 0..Ancient /\ age'[v] <= age[v] + 1
    BY <1>2
  <2> QED  BY <2>2, <2>3, <2>4
<1>4. TypeOK' /\ QueuesKnown'
  BY <1>1, <1>3, InvariantOfQueues DEF TypeOK
<1>5. RowsKnown'
  BY <1>3 DEF RowsKnown
<1>6. Aging'
  <2> SUFFICES ASSUME NEW n \in Others, row[n] # NoRow
               PROVE  age'[row[n].version] + row[n].left <= MaxAge + NodeDays + 1
    BY DEF Aging
  <2>1. age[row[n].version] + row[n].left <= MaxAge + NodeDays + 0
    BY DEF Aging
  <2> QED  BY <1>3, <2>1, KnownRow
<1> QED  BY <1>4, <1>5, <1>6

\* Every step keeps the inductive invariant.
LEMMA StepKeeps == IInv /\ [Next]_vars => IInv'
<1> SUFFICES ASSUME IInv, [Next]_vars  PROVE IInv'
  OBVIOUS
<1>1. CASE UNCHANGED vars
  BY <1>1 DEF vars, IInv, TypeOK, QueuesKnown, RowsKnown, Aging, Newest
<1> QED
  BY <1>1, AnnounceKeeps, GossipFromKeeps, ReceiveKeeps, ConnectionsKeep, TrimKeeps,
     DayPassesKeeps DEF Next

\* The invariant of every behaviour of the network.
THEOREM Invariance == Spec => []IInv
<1>1. Init => IInv
  <2> SUFFICES ASSUME Init  PROVE IInv
    OBVIOUS
  <2>1. age \in Seq(0..Ancient) /\ Len(age) <= MaxVersions
    BY GossipAssumption DEF Init
  <2>2. <<>> \in Seq(Versions) /\ <<>> \in Seq(1..Newest) /\ Len(<<>>) <= QueueCap
    BY GossipAssumption
  <2>3. TypeOK
    BY <2>1, <2>2 DEF Init, TypeOK
  <2>4. QueuesKnown /\ RowsKnown /\ Aging
    BY DEF Init, QueuesKnown, RowsKnown, Aging, Links
  <2> QED  BY <2>3, <2>4 DEF IInv
<1> QED  BY <1>1, StepKeeps, PTL DEF Spec

-----------------------------------------------------------------------------
(* The properties.                                                         *)

\* The stores, the connections and the queues of the network keep their types,
\* and a connection that is closed has nothing queued.
THEOREM TypeCorrect == Spec => []TypeOK
BY Invariance, PTL DEF IInv

\* A record that receiveFromPeer has accepted and AddNetNode has stored is gone
\* a day after the 30 days for which it is accepted and the 30 for which it is
\* stored, however often nodes send it to each other.
THEOREM RecordsAreForgotten == Spec => []RecordsAgeOut
<1>1. IInv => RecordsAgeOut
  <2> SUFFICES ASSUME IInv, NEW n \in Others, row[n] # NoRow
               PROVE  age[row[n].version] <= MaxAge + NodeDays + 1
    BY DEF RecordsAgeOut
  <2>1. age[row[n].version] + row[n].left
            <= MaxAge + NodeDays + (IF n \in trimmed THEN 0 ELSE 1)
    BY DEF IInv, Aging
  <2> QED  BY <2>1, KnownRow, GossipAssumption
<1> QED  BY <1>1, Invariance, PTL

=============================================================================
