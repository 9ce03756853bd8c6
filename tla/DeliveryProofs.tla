--------------------------- MODULE DeliveryProofs ---------------------------
(***************************************************************************)
(* Proofs about the delivery of this node's announcement: its type         *)
(* invariant and its two safety invariants, for every number of            *)
(* connections, every capacity of the send queues, and any number of       *)
(* announcements, failing transactions and messages of others; and that    *)
(* its connections go through the stages of PeerExchange.                  *)
(*                                                                         *)
(* AnnouncementNotMissed speaks of connections whose exchange is over.  To *)
(* be inductive it must follow a connection through the exchange: from the *)
(* moment the announcement is read, what has been read counts as told      *)
(* (TellsCurrent).  It holds because a connection that has read an         *)
(* announcement is registered by then (RegisteredOK), unless it is a seed, *)
(* and because SetAnnounce comes before the announcement is forwarded      *)
(* (AnnouncerOK): one of the two finds the connection.                     *)
(*                                                                         *)
(* In a shutdown a connection may be done without an announcement; that    *)
(* nothing else overtakes it then rests on senders: a sender in its loop   *)
(* has come after the announcement (ToldOK).                               *)
(***************************************************************************)
EXTENDS Delivery, SequenceTheorems, TLAPS

\* What is in a queue, and what has been written to a connection.
Message == Versions \cup {Other}

Wire == [last : Versions \cup {None}, heard : SUBSET Versions, otherFirst : BOOLEAN]

\* The stages at which a connection is registered, by who made it.
RegisteredStages(k) ==
    CASE k = "none"    -> {}
      [] k = "known"   -> {"poll", "write", "await", "ingest", "relay"}
      [] k = "seed"    -> {"ingest", "relay"}
      [] k = "inbound" -> {"ingest", "poll", "write", "relay"}

\* ns.connectedPeers has the connections at these stages, and only they have
\* anything in their queue.
RegisteredOK ==
    \A c \in Conns :
        /\ kind[c] = "none" <=> stage[c] \in {"new", "closed"}
        /\ c \in registered <=> stage[c] \in RegisteredStages(kind[c])
        /\ kind[c] = "known" => stage[c] # "adopt"
        /\ c \notin registered => queue[c] = <<>>

\* Connections that are past sendMyAddress.
Told(c) ==
    stage[c] = "relay" \/ (kind[c] # "inbound" /\ stage[c] \in {"await", "adopt", "ingest"})

\* An announcement has been written to these, and one is ready to be written
\* to those that are about to, unless a shutdown came before it; and then their
\* sender does not enter its loop.
ToldOK ==
    \A c \in Conns :
        /\ Told(c) => wire[c].heard # {} \/ stopping
        /\ stage[c] = "write" => toSend[c] # None \/ stopping
        /\ c \in senders => stage[c] = "relay" /\ wire[c].heard # {}

\* ReceiveAnnounce forwards what it has set.
AnnouncerOK ==
    /\ announcer # "idle" => version # None
    /\ announcer # "set" => current = version

\* What a connection has been told, or is about to be.
Hears(c) ==
    wire[c].heard \cup Range(queue[c]) \cup (IF stage[c] = "write" THEN {toSend[c]} ELSE {})

\* From the moment it has read the announcement, a connection other than a
\* seed hears the current one.
TellsCurrent ==
    \A c \in Conns :
        /\ kind[c] # "seed"
        /\ stage[c] = "write" \/ Told(c)
        /\ c \notin dropped
        /\ announcer # "forward"
        /\ ~stopping
        => current \in Hears(c)

IInv == TypeOK /\ RegisteredOK /\ ToldOK /\ AnnouncerOK /\ FirstIsAnnouncement /\ TellsCurrent

-----------------------------------------------------------------------------
(* Queues and wires.                                                       *)

\* An appended element is in the range of a sequence, with those that were.
LEMMA RangeOfAppend ==
    ASSUME NEW S, NEW seq \in Seq(S), NEW m \in S
    PROVE  Range(Append(seq, m)) = Range(seq) \cup {m}
<1> DEFINE longer == Append(seq, m)
<1>1. /\ longer \in Seq(S) /\ Len(longer) = Len(seq) + 1 /\ Len(seq) \in Nat
      /\ \A i \in 1..Len(seq) : longer[i] = seq[i]
      /\ longer[Len(seq) + 1] = m
  OBVIOUS
<1>2. /\ Range(longer) = {longer[i] : i \in 1..Len(longer)}
      /\ Range(seq) = {seq[i] : i \in 1..Len(seq)}
  BY <1>1, RangeEquality
<1>3. Range(longer) = Range(seq) \cup {m}
  <2> HIDE DEF longer
  <2>1. ASSUME NEW x \in Range(longer)  PROVE x \in Range(seq) \cup {m}
    BY <1>1, <1>2
  <2>2. ASSUME NEW x \in Range(seq) \cup {m}  PROVE x \in Range(longer)
    BY <1>1, <1>2
  <2> QED  BY <2>1, <2>2
<1> QED  BY <1>3

\* A sequence has its head and what is in its tail.
LEMMA RangeOfTail ==
    ASSUME NEW S, NEW seq \in Seq(S), seq # <<>>
    PROVE  Range(seq) = {Head(seq)} \cup Range(Tail(seq))
<1>1. /\ Tail(seq) \in Seq(S) /\ Len(seq) \in Nat \ {0} /\ Len(Tail(seq)) = Len(seq) - 1
      /\ Head(seq) = seq[1]
      /\ \A i \in 1..Len(Tail(seq)) : Tail(seq)[i] = seq[i + 1]
  OBVIOUS
<1>2. /\ Range(seq) = {seq[i] : i \in 1..Len(seq)}
      /\ Range(Tail(seq)) = {Tail(seq)[i] : i \in 1..Len(Tail(seq))}
  BY <1>1, RangeEquality
<1>3. \A i \in 2..Len(seq) : i - 1 \in 1..Len(Tail(seq)) /\ Tail(seq)[i - 1] = seq[i]
  OBVIOUS
<1>4. ASSUME NEW x \in Range(seq)  PROVE x \in {Head(seq)} \cup Range(Tail(seq))
  <2>1. PICK i \in 1..Len(seq) : x = seq[i]
    BY <1>2
  <2>2. CASE i = 1
    BY <2>1, <2>2
  <2>3. CASE i \in 2..Len(seq)
    BY <1>2, <1>3, <2>1, <2>3
  <2> QED  BY <2>2, <2>3
<1>5. ASSUME NEW x \in {Head(seq)} \cup Range(Tail(seq))  PROVE x \in Range(seq)
  BY <1>2
<1> QED  BY <1>4, <1>5

\* forwardToPeers drops the message for a peer whose queue is full, and for
\* every other registered peer the message joins those that wait.
LEMMA ForwardToPeersEffect ==
    ASSUME TypeOK, RegisteredOK, NEW m \in Message, ForwardToPeers(m)
    PROVE  /\ queue' \in [Conns -> Seq(Message)]
           /\ dropped \subseteq dropped' /\ dropped' \subseteq Conns
           /\ \A c \in Conns :
                /\ Len(queue'[c]) <= QueueCap
                /\ Range(queue[c]) \subseteq Range(queue'[c])
                /\ c \notin registered => queue'[c] = <<>>
                /\ c \in registered /\ m # Other /\ c \notin dropped'
                        => m \in Range(queue'[c])
<1> DEFINE room == {c \in registered : Len(queue[c]) < QueueCap}
<1>1. /\ queue' = [c \in Conns |-> IF c \in room THEN Append(queue[c], m) ELSE queue[c]]
      /\ dropped' = IF m = Other THEN dropped ELSE dropped \cup (registered \ room)
  BY DEF ForwardToPeers, Addressees, HasRoom
<1>2. \A c \in Conns : queue[c] \in Seq(Message) /\ Len(queue[c]) \in Nat
  BY DEF TypeOK, Message
<1>3. \A c \in Conns :
        /\ Append(queue[c], m) \in Seq(Message)
        /\ Len(Append(queue[c], m)) = Len(queue[c]) + 1
  BY <1>2
<1>4. \A c \in Conns : Range(Append(queue[c], m)) = Range(queue[c]) \cup {m}
  BY <1>2, RangeOfAppend
<1>5. queue' \in [Conns -> Seq(Message)]
  BY <1>1, <1>3
<1>6. dropped \subseteq dropped' /\ dropped' \subseteq Conns
  BY <1>1 DEF TypeOK
<1>7. ASSUME NEW c \in Conns
      PROVE  /\ Len(queue'[c]) <= QueueCap
             /\ Range(queue[c]) \subseteq Range(queue'[c])
             /\ c \notin registered => queue'[c] = <<>>
             /\ c \in registered /\ m # Other /\ c \notin dropped' => m \in Range(queue'[c])
  <2>1. CASE c \in room
    <3>1. queue'[c] = Append(queue[c], m)
      BY <1>1, <2>1
    <3>2. Len(queue[c]) < QueueCap /\ c \in registered
      BY <2>1
    <3>3. Len(queue[c]) + 1 <= QueueCap
      BY <3>2, DeliveryAssumption
    <3>4. Len(queue'[c]) <= QueueCap
      BY <3>1, <3>3
    <3> QED  BY <3>1, <3>2, <3>4, <1>4
  <2>2. CASE c \notin room
    <3>1. queue'[c] = queue[c]
      BY <1>1, <2>2
    <3>2. Len(queue[c]) <= QueueCap /\ (c \notin registered => queue[c] = <<>>)
      BY DEF TypeOK, RegisteredOK
    <3>3. c \in registered /\ m # Other => c \in dropped'
      BY <1>1, <2>2
    <3> QED  BY <3>1, <3>2, <3>3
  <2> QED  BY <2>1, <2>2
<1> QED  BY <1>5, <1>6, <1>7

\* The same of a message of somebody else, or none.
LEMMA RelayOtherEffect ==
    ASSUME TypeOK, RegisteredOK, RelayOther
    PROVE  /\ queue' \in [Conns -> Seq(Message)]
           /\ dropped \subseteq dropped' /\ dropped' \subseteq Conns
           /\ others' \in 0..MaxOthers
           /\ \A c \in Conns :
                /\ Len(queue'[c]) <= QueueCap
                /\ Range(queue[c]) \subseteq Range(queue'[c])
                /\ c \notin registered => queue'[c] = <<>>
<1>1. CASE ForwardToPeers(Other) /\ others < MaxOthers /\ others' = others + 1
  <2>1. Other \in Message
    BY DEF Message
  <2> QED  BY <1>1, <2>1, ForwardToPeersEffect, DeliveryAssumption DEF TypeOK
<1>2. CASE UNCHANGED <<others, queue, dropped>>
  BY <1>2 DEF TypeOK, RegisteredOK, Message
<1> QED  BY <1>1, <1>2 DEF RelayOther

\* An announcement that is written is heard, and none is heard before another
\* message is written.
LEMMA WrittenEffect ==
    ASSUME NEW w \in Wire, NEW m \in Message
    PROVE  /\ Written(w, m) \in Wire
           /\ w.heard \subseteq Written(w, m).heard
           /\ m # Other => m \in Written(w, m).heard
           /\ ~w.otherFirst /\ (m # Other \/ w.heard # {}) => ~Written(w, m).otherFirst
<1>1. CASE m = Other
  <2>1. Written(w, m) = [w EXCEPT !.otherFirst = w.otherFirst \/ w.heard = {}]
    BY <1>1 DEF Written
  <2>2. [w EXCEPT !.otherFirst = w.otherFirst \/ w.heard = {}] \in Wire
    BY DEF Wire
  <2>3. /\ Written(w, m).heard = w.heard
        /\ Written(w, m).otherFirst = (w.otherFirst \/ w.heard = {})
    BY <2>1
  <2> QED  BY <1>1, <2>1, <2>2, <2>3
<1>2. CASE m # Other
  <2>1. Written(w, m) = [w EXCEPT !.last = m, !.heard = w.heard \cup {m}]
    BY <1>2 DEF Written
  <2>2. m \in Versions
    BY <1>2 DEF Message
  <2>3. [w EXCEPT !.last = m, !.heard = w.heard \cup {m}] \in Wire
    BY <2>2 DEF Wire
  <2> QED  BY <2>1, <2>3
<1> QED  BY <1>1, <1>2

-----------------------------------------------------------------------------
(* Every step keeps the invariant.                                         *)

\* A new announcement, which no peer owes until it is set and forwarded, what
\* gossip reads, and the beginning of a shutdown.
LEMMA GenerateKeeps ==
    ASSUME IInv, Generate \/ SetAnnounce \/ GossipRead \/ Cancel
    PROVE  IInv'
<1> USE DeliveryAssumption DEF IInv, Kinds, Generate, SetAnnounce, GossipRead, Drawn,
    Cancel, node, peers
<1>1. TypeOK'
  <2>1. CASE Generate
    <3>1. version' \in Versions /\ ownRow' \in Versions \cup {None} /\ faults' \in 0..MaxFaults
      BY <2>1 DEF TypeOK, Versions, None
    <3> QED  BY <3>1 DEF TypeOK
  <2>2. CASE SetAnnounce \/ GossipRead \/ Cancel
    BY <2>2 DEF TypeOK
  <2> QED  BY <2>1, <2>2
<1>2. RegisteredOK' /\ ToldOK' /\ FirstIsAnnouncement'
  BY DEF RegisteredOK, ToldOK, Told, FirstIsAnnouncement
<1>3. AnnouncerOK'
  BY DEF TypeOK, AnnouncerOK, Versions, None
<1>4. TellsCurrent'
  BY DEF TellsCurrent, Told, Hears
<1> QED  BY <1>1, <1>2, <1>3, <1>4

\* The second half of ReceiveAnnounce: whoever was to hear the announcement and
\* has not read it is registered, and finds it in the queue or a full queue.
LEMMA ForwardAnnounceKeeps ==
    ASSUME IInv, ForwardAnnounce
    PROVE  IInv'
<1> USE DEF IInv, Kinds, ForwardAnnounce
<1>1. version \in Message /\ version # Other /\ current = version
  BY OtherAssumption DEF TypeOK, AnnouncerOK, Message
<1>2. /\ queue' \in [Conns -> Seq(Message)]
      /\ dropped \subseteq dropped' /\ dropped' \subseteq Conns
      /\ \A c \in Conns : /\ Len(queue'[c]) <= QueueCap
                          /\ Range(queue[c]) \subseteq Range(queue'[c])
                          /\ c \notin registered => queue'[c] = <<>>
                          /\ c \in registered /\ c \notin dropped' => version \in Range(queue'[c])
  BY <1>1, ForwardToPeersEffect
<1>3. TypeOK'
  BY <1>2 DEF TypeOK, Message
<1>4. RegisteredOK'
  BY <1>2 DEF RegisteredOK
<1>5. ToldOK' /\ AnnouncerOK' /\ FirstIsAnnouncement'
  BY DEF ToldOK, Told, AnnouncerOK, FirstIsAnnouncement
<1>6. TellsCurrent'
  <2> SUFFICES ASSUME NEW c \in Conns, kind[c] # "seed", stage[c] = "write" \/ Told(c),
                      c \notin dropped', ~stopping
               PROVE  version \in Hears(c)'
    BY <1>1 DEF TellsCurrent, Told
  <2>1. c \in registered
    BY DEF RegisteredOK, RegisteredStages, Told, TypeOK
  <2> QED  BY <1>2, <2>1 DEF Hears
<1> QED  BY <1>3, <1>4, <1>5, <1>6

\* What others send, and what gossip drew, joins the queues and takes nothing
\* from them.
LEMMA RelayKeeps ==
    ASSUME IInv, GossipForward \/ Relay \/ \E c \in Conns : Ingest(c)
    PROVE  IInv'
<1> USE DEF IInv, Kinds, GossipForward, Relay, Ingest, StartSender, Inbound, Goes, node
<1>1. /\ queue' \in [Conns -> Seq(Message)]
      /\ dropped \subseteq dropped' /\ dropped' \subseteq Conns
      /\ others' \in 0..MaxOthers
      /\ \A c \in Conns : /\ Len(queue'[c]) <= QueueCap
                          /\ Range(queue[c]) \subseteq Range(queue'[c])
                          /\ c \notin registered => queue'[c] = <<>>
  <2>1. CASE GossipForward
    <3>1. gossip \in Message
      BY <2>1 DEF TypeOK, Message
    <3> QED  BY <2>1, <3>1, ForwardToPeersEffect DEF TypeOK
  <2>2. CASE RelayOther
    BY <2>2, RelayOtherEffect
  <2> QED  BY <2>1, <2>2
<1>2. UNCHANGED <<version, current, announcer, kind, toSend, registered, wire, stopping>>
  OBVIOUS
<1>3. CASE UNCHANGED <<stage, senders>>
  <2>1. TypeOK'
    BY <1>1, <1>3 DEF TypeOK, Message
  <2>2. RegisteredOK' /\ ToldOK' /\ AnnouncerOK' /\ FirstIsAnnouncement'
    BY <1>1, <1>3 DEF RegisteredOK, ToldOK, Told, AnnouncerOK, FirstIsAnnouncement
  <2>3. TellsCurrent'
    BY <1>1, <1>3 DEF TellsCurrent, Told, Hears
  <2> QED  BY <2>1, <2>2, <2>3
<1>4. ASSUME NEW c \in Conns, Ingest(c)  PROVE IInv'
  <2>1. /\ stage[c] = "ingest"
        /\ stage' = [stage EXCEPT ![c] = IF kind[c] = "inbound" THEN "poll" ELSE "relay"]
    BY <1>4
  <2>2. TypeOK'
    BY <1>1, <1>4 DEF TypeOK, Message
  <2>3. RegisteredOK'
    BY <1>1 DEF TypeOK, RegisteredOK, RegisteredStages
  <2>4. ToldOK'
    BY <1>4 DEF TypeOK, ToldOK, Told
  <2>5. AnnouncerOK' /\ FirstIsAnnouncement'
    BY <1>2, <2>1 DEF AnnouncerOK, FirstIsAnnouncement, ToldOK, Told
  <2>6. TellsCurrent'
    BY <1>1, <1>2, <2>1 DEF TellsCurrent, Told, Hears
  <2> QED  BY <2>2, <2>3, <2>4, <2>5, <2>6
<1> QED  BY <1>3, <1>4

\* The stages of the exchange at which nothing is written: an announcement that
\* is read is the current one.
LEMMA ExchangeKeeps ==
    ASSUME IInv, NEW c \in Conns,
           (\E k \in Kinds : Connect(c, k)) \/ ReceiveAddress(c) \/ Adopt(c) \/ GetAnnounce(c)
    PROVE  IInv'
<1>1. TypeOK'
  <2>1. CASE \E k \in Kinds : Connect(c, k)
    BY <2>1 DEF IInv, TypeOK, Connect, FirstStage, Register, Goes, node
  <2>2. CASE ReceiveAddress(c)
    BY <2>2 DEF IInv, TypeOK, ReceiveAddress, Goes, node
  <2>3. CASE Adopt(c)
    BY <2>3 DEF IInv, TypeOK, Adopt, Register, Goes, node
  <2>4. CASE GetAnnounce(c)
    BY <2>4 DEF IInv, TypeOK, GetAnnounce, Goes, node
  <2> QED  BY <2>1, <2>2, <2>3, <2>4
<1> USE DEF IInv, Connect, FirstStage, Kinds, ReceiveAddress, Adopt, GetAnnounce, Register,
    Goes, node
<1>2. RegisteredOK'
  <2>1. \A d \in Conns \ {c} :
            /\ stage'[d] = stage[d] /\ kind'[d] = kind[d]
            /\ d \in registered' <=> d \in registered
    BY DEF TypeOK
  <2>2. /\ kind'[c] = "none" <=> stage'[c] \in {"new", "closed"}
        /\ c \in registered' <=> stage'[c] \in RegisteredStages(kind'[c])
        /\ kind'[c] = "known" => stage'[c] # "adopt"
        /\ c \notin registered' => c \notin registered
    <3>1. ASSUME NEW k \in Kinds, Connect(c, k)
          PROVE  /\ stage[c] = "new" /\ kind'[c] = k /\ c \notin registered
                 /\ stage'[c] = IF k = "inbound" THEN "await" ELSE "poll"
                 /\ c \in registered' <=> k = "known"
      BY <3>1 DEF TypeOK, RegisteredOK, RegisteredStages
    <3>2. CASE UNCHANGED kind /\ (ReceiveAddress(c) \/ Adopt(c) \/ GetAnnounce(c))
      BY <3>2 DEF TypeOK, RegisteredOK, RegisteredStages
    <3> QED  BY <3>1, <3>2 DEF RegisteredStages
  <2> QED  BY <2>1, <2>2 DEF RegisteredOK
<1>3. ToldOK'
  BY DEF TypeOK, ToldOK, Told
<1>4. AnnouncerOK' /\ FirstIsAnnouncement'
  BY DEF TypeOK, AnnouncerOK, FirstIsAnnouncement
<1>5. TellsCurrent'
  BY DEF TypeOK, TellsCurrent, Told, Hears
<1> QED  BY <1>1, <1>2, <1>3, <1>4, <1>5

\* sendMyAddress writes what it has read, and it is heard.
LEMMA SendMyAddressKeeps ==
    ASSUME IInv, NEW c \in Conns, SendMyAddress(c)
    PROVE  IInv'
<1> USE DEF IInv, Kinds, SendMyAddress, StartSender, Inbound, Goes, node
<1>1. /\ stage[c] = "write" /\ toSend[c] \in Versions \cup {None}
      /\ toSend[c] # None \/ stopping
      /\ wire[c] \in Wire /\ ~wire[c].otherFirst
  BY DEF TypeOK, ToldOK, FirstIsAnnouncement, Wire
<1>2. /\ wire'[c] \in Wire
      /\ wire[c].heard \subseteq wire'[c].heard
      /\ toSend[c] # None => toSend[c] \in wire'[c].heard
      /\ ~wire'[c].otherFirst
  <2>1. CASE toSend[c] = None
    BY <1>1, <2>1
  <2>2. CASE toSend[c] # None
    <3>1. toSend[c] \in Message /\ toSend[c] # Other
      BY <1>1, <2>2, OtherAssumption DEF Message
    <3>2. wire'[c] = Written(wire[c], toSend[c])
      BY <2>2 DEF TypeOK
    <3> QED  BY <1>1, <3>1, <3>2, WrittenEffect
  <2> QED  BY <2>1, <2>2
<1>3. wire' \in [Conns -> Wire] /\ \A d \in Conns \ {c} : wire'[d] = wire[d]
  BY <1>2 DEF TypeOK, Wire
<1>4. TypeOK'
  BY <1>3 DEF TypeOK, Wire
<1>5. RegisteredOK'
  BY DEF TypeOK, RegisteredOK, RegisteredStages
<1>6. ToldOK'
  <2> SUFFICES ASSUME NEW d \in Conns
               PROVE  /\ Told(d)' => wire'[d].heard # {} \/ stopping'
                      /\ stage'[d] = "write" => toSend'[d] # None \/ stopping'
                      /\ d \in senders' => stage'[d] = "relay" /\ wire'[d].heard # {}
    BY DEF ToldOK
  <2>1. CASE d = c
    BY <1>2, <2>1 DEF TypeOK, ToldOK
  <2>2. CASE d # c
    BY <2>2 DEF ToldOK, Told
  <2> QED  BY <2>1, <2>2
<1>7. AnnouncerOK' /\ FirstIsAnnouncement'
  BY <1>1, <1>2 DEF AnnouncerOK, FirstIsAnnouncement
<1>8. TellsCurrent'
  BY <1>1, <1>2 DEF TellsCurrent, Told, Hears
<1> QED  BY <1>4, <1>5, <1>6, <1>7, <1>8

\* sendToPeer moves a message from the queue to the wire, on which there is an
\* announcement already.
LEMMA SendToPeerKeeps ==
    ASSUME IInv, NEW c \in Conns, SendToPeer(c)
    PROVE  IInv'
<1> USE DEF IInv, Kinds, SendToPeer, SenderRuns, node
<1> DEFINE m == Head(queue[c])
<1>1. /\ stage[c] = "relay" /\ queue[c] # <<>> /\ queue[c] \in Seq(Message)
      /\ wire[c] \in Wire /\ wire[c].heard # {}
  BY DEF TypeOK, ToldOK, Message, Wire
<1>2. /\ m \in Message /\ Tail(queue[c]) \in Seq(Message)
      /\ Len(Tail(queue[c])) <= QueueCap
      /\ Range(queue[c]) = {m} \cup Range(Tail(queue[c]))
  <2>1. /\ m \in Message /\ Tail(queue[c]) \in Seq(Message)
        /\ Len(queue[c]) \in Nat /\ Len(Tail(queue[c])) = Len(queue[c]) - 1
    BY <1>1
  <2>2. Len(queue[c]) <= QueueCap
    BY DEF TypeOK
  <2> QED  BY <2>1, <2>2, RangeOfTail, DeliveryAssumption
<1>3. /\ Written(wire[c], m) \in Wire
      /\ wire[c].heard \subseteq Written(wire[c], m).heard
      /\ m # Other => m \in Written(wire[c], m).heard
      /\ ~Written(wire[c], m).otherFirst
  BY <1>1, WrittenEffect DEF FirstIsAnnouncement
<1>4. /\ wire'[c] = Written(wire[c], m) /\ queue'[c] = Tail(queue[c])
      /\ \A d \in Conns \ {c} : wire'[d] = wire[d] /\ queue'[d] = queue[d]
  BY DEF TypeOK
<1>5. TypeOK'
  <2>1. wire' \in [Conns -> Wire] /\ queue' \in [Conns -> Seq(Message)]
    BY <1>3 DEF TypeOK, Wire, Message
  <2>2. \A d \in Conns : Len(queue'[d]) <= QueueCap
    BY <1>2 DEF TypeOK
  <2> QED  BY <2>1, <2>2 DEF TypeOK, Wire
<1> HIDE DEF m
<1>6. RegisteredOK'
  BY DEF RegisteredOK
<1>7. ToldOK' /\ AnnouncerOK' /\ FirstIsAnnouncement'
  BY <1>3, <1>4 DEF ToldOK, Told, AnnouncerOK, FirstIsAnnouncement
<1>8. TellsCurrent'
  <2>1. current # Other
    BY OtherAssumption DEF TypeOK
  <2> QED  BY <1>2, <1>3, <1>4, <2>1 DEF TellsCurrent, Told, Hears
<1> QED  BY <1>5, <1>6, <1>7, <1>8

\* A connection that is closed is owed nothing.
LEMMA CloseKeeps ==
    ASSUME IInv, NEW c \in Conns, Close(c)
    PROVE  IInv'
<1> USE DEF IInv, Kinds, Close, Goes, node
<1>1. TypeOK'
  <2>1. <<>> \in Seq(Versions \cup {Other}) /\ Len(<<>>) <= QueueCap
    BY DeliveryAssumption
  <2>2. NothingSent \in Wire
    BY DEF NothingSent, Wire
  <2> QED  BY <2>1, <2>2 DEF TypeOK, Wire
<1>2. RegisteredOK'
  BY DEF TypeOK, RegisteredOK, RegisteredStages
<1>3. ToldOK'
  BY DEF TypeOK, ToldOK, Told
<1>4. AnnouncerOK' /\ FirstIsAnnouncement'
  BY DEF TypeOK, AnnouncerOK, FirstIsAnnouncement, NothingSent
<1>5. TellsCurrent'
  BY DEF TypeOK, TellsCurrent, Told, Hears
<1> QED  BY <1>1, <1>2, <1>3, <1>4, <1>5

\* Every step keeps the inductive invariant.
LEMMA StepKeeps == IInv /\ [Next]_vars => IInv'
<1> SUFFICES ASSUME IInv, [Next]_vars  PROVE IInv'
  OBVIOUS
<1>1. CASE UNCHANGED vars
  BY <1>1 DEF vars, node, peers, IInv, TypeOK, RegisteredOK, ToldOK, Told, AnnouncerOK,
     FirstIsAnnouncement, TellsCurrent, Hears
<1> QED
  BY <1>1, GenerateKeeps, ForwardAnnounceKeeps, RelayKeeps, ExchangeKeeps,
     SendMyAddressKeeps, SendToPeerKeeps, CloseKeeps DEF Next, Announcing, Gossip

\* The invariant of every behaviour of the delivery.
THEOREM Invariance == Spec => []IInv
<1>1. Init => IInv
  <2> SUFFICES ASSUME Init  PROVE IInv
    OBVIOUS
  <2>1. TypeOK
    <3>1. NothingSent \in Wire /\ <<>> \in Seq(Message) /\ Len(<<>>) <= QueueCap
      BY DeliveryAssumption DEF NothingSent, Wire
    <3>2. /\ wire \in [Conns -> Wire] /\ queue \in [Conns -> Seq(Message)]
          /\ \A c \in Conns : Len(queue[c]) <= QueueCap
      BY <3>1 DEF Init
    <3>3. faults \in 0..MaxFaults /\ others \in 0..MaxOthers
      BY DeliveryAssumption DEF Init
    <3>4. /\ stage = [c \in Conns |-> "new"] /\ kind = [c \in Conns |-> "none"]
          /\ toSend = [c \in Conns |-> None] /\ announcer = "idle"
          /\ version = None /\ ownRow = None /\ current = None /\ gossip = None
          /\ registered = {} /\ senders = {} /\ dropped = {} /\ stopping = FALSE
      BY DEF Init
    <3> QED  BY <3>2, <3>3, <3>4 DEF TypeOK, Wire, Message
  <2>2. RegisteredOK /\ ToldOK /\ AnnouncerOK /\ FirstIsAnnouncement /\ TellsCurrent
    BY DEF Init, RegisteredOK, RegisteredStages, ToldOK, Told, AnnouncerOK,
       FirstIsAnnouncement, TellsCurrent, NothingSent
  <2> QED  BY <2>1, <2>2 DEF IInv
<1> QED  BY <1>1, StepKeeps, PTL DEF Spec

-----------------------------------------------------------------------------
(* The properties.                                                         *)

\* The variables of NetService that delivery reads and writes keep their types,
\* and no queue ever has more than its capacity.
THEOREM TypeCorrect == Spec => []TypeOK
BY Invariance, PTL DEF IInv

\* sendToPeer, which is started after sendMyAddress on every kind of connection,
\* never writes before it.
THEOREM AnnouncementComesFirst == Spec => []FirstIsAnnouncement
BY Invariance, PTL DEF IInv

\* Between sendMyAddress, which reads the announcement under the lock and writes
\* it without, and ReceiveAnnounce, which sets it under the lock and forwards it
\* without, no announcement is lost.
THEOREM NoAnnouncementIsMissed == Spec => []AnnouncementNotMissed
<1>1. IInv => AnnouncementNotMissed
  BY DEF IInv, TellsCurrent, AnnouncementNotMissed, Told, Hears
<1> QED  BY <1>1, Invariance, PTL

-----------------------------------------------------------------------------
(* Delivery implements PeerExchange.                                       *)

\* A connection that goes to another stage is at that stage of the exchange,
\* and the others stay where they are.
LEMMA GoesOn ==
    ASSUME TypeOK, NEW c \in Conns, NEW to, Goes(c, to)
    PROVE  ExchangeStage' = [ExchangeStage EXCEPT ![c] =
                    CASE to \in {"poll", "write"} -> "announce"
                      [] to = "ingest" -> "verify"
                      [] OTHER -> to]
<1>1. /\ stage' = [stage EXCEPT ![c] = to]
      /\ \A d \in Conns : stage'[d] = IF d = c THEN to ELSE stage[d]
  BY DEF TypeOK, Goes
<1> QED  BY <1>1 DEF ExchangeStage

\* Every step of Delivery is a step or a stutter of the exchange.
LEMMA StepRefines == IInv /\ [Next]_vars => [Exchange!Next]_(Exchange!vars)
<1> SUFFICES ASSUME IInv, [Next]_vars  PROVE [Exchange!Next]_(Exchange!vars)
  OBVIOUS
<1> USE DEF IInv
<1>1. CASE UNCHANGED <<stage, kind, registered>>
  BY <1>1 DEF ExchangeStage, Exchange!vars
<1>2. \A c \in Conns :
        /\ ExchangeStage[c] = CASE stage[c] \in {"poll", "write"} -> "announce"
                                 [] stage[c] = "ingest" -> "verify"
                                 [] OTHER -> stage[c]
        /\ kind[c] \in Kinds \cup {"none"}
  BY DEF TypeOK, ExchangeStage
<1>3. ASSUME NEW c \in Conns, NEW k \in Kinds, Connect(c, k)  PROVE Exchange!Start(c, k)
  <2>1. ExchangeStage' = [ExchangeStage EXCEPT ![c] =
             IF k = "inbound" THEN "await" ELSE "announce"]
    BY <1>3, GoesOn DEF Connect, FirstStage
  <2> QED  BY <1>2, <1>3, <2>1 DEF Connect, Register, Exchange!Start, Exchange!Goes
<1>4. ASSUME NEW c \in Conns, ReceiveAddress(c)  PROVE Exchange!Receive(c)
  <2>1. ExchangeStage' = [ExchangeStage EXCEPT ![c] =
             IF kind[c] = "known" THEN "verify" ELSE "adopt"]
    BY <1>4, GoesOn DEF ReceiveAddress
  <2> QED
    BY <1>2, <1>4, <2>1 DEF ReceiveAddress, RegisteredOK, RegisteredStages,
       Exchange!Receive, Exchange!Goes
<1>5. ASSUME NEW c \in Conns, Adopt(c)  PROVE Exchange!Adopt(c)
  <2>1. ExchangeStage' = [ExchangeStage EXCEPT ![c] = "verify"]
    BY <1>5, GoesOn DEF Adopt
  <2> QED  BY <1>2, <1>5, <2>1 DEF Adopt, Register, Exchange!Adopt, Exchange!Goes
<1>6. ASSUME NEW c \in Conns, Ingest(c)  PROVE Exchange!Accept(c)
  <2>1. ExchangeStage' = [ExchangeStage EXCEPT ![c] =
             IF kind[c] = "inbound" THEN "announce" ELSE "relay"]
    BY <1>6, GoesOn DEF Ingest
  <2> QED  BY <1>2, <1>6, <2>1 DEF Ingest, Exchange!Accept, Exchange!Goes
<1>7. ASSUME NEW c \in Conns, GetAnnounce(c)  PROVE UNCHANGED Exchange!vars
  <2>1. ExchangeStage' = [ExchangeStage EXCEPT ![c] = "announce"]
    BY <1>7, GoesOn DEF GetAnnounce
  <2> QED  BY <1>7, <2>1 DEF GetAnnounce, ExchangeStage, Exchange!vars
<1>8. ASSUME NEW c \in Conns, SendMyAddress(c)  PROVE Exchange!Announce(c)
  <2>1. ExchangeStage' = [ExchangeStage EXCEPT ![c] =
             IF kind[c] = "inbound" THEN "relay" ELSE "await"]
    BY <1>8, GoesOn DEF SendMyAddress
  <2> QED  BY <1>2, <1>8, <2>1 DEF SendMyAddress, Exchange!Announce, Exchange!Goes
<1>9. ASSUME NEW c \in Conns, Close(c)  PROVE Exchange!Close({c})
  <2>1. ExchangeStage' = [ExchangeStage EXCEPT ![c] = "closed"]
    BY <1>9, GoesOn DEF Close
  <2> QED  BY <1>9, <2>1 DEF TypeOK, Close, ExchangeStage, Exchange!Close
<1>10. \/ UNCHANGED <<stage, kind, registered>>
       \/ \E c \in Conns : \/ \E k \in Kinds : Connect(c, k)
                           \/ ReceiveAddress(c) \/ Adopt(c) \/ Ingest(c)
                           \/ GetAnnounce(c) \/ SendMyAddress(c) \/ Close(c)
  BY DEF Next, vars, peers, Generate, Announcing, SetAnnounce, ForwardAnnounce, Gossip,
     GossipRead, GossipForward, Relay, SendToPeer, Cancel
<1> HIDE DEF IInv
<1> QED
  BY <1>1, <1>3, <1>4, <1>5, <1>6, <1>7, <1>8, <1>9, <1>10 DEF Exchange!Next, Kinds

\* The stages at which announcements are written and forwarded are those of the
\* exchange, which the goroutines of NetService implement.
THEOREM ImplementsExchange == Spec => ExchangeSpec
<1>1. Init => Exchange!Init
  BY DEF Init, ExchangeStage, Exchange!Init
<1> QED  BY <1>1, StepRefines, Invariance, PTL DEF Spec, ExchangeSpec, Exchange!Spec

=============================================================================
