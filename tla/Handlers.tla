------------------------------ MODULE Handlers ------------------------------
(***************************************************************************)
(* Protocol handlers (internal/netsvc/handler.go; acceptHandlers,          *)
(* trackHandler, closeHandler, forwardToHandlers and Stop of service.go):  *)
(* the goroutine that accepts their connections, the two goroutines of     *)
(* each connection, and the messages of peers that are handed to them over *)
(* a channel without a buffer.                                             *)
(*                                                                         *)
(* What handlers send to peers, and the content of their reports to the    *)
(* announce service, are left to Delivery and Announce.                    *)
(***************************************************************************)
EXTENDS Naturals, Sequences

CONSTANTS
    Handlers,   \* bound: the connections handlers make
    NoHandler,  \* no handler
    Channels,   \* channels handlers bind to
    NoChannel,  \* the channel before the bind
    Identity,   \* the channel whose handler reports to the announce service
    Messages,   \* bound: the messages of peers, each forwarded once
    ChanOf,     \* the channel of a message
    NoMessage,  \* no message
    Reply       \* the BindMessage sent to the handler

ASSUME HandlersAssumption ==
    /\ NoHandler \notin Handlers
    /\ NoChannel \notin Channels /\ Identity \in Channels
    /\ ChanOf \in [Messages -> Channels]
    /\ NoMessage \notin Messages /\ Reply \notin Messages

VARIABLES
    dead,       \* log.Fatal has ended the process
    cancelled,  \* the service context is cancelled: ns.Stopping()
    stop,       \* how far Stop is; it holds the mutex from its start to its end
    acceptor,   \* goroutine acceptHandlers
    accepted,   \* the connection it has accepted and not tracked yet
    socket,     \* the listening socket
    known,      \* ns.socket has been set
    tracked,    \* ns.handlers, and with it ns.connections
    receiver,   \* goroutine receiveFromHandler, per handler
    sender,     \* goroutine sendToHandler
    holding,    \* the message it has taken and not written yet
    channel,    \* hand.channel
    conn,       \* the connection: "eof" is closed by the handler only
    wire,       \* what has been written to the handler
    forwarded,  \* messages that forwardToHandlers has been called with
    taken       \* the handlers it has found for them

service == <<dead, cancelled, stop>>
accept  == <<acceptor, accepted, socket, known>>
links   == <<tracked, receiver, sender, holding, channel, conn, wire>>
traffic == <<forwarded, taken>>
vars    == <<service, accept, links, traffic>>

TypeOK ==
    /\ {dead, cancelled, known} \subseteq BOOLEAN
    /\ stop \in {"no", "conns", "done"}
    /\ acceptor \in {"listen", "assign", "loop", "accept", "track", "exited"}
    /\ accepted \in Handlers \cup {NoHandler}
    /\ socket \in {"none", "open", "closed"}
    /\ tracked \subseteq Handlers
    /\ receiver \in [Handlers -> {"none", "bind", "add", "report", "reply", "relay",
                                  "close", "untrack", "ended"}]
    /\ sender \in [Handlers -> {"none", "select", "write", "close", "untrack", "ended"}]
    /\ holding \in [Handlers -> Messages \cup {NoMessage}]
    /\ channel \in [Handlers -> Channels \cup {NoChannel}]
    /\ conn \in [Handlers -> {"none", "open", "eof", "closed"}]
    /\ wire \in [Handlers -> Seq(Messages \cup {Reply})]
    /\ forwarded \subseteq Messages
    /\ taken \subseteq Messages \X Handlers

Init ==
    /\ dead = FALSE /\ cancelled = FALSE /\ stop = "no"
    /\ acceptor = "listen" /\ accepted = NoHandler
    /\ socket = "none" /\ known = FALSE
    /\ tracked = {}
    /\ receiver = [h \in Handlers |-> "none"]
    /\ sender = [h \in Handlers |-> "none"]
    /\ holding = [h \in Handlers |-> NoMessage]
    /\ channel = [h \in Handlers |-> NoChannel]
    /\ conn = [h \in Handlers |-> "none"]
    /\ wire = [h \in Handlers |-> <<>>]
    /\ forwarded = {} /\ taken = {}

\* Stop does not hold the mutex.
MutexFree == stop # "conns"

\* Slip: for { ... } in place of for !ns.Stopping() { ... }.
KeepsAcceptingAlways == TRUE

KeepsAccepting == ~cancelled

\* Slip: trackHandler does not look whether the service is stopping.
TrackableAlways == TRUE

Trackable == ~cancelled

\* Slip: an error ends a receiver without closeHandler.
AfterErrorReturn == "ended"

AfterError == "close"

ReceiverGoes(h, to) == receiver' = [receiver EXCEPT ![h] = to]
SenderGoes(h, to)   == sender' = [sender EXCEPT ![h] = to]

\* Slip: the write comes before the wait for a message.
SenderWritesFirst(h) == SenderGoes(h, IF cancelled THEN "ended" ELSE "write")

\* for !ns.Stopping() { select ... } of sendToHandler: a sender that finds the
\* service stopping ends here, and closes nothing.
SenderEntersLoop(h) == SenderGoes(h, IF cancelled THEN "ended" ELSE "select")

-----------------------------------------------------------------------------
(* acceptHandlers.                                                         *)

Listen ==
    /\ acceptor = "listen"
    /\ \/ socket' = "open" /\ acceptor' = "assign"
       \/ acceptor' = "exited" /\ UNCHANGED socket
    /\ UNCHANGED <<service, accepted, known, links, traffic>>

\* The socket is stored in ns.socket, without the mutex.
Assign ==
    /\ acceptor = "assign"
    /\ known' = TRUE
    /\ acceptor' = "loop"
    /\ UNCHANGED <<service, accepted, socket, links, traffic>>

Loop ==
    /\ acceptor = "loop"
    /\ acceptor' = IF KeepsAccepting THEN "accept" ELSE "exited"
    /\ UNCHANGED <<service, accepted, socket, known, links, traffic>>

Accept(h) ==
    /\ acceptor = "accept"
    /\ socket = "open"
    /\ conn[h] = "none"
    /\ acceptor' = "track"
    /\ accepted' = h
    /\ conn' = [conn EXCEPT ![h] = "open"]
    /\ UNCHANGED <<service, socket, known, tracked, receiver, sender, holding, channel, wire, traffic>>

\* log.Fatal: Accept fails when Stop has closed the socket, and may fail at any
\* time before.
AcceptFails ==
    /\ acceptor = "accept"
    /\ dead' = TRUE
    /\ UNCHANGED <<cancelled, stop, accept, links, traffic>>

\* trackHandler, and hand.start.
Track ==
    /\ acceptor = "track"
    /\ MutexFree
    /\ accepted' = NoHandler
    /\ \/ /\ Trackable
          /\ tracked' = tracked \cup {accepted}
          /\ ReceiverGoes(accepted, "bind")
          /\ acceptor' = "loop"
          /\ UNCHANGED conn
       \/ /\ ~Trackable
          /\ conn' = [conn EXCEPT ![accepted] = "closed"]
          /\ acceptor' = "exited"
          /\ UNCHANGED <<tracked, receiver>>
    /\ UNCHANGED <<service, socket, known, sender, holding, channel, wire, traffic>>

Acceptor == Listen \/ Assign \/ Loop \/ Track

-----------------------------------------------------------------------------
(* receiveFromHandler.                                                     *)

\* hand.channel is set as soon as the bind is read, long before the reply.
ReceiveBind(h) ==
    /\ receiver[h] = "bind"
    /\ conn[h] = "open"
    /\ \E ch \in Channels : channel' = [channel EXCEPT ![h] = ch]
    /\ ReceiverGoes(h, "add")
    /\ UNCHANGED <<service, accept, tracked, sender, holding, conn, wire, traffic>>

AddChannel(h) ==
    /\ receiver[h] = "add"
    /\ ReceiverGoes(h, IF channel[h] = Identity THEN "report" ELSE "reply")
    /\ UNCHANGED <<service, accept, tracked, sender, holding, channel, conn, wire, traffic>>

\* Two sends on announceChanges: they wait for the announce service, which ends
\* some time after the context is cancelled.
Report(h) ==
    /\ receiver[h] = "report"
    /\ ReceiverGoes(h, "reply")
    /\ UNCHANGED <<service, accept, tracked, sender, holding, channel, conn, wire, traffic>>

SendReply(h) ==
    /\ receiver[h] = "reply"
    /\ conn[h] # "closed"
    /\ wire' = [wire EXCEPT ![h] = Append(@, Reply)]
    /\ ReceiverGoes(h, "relay")
    /\ SenderEntersLoop(h)
    /\ UNCHANGED <<service, accept, tracked, holding, channel, conn, traffic>>

\* The bind or another message is not valid, the channel cannot be stored, or
\* the connection is closed.
ReceiverFails(h) ==
    /\ \/ receiver[h] \in {"bind", "add", "relay"}
       \/ receiver[h] = "reply" /\ conn[h] # "open"
    /\ ReceiverGoes(h, AfterError)
    /\ UNCHANGED <<service, accept, tracked, sender, holding, channel, conn, wire, traffic>>

\* for !ns.Stopping() { ... }
RelayEnds(h) ==
    /\ receiver[h] = "relay"
    /\ cancelled
    /\ ReceiverGoes(h, "ended")
    /\ UNCHANGED <<service, accept, tracked, sender, holding, channel, conn, wire, traffic>>

-----------------------------------------------------------------------------
(* sendToHandler.                                                          *)

\* A handler that does not read makes the write wait.
SenderWrites(h) ==
    /\ sender[h] = "write"
    /\ conn[h] # "closed"
    /\ wire' = [wire EXCEPT ![h] = Append(@, holding[h])]
    /\ holding' = [holding EXCEPT ![h] = NoMessage]
    /\ SenderEntersLoop(h)
    /\ UNCHANGED <<service, accept, tracked, receiver, channel, conn, traffic>>

\* Slip: a write that fails is not noticed.
SenderIgnoresErrors(h) ==
    /\ sender[h] = "write" /\ conn[h] # "open"
    /\ holding' = [holding EXCEPT ![h] = NoMessage]
    /\ SenderEntersLoop(h)
    /\ UNCHANGED <<service, accept, tracked, receiver, channel, conn, wire, traffic>>

\* The context is done, or a write fails.
SenderGivesUp(h) ==
    /\ \/ sender[h] = "select" /\ cancelled
       \/ sender[h] = "write" /\ conn[h] # "open"
    /\ SenderGoes(h, "close")
    /\ UNCHANGED <<service, accept, tracked, receiver, holding, channel, conn, wire, traffic>>

-----------------------------------------------------------------------------
(* closeHandler, in either goroutine, or in both.                          *)

CloseConn(h) ==
    /\ \/ receiver[h] = "close" /\ ReceiverGoes(h, "untrack") /\ UNCHANGED sender
       \/ sender[h] = "close" /\ SenderGoes(h, "untrack") /\ UNCHANGED receiver
    /\ conn' = [conn EXCEPT ![h] = "closed"]
    /\ UNCHANGED <<service, accept, tracked, holding, channel, wire, traffic>>

\* Slip: handlers are removed by their channel.
WithoutChannelOf(h) == {other \in tracked : channel[other] # channel[h]}

Without(h) == tracked \ {h}

Untrack(h) ==
    /\ MutexFree
    /\ \/ receiver[h] = "untrack" /\ ReceiverGoes(h, "ended") /\ UNCHANGED sender
       \/ sender[h] = "untrack" /\ SenderGoes(h, "ended") /\ UNCHANGED receiver
    /\ tracked' = Without(h)
    /\ UNCHANGED <<service, accept, holding, channel, conn, wire, traffic>>

Receiver(h) == AddChannel(h) \/ SendReply(h) \/ ReceiverFails(h) \/ RelayEnds(h)

-----------------------------------------------------------------------------
(* forwardToHandlers, called by the receiver of a peer.                    *)

\* Slip: the channel is not compared.
ListeningToAll(m) == tracked

Listening(m) == {h \in tracked : channel[h] = ChanOf[m]}

\* Only a sender that waits in its select takes the message; one for which the
\* context is done as well may take either.
ForwardToHandlers(m) ==
    LET ready == {h \in Listening(m) : sender[h] = "select"} IN
    /\ MutexFree
    /\ m \notin forwarded
    /\ forwarded' = forwarded \cup {m}
    /\ \E takers \in IF cancelled THEN SUBSET ready ELSE {ready} :
        /\ taken' = taken \cup {m} \X takers
        /\ sender' = [h \in Handlers |-> IF h \in takers THEN "write" ELSE sender[h]]
        /\ holding' = [h \in Handlers |-> IF h \in takers THEN m ELSE holding[h]]
    /\ UNCHANGED <<service, accept, tracked, receiver, channel, conn, wire>>

-----------------------------------------------------------------------------
(* Shutdown, and the other side.                                           *)

\* The governor cancels the contexts of all services and then calls Stop.
Cancel ==
    /\ ~cancelled
    /\ cancelled' = TRUE
    /\ UNCHANGED <<dead, stop, accept, links, traffic>>

\* Stop, first the socket, if there is one yet ...
StopSocket ==
    /\ cancelled
    /\ stop = "no"
    /\ socket' = IF known THEN "closed" ELSE socket
    /\ stop' = "conns"
    /\ UNCHANGED <<dead, cancelled, acceptor, accepted, known, links, traffic>>

\* ... then the connections.
StopConns ==
    /\ stop = "conns"
    /\ conn' = [h \in Handlers |-> IF h \in tracked THEN "closed" ELSE conn[h]]
    /\ stop' = "done"
    /\ UNCHANGED <<dead, cancelled, accept, tracked, receiver, sender, holding,
                   channel, wire, traffic>>

HandlerCloses(h) ==
    /\ conn[h] = "open"
    /\ conn' = [conn EXCEPT ![h] = "eof"]
    /\ UNCHANGED <<service, accept, tracked, receiver, sender, holding, channel, wire, traffic>>

Next ==
    /\ ~dead
    /\ \/ Acceptor \/ AcceptFails
       \/ Cancel \/ StopSocket \/ StopConns
       \/ \E m \in Messages : ForwardToHandlers(m)
       \/ \E h \in Handlers :
            \/ Accept(h) \/ HandlerCloses(h)
            \/ ReceiveBind(h) \/ Receiver(h) \/ Report(h)
            \/ SenderWrites(h) \/ SenderGivesUp(h)
            \/ CloseConn(h) \/ Untrack(h)

Spec == Init /\ [][Next]_vars

\* Goroutines run, and Stop does once the governor has begun to shut down; until
\* then the announce service takes reports.
\* Nothing is assumed of handlers: they need not connect, bind, read, write or
\* close, and a receiver that waits for one goes on once the connection is closed.
Fairness ==
    /\ WF_vars(~dead /\ Acceptor) /\ WF_vars(~dead /\ socket = "closed" /\ AcceptFails)
    /\ WF_vars(~dead /\ (StopSocket \/ StopConns))
    /\ \A h \in Handlers :
        /\ WF_vars(~dead /\ conn[h] # "open" /\ Receiver(h))
        /\ WF_vars(~dead /\ receiver[h] \in {"add", "reply"} /\ Receiver(h))
        /\ WF_vars(~dead /\ ~cancelled /\ Report(h))
        /\ WF_vars(~dead /\ SenderGivesUp(h))
        /\ WF_vars(~dead /\ CloseConn(h)) /\ WF_vars(~dead /\ Untrack(h))

FairSpec == Spec /\ Fairness

-----------------------------------------------------------------------------
(* Safety.                                                                 *)

\* A handler hears the BindMessage of this node first, and then messages of the
\* channel it has bound to and no other, although it is found by its channel
\* from before its database row and the reply are written.
HandlerHears ==
    \A h \in Handlers : \A i \in 1..Len(wire[h]) :
        IF i = 1 THEN wire[h][i] = Reply
        ELSE wire[h][i] \in Messages /\ ChanOf[wire[h][i]] = channel[h]

\* service.go:336-338 "after accepting this message into the queue, the handler
\* becomes responsible": a message for which forwardToHandlers answers TRUE is
\* on its way to a handler, or has been written, until this node closes the
\* connection.
TakenIsWritten ==
    \A t \in taken :
        conn[t[2]] # "closed" =>
            holding[t[2]] = t[1] \/ \E i \in 1..Len(wire[t[2]]) : wire[t[2]][i] = t[1]

\* A connection that is served is one that messages and Stop find; and one they
\* find is served, except in a shutdown: closing one handler, from both of its
\* goroutines, removes neither too little nor another's entry.
ServedIsTracked ==
    \A h \in Handlers :
        /\ receiver[h] \notin {"none", "ended"} /\ conn[h] # "closed" => h \in tracked
        /\ h \in tracked /\ ~cancelled => receiver[h] # "ended"

\* service.go:301 "stop accepting handler connections", 308 "close all active
\* connections": afterwards nobody accepts from the socket and no handler is
\* served.  (Stop leaves the socket open if it comes before ns.socket is set; it
\* is then one that acceptHandlers will not use.)
NothingServedAfterStop ==
    stop = "done" =>
        /\ acceptor = "accept" => socket = "closed"
        /\ \A h \in Handlers : receiver[h] \notin {"none", "ended"} => conn[h] = "closed"

-----------------------------------------------------------------------------
(* Liveness, of FairSpec.                                                  *)

\* A handler that closes its connection is forgotten, in whatever state its
\* goroutines are, as long as the announce service takes their reports and the
\* process runs.
ClosedHandlerIsForgotten ==
    \A h \in Handlers : conn[h] = "eof" ~> (h \notin tracked \/ cancelled \/ dead)

\* A shutdown closes every handler connection, also one that is being accepted
\* or bound, or waits for an announce service that has ended.
ShutdownClosesHandlers ==
    cancelled ~> (dead \/ \A h \in Handlers : conn[h] \in {"none", "closed"})

=============================================================================
