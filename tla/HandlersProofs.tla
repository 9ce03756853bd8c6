--------------------------- MODULE HandlersProofs ---------------------------
(***************************************************************************)
(* Proofs about Handlers, for every set of handler connections, channels   *)
(* and messages.  IInv adds to the properties what makes them inductive:   *)
(* who owns a connection that is not tracked yet (AcceptOK), what the      *)
(* stages of the two goroutines say about a connection (PhaseOK), and that *)
(* Stop comes after the contexts are cancelled (StopOK).                   *)
(***************************************************************************)
EXTENDS Handlers, SequenceTheorems, TLAPS

\* The connection that acceptHandlers has accepted and not tracked is not served
\* yet; once it accepts at all, Stop knows the socket.
AcceptOK ==
    /\ acceptor = "track" => /\ accepted \in Handlers
                             /\ receiver[accepted] = "none"
                             /\ conn[accepted] # "none"
    /\ acceptor \in {"loop", "accept", "track"} => known

\* What the stages of the two goroutines of a connection say about it: the
\* sender starts with the reply, it holds a message of the channel when it
\* writes and none when it waits for one, and an entry is removed after the
\* connection was closed.
PhaseOK ==
    \A h \in Handlers :
        /\ conn[h] = "none" => receiver[h] = "none"
        /\ receiver[h] \in {"none", "bind", "add", "report", "reply"} => sender[h] = "none"
        /\ wire[h] = <<>> <=> sender[h] = "none"
        /\ sender[h] \in {"none", "select"} => holding[h] = NoMessage
        /\ sender[h] = "write" => holding[h] \in Messages /\ ChanOf[holding[h]] = channel[h]
        /\ receiver[h] = "untrack" \/ sender[h] = "untrack" => conn[h] = "closed"

\* Stop comes after the contexts are cancelled, and finds the socket that is
\* accepted from.
StopOK ==
    stop # "no" => cancelled /\ (acceptor = "accept" => socket = "closed")

IInv ==
    /\ TypeOK /\ AcceptOK /\ PhaseOK /\ StopOK
    /\ HandlerHears /\ TakenIsWritten /\ ServedIsTracked /\ NothingServedAfterStop

-----------------------------------------------------------------------------
(* What is written to a handler.                                           *)

\* A message is among those written to a handler.
In(m, w) == \E i \in 1..Len(w) : w[i] = m

\* Something written to a handler: what was there stays in its place.
LEMMA WriteAppends ==
    ASSUME NEW w \in Seq(Messages \cup {Reply}), NEW m \in Messages \cup {Reply}
    PROVE  /\ Append(w, m) \in Seq(Messages \cup {Reply})
           /\ Append(w, m) # <<>>
           /\ Len(Append(w, m)) = Len(w) + 1 /\ Len(w) \in Nat
           /\ \A i \in 1..Len(w) : Append(w, m)[i] = w[i]
           /\ Append(w, m)[Len(w) + 1] = m
           /\ In(m, Append(w, m)) /\ \A l : In(l, w) => In(l, Append(w, m))
<1> QED  BY DEF In

\* The write of one message to one handler.
LEMMA WriteToOne ==
    ASSUME IInv, NEW h \in Handlers, NEW m \in Messages \cup {Reply},
           wire' = [wire EXCEPT ![h] = Append(@, m)]
    PROVE  /\ wire' \in [Handlers -> Seq(Messages \cup {Reply})]
           /\ In(m, wire'[h])
           /\ \A g \in Handlers, l \in Messages : In(l, wire[g]) => In(l, wire'[g])
<1>1. \A g \in Handlers :
        /\ wire[g] \in Seq(Messages \cup {Reply})
        /\ wire'[g] = IF g = h THEN Append(wire[g], m) ELSE wire[g]
  BY DEF IInv, TypeOK
<1>2. wire[h] \in Seq(Messages \cup {Reply}) /\ wire'[h] = Append(wire[h], m)
  BY <1>1
<1>3. In(m, wire'[h]) /\ \A l : In(l, wire[h]) => In(l, wire'[h])
  BY <1>2, WriteAppends
<1>4. wire' \in [Handlers -> Seq(Messages \cup {Reply})]
  BY DEF IInv, TypeOK
<1> QED  BY <1>3, <1>4

\* A message that a handler has taken is not lost by a step that forwards none
\* and writes or keeps what a sender holds.
LEMMA TakenStays ==
    ASSUME IInv, UNCHANGED taken,
           \A h \in Handlers : conn'[h] # "closed" => conn[h] # "closed",
           \A h \in Handlers, m \in Messages :
                /\ holding[h] = m => holding'[h] = m \/ In(m, wire'[h])
                /\ In(m, wire[h]) => In(m, wire'[h])
    PROVE  TakenIsWritten'
<1> SUFFICES ASSUME NEW t \in taken, conn'[t[2]] # "closed"
             PROVE  holding'[t[2]] = t[1] \/ In(t[1], wire'[t[2]])
  BY Zenon DEF TakenIsWritten, In
<1>1. t[1] \in Messages /\ t[2] \in Handlers
  BY DEF IInv, TypeOK
<1>2. holding[t[2]] = t[1] \/ In(t[1], wire[t[2]])
  BY <1>1, Zenon DEF IInv, TakenIsWritten, In
<1> QED  BY <1>1, <1>2

-----------------------------------------------------------------------------
(* The inductive invariant.                                                *)

\* The inductive invariant is kept by the goroutine that accepts handlers:
\* a connection is on the list from the step that starts its receiver.
LEMMA AcceptorKeeps ==
    ASSUME IInv, Acceptor \/ AcceptFails \/ \E h \in Handlers : Accept(h)
    PROVE  IInv'
<1> USE DEF IInv, Acceptor, Listen, Assign, Loop, AcceptFails, Track, Accept, ReceiverGoes,
    MutexFree, KeepsAccepting, Trackable, service, accept, links, traffic
<1>1. TypeOK'
  BY DEF TypeOK, AcceptOK
<1>2. AcceptOK'
  BY DEF TypeOK, AcceptOK, PhaseOK
<1>3. PhaseOK'
  BY DEF TypeOK, AcceptOK, PhaseOK
<1>4. StopOK'
  BY DEF StopOK
<1>5. HandlerHears'
  BY DEF HandlerHears
<1>6. TakenIsWritten'
  BY TakenStays DEF TypeOK
<1>7. ServedIsTracked'
  BY DEF TypeOK, ServedIsTracked
<1>8. NothingServedAfterStop'
  BY DEF TypeOK, StopOK, NothingServedAfterStop
<1> QED  BY <1>1, <1>2, <1>3, <1>4, <1>5, <1>6, <1>7, <1>8

\* The inductive invariant is kept by the cancelled context, and by both parts
\* of Stop, which closes the socket and every connection on the list.
LEMMA ShutdownKeeps ==
    ASSUME IInv, Cancel \/ StopSocket \/ StopConns
    PROVE  IInv'
<1> USE DEF IInv, Cancel, StopSocket, StopConns, service, accept, links, traffic
<1>1. TypeOK'
  BY DEF TypeOK
<1>2. AcceptOK'
  BY DEF AcceptOK
<1>3. PhaseOK'
  BY DEF PhaseOK
<1>4. StopOK'
  BY DEF AcceptOK, StopOK
<1>5. HandlerHears'
  BY DEF HandlerHears
<1>6. TakenIsWritten'
  BY TakenStays
<1>7. ServedIsTracked'
  BY DEF ServedIsTracked
<1>8. NothingServedAfterStop'
  BY DEF StopOK, ServedIsTracked, NothingServedAfterStop
<1> QED  BY <1>1, <1>2, <1>3, <1>4, <1>5, <1>6, <1>7, <1>8

\* The inductive invariant is kept by forwardToHandlers: only a sender that
\* holds no message takes one, of the channel its handler has bound to.
LEMMA ForwardKeeps ==
    ASSUME IInv, NEW m \in Messages, ForwardToHandlers(m)
    PROVE  IInv'
<1> USE HandlersAssumption DEF IInv, ForwardToHandlers, Listening, MutexFree, service,
    accept
<1>1. TypeOK'
  BY DEF TypeOK
<1>2. AcceptOK'
  BY DEF AcceptOK
<1>3. PhaseOK'
  BY DEF PhaseOK
<1>4. StopOK'
  BY DEF StopOK
<1>5. HandlerHears'
  BY DEF HandlerHears
<1>6. TakenIsWritten'
  BY DEF TypeOK, PhaseOK, TakenIsWritten
<1>7. ServedIsTracked'
  BY DEF ServedIsTracked
<1>8. NothingServedAfterStop'
  BY DEF NothingServedAfterStop
<1> QED  BY <1>1, <1>2, <1>3, <1>4, <1>5, <1>6, <1>7, <1>8

\* The inductive invariant is kept by receiveFromHandler, from the bind to the
\* reply, and to its end.
LEMMA ReceiverKeeps ==
    ASSUME IInv, NEW h \in Handlers, ReceiveBind(h) \/ Receiver(h) \/ Report(h)
    PROVE  IInv'
<1> USE HandlersAssumption DEF IInv, ReceiveBind, Receiver, AddChannel, SendReply,
    ReceiverFails, RelayEnds, Report, ReceiverGoes, SenderEntersLoop, SenderGoes,
    AfterError, service, accept, traffic
<1>1. TypeOK'
  <2>1. CASE SendReply(h)
    <3>1. /\ wire' = [wire EXCEPT ![h] = Append(@, Reply)]
          /\ receiver' = [receiver EXCEPT ![h] = "relay"]
          /\ sender' = [sender EXCEPT ![h] = IF cancelled THEN "ended" ELSE "select"]
          /\ UNCHANGED <<service, accept, tracked, holding, channel, conn, traffic>>
      BY <2>1
    <3> QED  BY <3>1 DEF TypeOK
  <2>2. CASE ReceiverFails(h)
    BY <2>2 DEF TypeOK
  <2>3. CASE ReceiveBind(h)
    BY <2>3 DEF TypeOK
  <2>4. CASE AddChannel(h)
    BY <2>4 DEF TypeOK
  <2>5. CASE RelayEnds(h) \/ Report(h)
    BY <2>5 DEF TypeOK
  <2> QED  BY <2>1, <2>2, <2>3, <2>4, <2>5
<1>2. AcceptOK'
  BY DEF TypeOK, AcceptOK
<1>3. PhaseOK'
  BY DEF TypeOK, PhaseOK
<1>4. StopOK'
  BY DEF StopOK
<1>5. HandlerHears'
  BY DEF TypeOK, PhaseOK, HandlerHears
<1>6. TakenIsWritten'
  <2>1. \A g \in Handlers, m \in Messages : In(m, wire[g]) => In(m, wire'[g])
    <3>1. CASE SendReply(h)
      BY WriteToOne
    <3> QED  BY <3>1
  <2> QED  BY <2>1, TakenStays
<1>7. ServedIsTracked'
  <2>1. \A g \in Handlers : receiver'[g] = receiver[g] \/ receiver[g] \notin {"none", "ended"}
    BY DEF TypeOK
  <2>2. \A g \in Handlers : receiver'[g] = "ended" => receiver[g] = "ended" \/ cancelled
    BY DEF TypeOK
  <2> QED  BY <2>1, <2>2 DEF ServedIsTracked
<1>8. NothingServedAfterStop'
  BY DEF TypeOK, AcceptOK, NothingServedAfterStop
<1> QED  BY <1>1, <1>2, <1>3, <1>4, <1>5, <1>6, <1>7, <1>8

\* The inductive invariant is kept by sendToHandler.
LEMMA SenderKeeps ==
    ASSUME IInv, NEW h \in Handlers, SenderWrites(h) \/ SenderGivesUp(h)
    PROVE  IInv'
<1> USE DEF IInv, SenderWrites, SenderGivesUp, SenderEntersLoop, SenderGoes, service,
    accept, traffic
<1>1. TypeOK'
  <2>1. CASE SenderWrites(h)
    <3>1. holding[h] \in Messages /\ wire' = [wire EXCEPT ![h] = Append(@, holding[h])]
      BY <2>1 DEF PhaseOK
    <3>2. wire' \in [Handlers -> Seq(Messages \cup {Reply})]
      BY <3>1, WriteToOne
    <3> QED  BY <3>2 DEF TypeOK
  <2> QED  BY <2>1 DEF TypeOK
<1>2. AcceptOK'
  BY DEF AcceptOK
<1>3. PhaseOK'
  BY DEF TypeOK, PhaseOK
<1>4. StopOK'
  BY DEF StopOK
<1>5. HandlerHears'
  <2>1. CASE SenderWrites(h)
    <3>1. /\ wire[h] # <<>> /\ holding[h] \in Messages /\ ChanOf[holding[h]] = channel[h]
          /\ wire' = [wire EXCEPT ![h] = Append(@, holding[h])] /\ UNCHANGED channel
      BY <2>1 DEF PhaseOK
    <3> QED  BY <3>1 DEF HandlerHears
  <2> QED  BY <2>1 DEF HandlerHears
<1>6. TakenIsWritten'
  <2>1. CASE SenderWrites(h)
    <3>1. holding[h] \in Messages
      BY <2>1 DEF PhaseOK
    <3>2. wire' = [wire EXCEPT ![h] = Append(@, holding[h])]
      BY <2>1
    <3>3. /\ In(holding[h], wire'[h])
          /\ \A g \in Handlers, m \in Messages : In(m, wire[g]) => In(m, wire'[g])
      BY <3>1, <3>2, WriteToOne
    <3>4. \A g \in Handlers \ {h} : holding'[g] = holding[g]
      BY <2>1
    <3> QED  BY <3>3, <3>4, TakenStays
  <2> QED  BY <2>1, TakenStays
<1>7. ServedIsTracked'
  BY DEF ServedIsTracked
<1>8. NothingServedAfterStop'
  BY DEF NothingServedAfterStop
<1> QED  BY <1>1, <1>2, <1>3, <1>4, <1>5, <1>6, <1>7, <1>8

\* The inductive invariant is kept by closeHandler, from either goroutine or from both.
LEMMA CloseKeeps ==
    ASSUME IInv, NEW h \in Handlers, CloseConn(h) \/ Untrack(h)
    PROVE  IInv'
<1> USE DEF IInv, CloseConn, Untrack, ReceiverGoes, SenderGoes, MutexFree, Without, service,
    accept, traffic
<1>1. TypeOK'
  BY DEF TypeOK, AcceptOK
<1>2. AcceptOK'
  BY DEF TypeOK, AcceptOK
<1>3. PhaseOK'
  BY DEF TypeOK, PhaseOK
<1>4. StopOK'
  BY DEF StopOK
<1>5. HandlerHears'
  BY DEF HandlerHears
<1>6. TakenIsWritten'
  BY TakenStays DEF TypeOK
<1>7. ServedIsTracked'
  BY DEF TypeOK, PhaseOK, ServedIsTracked
<1>8. NothingServedAfterStop'
  BY DEF TypeOK, NothingServedAfterStop
<1> QED  BY <1>1, <1>2, <1>3, <1>4, <1>5, <1>6, <1>7, <1>8

\* The inductive invariant is kept by a handler that closes its connection.
LEMMA HandlerClosesKeeps ==
    ASSUME IInv, NEW h \in Handlers, HandlerCloses(h)
    PROVE  IInv'
<1> USE DEF IInv, HandlerCloses, service, accept, traffic
<1>1. TypeOK'
  BY DEF TypeOK
<1>2. AcceptOK'
  BY DEF AcceptOK
<1>3. PhaseOK'
  BY DEF PhaseOK
<1>4. StopOK'
  BY DEF StopOK
<1>5. HandlerHears'
  BY DEF HandlerHears
<1>6. TakenIsWritten'
  BY DEF TakenIsWritten
<1>7. ServedIsTracked'
  BY DEF ServedIsTracked
<1>8. NothingServedAfterStop'
  BY DEF NothingServedAfterStop
<1> QED  BY <1>1, <1>2, <1>3, <1>4, <1>5, <1>6, <1>7, <1>8

\* Every step keeps the inductive invariant.
LEMMA StepKeeps == IInv /\ [Next]_vars => IInv'
<1> SUFFICES ASSUME IInv, [Next]_vars  PROVE IInv'
  OBVIOUS
<1>1. CASE UNCHANGED vars
  BY <1>1 DEF vars, service, accept, links, traffic, IInv, TypeOK, AcceptOK, PhaseOK,
     StopOK, HandlerHears, TakenIsWritten, ServedIsTracked, NothingServedAfterStop
<1> QED
  BY <1>1, AcceptorKeeps, ShutdownKeeps, ForwardKeeps, ReceiverKeeps, SenderKeeps,
     CloseKeeps, HandlerClosesKeeps DEF Next

\* The invariant of every behaviour of the handlers.
THEOREM Invariance == Spec => []IInv
<1>1. Init => IInv
  <2> SUFFICES ASSUME Init  PROVE IInv
    OBVIOUS
  <2>1. TypeOK
    <3>1. wire \in [Handlers -> Seq(Messages \cup {Reply})]
      BY DEF Init
    <3> QED  BY <3>1 DEF Init, TypeOK
  <2>2. AcceptOK /\ PhaseOK /\ StopOK
    BY DEF Init, AcceptOK, PhaseOK, StopOK
  <2>3. HandlerHears /\ TakenIsWritten /\ ServedIsTracked /\ NothingServedAfterStop
    BY DEF Init, HandlerHears, TakenIsWritten, ServedIsTracked, NothingServedAfterStop
  <2> QED  BY <2>1, <2>2, <2>3 DEF IInv
<1> QED  BY <1>1, StepKeeps, PTL DEF Spec

-----------------------------------------------------------------------------
(* The properties.                                                         *)

\* The variables of the handlers and of their goroutines keep their types.
THEOREM TypeCorrect == Spec => []TypeOK
BY Invariance, PTL DEF IInv

\* sendToHandler and receiveFromHandler share a connection and write to it in
\* an order that the handler can rely on.
THEOREM ReplyComesFirst == Spec => []HandlerHears
BY Invariance, PTL DEF IInv

\* A message for which forwardToHandlers answers TRUE is not lost between the
\* channel it was handed over on and the connection.
THEOREM TakenMessagesAreWritten == Spec => []TakenIsWritten
BY Invariance, PTL DEF IInv

\* trackHandler and closeHandler keep the list of handlers equal to those that
\* are served.
THEOREM ListIsAccurate == Spec => []ServedIsTracked
BY Invariance, PTL DEF IInv

\* Stop leaves no handler connection behind, whatever acceptHandlers was doing.
THEOREM StopClosesHandlers == Spec => []NothingServedAfterStop
BY Invariance, PTL DEF IInv

=============================================================================
