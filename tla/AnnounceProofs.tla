--------------------------- MODULE AnnounceProofs ---------------------------
(***************************************************************************)
(* Proofs about the announce service: its type invariant, its four safety  *)
(* invariants and its action property, for every set of addresses, owners, *)
(* channels and handlers and every capacity of the changes channel.        *)
(*                                                                         *)
(* The invariant is inductive once three facts are added.  A handler that  *)
(* reports has a key and a channel (BindOK).  Nothing is signed or sent    *)
(* without an address (StageOK): a change restarts the timer only if there *)
(* is one, so what has been sent without it could not be kept current.     *)
(* And between the transaction that stores an announcement and the step    *)
(* that sends it, the row holds it (SignedOK).                             *)
(***************************************************************************)
EXTENDS Announce, SequenceTheorems, TLAPS

\* A handler that is past its bind has said which channel and which key.
BindOK ==
    \A h \in Handlers :
        hpc[h] \in {"add", "owner", "channel"} => hbind[h] \in [chan : Channels, key : Owners]

\* What the stage of Run says about the announcement: nothing is sent before
\* the first stage that sends, and what is generated, or has been sent, has an
\* address to announce.
StageOK ==
    /\ pc \in {"down", "reflect", "load"} => sent = Nothing
    /\ pc \in {"sign", "self", "send"} \/ sent # Nothing => IsValid(next)

\* What generateAnnounce has signed is in the announce row, if there is one,
\* from its first transaction to the end.
SignedOK ==
    pc \in {"self", "send"} /\ faults = 0 /\ row # Nothing => row.payload = next

IInv ==
    /\ TypeOK /\ BindOK /\ StageOK /\ SignedOK
    /\ TimerIsArmed /\ AnnouncedIsCurrent /\ OwnerIsStored /\ SentIsStored

-----------------------------------------------------------------------------
(* The records.                                                            *)

\* An announcement with one of its parts replaced.
LEMMA ContentWith ==
    ASSUME NEW content \in Content
    PROVE  /\ \A a \in Addrs \cup {NoAddr} :
                /\ [content EXCEPT !.addr = a] \in Content
                /\ [content EXCEPT !.addr = a].addr = a
                /\ [content EXCEPT !.addr = a].owner = content.owner
           /\ \A key \in Owners \cup {ZeroOwner} :
                /\ [content EXCEPT !.owner = key] \in Content
                /\ [content EXCEPT !.owner = key].addr = content.addr
                /\ [content EXCEPT !.owner = key].owner = key
           /\ \A set \in SUBSET Channels :
                /\ [content EXCEPT !.chans = set] \in Content
                /\ [content EXCEPT !.chans = set].addr = content.addr
                /\ [content EXCEPT !.chans = set].owner = content.owner
BY DEF Content

\* The announce row with one of its columns replaced is still a row.
LEMMA RowWith ==
    ASSUME NEW r \in Row
    PROVE  /\ \A fresh \in BOOLEAN :
                /\ [r EXCEPT !.fresh = fresh] \in Row
                /\ [r EXCEPT !.fresh = fresh] # Nothing
                /\ [r EXCEPT !.fresh = fresh].owner = r.owner
                /\ [r EXCEPT !.fresh = fresh].payload = r.payload
           /\ \A key \in Owners :
                /\ [r EXCEPT !.owner = key] \in Row
                /\ [r EXCEPT !.owner = key] # Nothing
                /\ [r EXCEPT !.owner = key].owner = key
                /\ [r EXCEPT !.owner = key].payload = r.payload
           /\ \A content \in Content :
                /\ [r EXCEPT !.payload = content, !.fresh = TRUE] \in Row
                /\ [r EXCEPT !.payload = content, !.fresh = TRUE] # Nothing
                /\ [r EXCEPT !.payload = content, !.fresh = TRUE].owner = r.owner
                /\ [r EXCEPT !.payload = content, !.fresh = TRUE].payload = content
<1>1. \A q \in Row : q # Nothing
  BY NothingAssumption
<1>2. \A fresh \in BOOLEAN : [r EXCEPT !.fresh = fresh] \in Row
  BY DEF Row
<1>3. \A key \in Owners : [r EXCEPT !.owner = key] \in Row
  BY DEF Row
<1>4. \A content \in Content : [r EXCEPT !.payload = content, !.fresh = TRUE] \in Row
  BY DEF Row
<1>5. /\ \A fresh : /\ [r EXCEPT !.fresh = fresh].owner = r.owner
                    /\ [r EXCEPT !.fresh = fresh].payload = r.payload
      /\ \A key : /\ [r EXCEPT !.owner = key].owner = key
                  /\ [r EXCEPT !.owner = key].payload = r.payload
      /\ \A content :
            /\ [r EXCEPT !.payload = content, !.fresh = TRUE].owner = r.owner
            /\ [r EXCEPT !.payload = content, !.fresh = TRUE].payload = content
  OBVIOUS
<1> QED  BY <1>1, <1>2, <1>3, <1>4, <1>5

-----------------------------------------------------------------------------
(* What the parts of a step do.                                            *)

\* SetAnnounceOwner leaves a row with that owner.
LEMMA OwnerIsSet ==
    ASSUME TypeOK, NEW key \in Owners, SetAnnounceOwner(key)
    PROVE  row' \in Row /\ row' # Nothing /\ row'.owner = key
<1>1. CASE row = Nothing
  <2> DEFINE first == [payload |-> Nothing, fresh |-> FALSE, owner |-> key]
  <2>1. first \in Row /\ first.owner = key
    BY DEF Row
  <2>2. row' = first
    BY <1>1 DEF SetAnnounceOwner
  <2> HIDE DEF first
  <2> QED  BY <2>1, <2>2, NothingAssumption
<1>2. CASE row # Nothing
  <2>1. row \in Row
    BY <1>2 DEF TypeOK
  <2>2. row' = [row EXCEPT !.owner = key]
    BY <1>2 DEF SetAnnounceOwner
  <2> QED  BY <2>1, <2>2, RowWith
<1> QED  BY <1>1, <1>2

\* SetAnnounce keeps the owner, and stores the announcement in the row if there
\* is one.
LEMMA AnnounceIsSet ==
    ASSUME TypeOK, NEW content \in Content, SetAnnounce(content)
    PROVE  IF row = Nothing THEN row' = Nothing
           ELSE /\ row' \in Row /\ row' # Nothing
                /\ row'.owner = row.owner /\ row'.payload = content
BY RowWith DEF TypeOK, SetAnnounce

\* loadOrGenerateAnnounce completes the announcement with the stored channels
\* and, unless GetAnnounce fails, the stored owner.
LEMMA LoadedContent ==
    ASSUME IInv, LoadOrGenerate
    PROVE  /\ next' \in Content /\ next'.addr = next.addr
           /\ faults' = 0 => next'.owner = IF row = Nothing THEN next.owner ELSE row.owner
<1> DEFINE withChannels == [next EXCEPT !.chans = chanTable]
           withOwner    == IF row = Nothing THEN withChannels
                           ELSE [withChannels EXCEPT !.owner = row.owner]
<1>1. withChannels \in Content /\ withChannels.addr = next.addr /\ withChannels.owner = next.owner
  BY ContentWith DEF IInv, TypeOK
<1>2. row = Nothing \/ row.owner \in Owners
  BY DEF IInv, TypeOK, Row
<1>3. /\ withOwner \in Content /\ withOwner.addr = next.addr
      /\ withOwner.owner = IF row = Nothing THEN next.owner ELSE row.owner
  <2> HIDE DEF withChannels
  <2> QED  BY <1>1, <1>2, ContentWith
<1>4. \/ Fault /\ next' \in {next, withChannels}
      \/ next' = withOwner
  BY DEF LoadOrGenerate
<1>5. Fault => faults' # 0
  BY DEF Fault, IInv, TypeOK
<1> HIDE DEF withChannels, withOwner
<1> QED  BY <1>1, <1>3, <1>4, <1>5 DEF IInv, TypeOK

\* A change as HandleChange takes it off the channel.
LEMMA TakeChange ==
    ASSUME IInv, changes # <<>>
    PROVE  /\ Head(changes) \in Change
           /\ Tail(changes) \in Seq(Change) /\ Len(Tail(changes)) <= QueueCap
BY AnnounceAssumption DEF IInv, TypeOK

\* What a change does to the content: it stays as it is, with whatever a failing
\* transaction leaves undone, or the new content has an address if the old one
\* had, and the timer is set if it has one.
LEMMA ChangedContent ==
    ASSUME IInv, HandleChange
    PROVE  /\ next' \in Content
           /\ IsValid(next) => IsValid(next')
           /\ \/ UNCHANGED <<next, timer, row>>
              \/ RestartTimer(next') /\ \/ next'.owner = next.owner /\ UNCHANGED row
                                        \/ faults' # 0 /\ UNCHANGED row
                                        \/ next'.owner \in Owners
                                           /\ SetAnnounceOwner(next'.owner)
<1> DEFINE change == Head(changes)
<1> USE AnnounceAssumption DEF IInv, TypeOK
<1>1. change \in Change /\ pc = "select"
  BY DEF HandleChange
<1>2. CASE /\ change.what = "address" /\ next' = [next EXCEPT !.addr = change.value]
           /\ RestartTimer(next') /\ UNCHANGED row
  <2>1. change.value \in Addrs
    BY <1>1, <1>2 DEF Change
  <2> QED  BY <1>2, <2>1, ContentWith DEF IsValid
<1>3. CASE /\ change.what = "owner" /\ next' = [next EXCEPT !.owner = change.value]
           /\ RestartTimer(next')
           /\ SetAnnounceOwner(change.value) \/ (Fault /\ UNCHANGED row)
  <2>1. change.value \in Owners
    BY <1>1, <1>3 DEF Change
  <2>2. Fault => faults' # 0
    BY DEF Fault
  <2> HIDE DEF change
  <2> QED  BY <1>3, <2>1, <2>2, ContentWith DEF IsValid
<1>4. CASE /\ next' = [next EXCEPT !.chans = chanTable]
           /\ RestartTimer(next') /\ UNCHANGED row
  BY <1>4, ContentWith DEF IsValid
<1> QED  BY <1>2, <1>3, <1>4 DEF HandleChange

-----------------------------------------------------------------------------
(* Every step keeps the invariant.                                         *)

\* The start of Run and the answer of the reflector: nothing has been sent yet,
\* and the address is not part of what is stored.
LEMMA StartKeeps ==
    ASSUME IInv, Start \/ FetchPublicAddress
    PROVE  IInv'
<1> USE DEF IInv, Start, FetchPublicAddress, announcer, handlers, database
<1>1. TypeOK'
  BY DEF TypeOK, Content
<1>2. BindOK'
  BY DEF BindOK
<1>3. StageOK'
  BY DEF StageOK
<1>4. SignedOK'
  BY DEF SignedOK
<1>5. TimerIsArmed'
  BY DEF TimerIsArmed
<1>6. AnnouncedIsCurrent'
  BY DEF AnnouncedIsCurrent
<1>7. OwnerIsStored'
  BY DEF TypeOK, OwnerIsStored, Content
<1>8. SentIsStored'
  BY DEF SentIsStored
<1> QED  BY <1>1, <1>2, <1>3, <1>4, <1>5, <1>6, <1>7, <1>8

\* loadOrGenerateAnnounce keeps the invariant: what it sends is the content it
\* has just completed, and the owner in that content is the one in the row.
LEMMA LoadOrGenerateKeeps ==
    ASSUME IInv, LoadOrGenerate
    PROVE  IInv'
<1> USE AnnounceAssumption DEF IInv, LoadOrGenerate, Generate, Reusable, Fault, announcer,
    handlers, database
<1>1. TypeOK'
  <2>1. next' \in Content
    BY LoadedContent
  <2> QED  BY <2>1 DEF TypeOK
<1>2. BindOK'
  BY DEF BindOK
<1>3. StageOK'
  BY DEF StageOK
<1>4. SignedOK'
  BY DEF SignedOK
<1>5. TimerIsArmed'
  BY DEF TimerIsArmed
<1>6. AnnouncedIsCurrent'
  BY DEF StageOK, AnnouncedIsCurrent
<1>7. OwnerIsStored'
  BY LoadedContent DEF TypeOK, OwnerIsStored
<1>8. SentIsStored'
  BY DEF StageOK, SentIsStored
<1> QED  BY <1>1, <1>2, <1>3, <1>4, <1>5, <1>6, <1>7, <1>8

\* A change keeps the invariant: content that was sent is only left behind by a
\* change that sets the timer, and a new owner is stored, or a fault is counted.
LEMMA HandleChangeKeeps ==
    ASSUME IInv, HandleChange
    PROVE  IInv'
<1> USE AnnounceAssumption, NothingAssumption DEF IInv, HandleChange, RestartTimer,
    SetAnnounceOwner, Fault, announcer, handlers, database
<1>1. TypeOK'
  <2>1. next' \in Content /\ changes' \in Seq(Change) /\ Len(changes') <= QueueCap
    BY TakeChange, ChangedContent
  <2>2. row' \in Row \cup {Nothing} /\ timer' \in {"off", "soon", "daily", "fired"}
    <3>1. UNCHANGED row \/ row' \in Row
      BY ChangedContent, OwnerIsSet
    <3> QED  BY <3>1 DEF TypeOK
  <2> QED  BY <2>1, <2>2 DEF TypeOK
<1>2. BindOK'
  BY DEF BindOK
<1>3. StageOK'
  BY DEF TypeOK, StageOK, IsValid, Content, Change
<1>4. SignedOK'
  BY DEF SignedOK
<1>5. TimerIsArmed'
  BY DEF TimerIsArmed
<1>6. AnnouncedIsCurrent'
  BY ChangedContent DEF StageOK, AnnouncedIsCurrent
<1>7. OwnerIsStored'
  <2>1. \/ UNCHANGED row /\ next'.owner = next.owner
        \/ faults' # 0
        \/ row' # Nothing /\ row'.owner = next'.owner
    BY ChangedContent, OwnerIsSet
  <2>2. faults' = 0 => faults = 0
    BY DEF TypeOK
  <2> QED  BY <2>1, <2>2 DEF OwnerIsStored
<1>8. SentIsStored'
  BY ChangedContent DEF TypeOK, StageOK, SentIsStored
<1> QED  BY <1>1, <1>2, <1>3, <1>4, <1>5, <1>6, <1>7, <1>8

\* The timer that runs out, and the case of the select that it makes ready.
LEMMA TimerKeeps ==
    ASSUME IInv, TimerRunsOut \/ TimerFires
    PROVE  IInv'
<1> USE DEF IInv, TimerRunsOut, TimerFires, Generate, announcer, handlers, database
<1>1. TypeOK'
  BY DEF TypeOK
<1>2. BindOK'
  BY DEF BindOK
<1>3. StageOK'
  BY DEF StageOK
<1>4. SignedOK'
  BY DEF SignedOK
<1>5. TimerIsArmed'
  BY DEF TimerIsArmed
<1>6. AnnouncedIsCurrent'
  BY DEF StageOK, AnnouncedIsCurrent
<1>7. OwnerIsStored'
  BY DEF OwnerIsStored
<1>8. SentIsStored'
  BY DEF StageOK, SentIsStored
<1> QED  BY <1>1, <1>2, <1>3, <1>4, <1>5, <1>6, <1>7, <1>8

\* generateAnnounce keeps the invariant through its two transactions and the
\* step that hands the announcement to NetService.
LEMMA GeneratingKeeps ==
    ASSUME IInv, Generating
    PROVE  IInv'
<1> USE AnnounceAssumption DEF IInv, Generating, Sign, StoreOwnNode, Send, SetAnnounce,
    Fault, announcer, handlers, database
<1>1. TypeOK'
  <2>1. row' \in Row \cup {Nothing}
    BY AnnounceIsSet DEF TypeOK
  <2> QED  BY <2>1 DEF TypeOK
<1>2. BindOK'
  BY DEF BindOK
<1>3. StageOK'
  BY DEF StageOK
<1>4. SignedOK'
  <2>1. CASE Sign
    <3>1. faults' = 0 => SetAnnounce(next)
      BY <2>1 DEF TypeOK
    <3> QED  BY <3>1, AnnounceIsSet DEF TypeOK, SignedOK
  <2>2. CASE StoreOwnNode
    BY <2>2 DEF TypeOK, SignedOK
  <2>3. CASE Send
    BY <2>3 DEF SignedOK
  <2> QED  BY <2>1, <2>2, <2>3
<1>5. TimerIsArmed'
  BY DEF TimerIsArmed
<1>6. AnnouncedIsCurrent'
  BY DEF AnnouncedIsCurrent
<1>7. OwnerIsStored'
  <2>1. UNCHANGED next /\ (faults' = 0 => faults = 0)
    BY DEF TypeOK
  <2>2. row # Nothing => row' # Nothing /\ row'.owner = row.owner
    BY AnnounceIsSet DEF TypeOK
  <2> QED  BY <2>1, <2>2 DEF OwnerIsStored
<1>8. SentIsStored'
  BY DEF SignedOK, SentIsStored
<1> QED  BY <1>1, <1>2, <1>3, <1>4, <1>5, <1>6, <1>7, <1>8

\* The end of the goroutine or of the process: a crash forgets what was sent, so
\* the row owes nothing to it.
LEMMA EndKeeps ==
    ASSUME IInv, Stop \/ Crash
    PROVE  IInv'
<1> USE AnnounceAssumption DEF IInv, Stop, Crash, FirstContent, announcer, handlers,
    database
<1>1. TypeOK'
  <2>1. FirstContent \in Content
    BY DEF Content
  <2>2. CASE Crash
    BY <2>1, <2>2 DEF TypeOK
  <2>3. CASE Stop
    BY <2>3 DEF TypeOK
  <2> QED  BY <2>2, <2>3
<1>2. BindOK'
  BY DEF BindOK
<1>3. StageOK'
  BY DEF StageOK
<1>4. SignedOK'
  BY DEF SignedOK
<1>5. TimerIsArmed'
  BY DEF TimerIsArmed
<1>6. AnnouncedIsCurrent'
  BY DEF AnnouncedIsCurrent
<1>7. OwnerIsStored'
  BY DEF OwnerIsStored
<1>8. SentIsStored'
  BY DEF SentIsStored
<1> QED  BY <1>1, <1>2, <1>3, <1>4, <1>5, <1>6, <1>7, <1>8

\* What expires in the database touches neither the payload nor the owner.
LEMMA ExpiryKeeps ==
    ASSUME IInv, StoredExpires \/ \E ch \in Channels : ChannelExpires(ch)
    PROVE  IInv'
<1> USE DEF IInv, StoredExpires, ChannelExpires, announcer, handlers, database
<1>1. TypeOK'
  <2>1. row' \in Row \cup {Nothing}
    BY DEF TypeOK, Row
  <2> QED  BY <2>1 DEF TypeOK
<1>2. BindOK'
  BY DEF BindOK
<1>3. StageOK'
  BY DEF StageOK
<1>4. SignedOK'
  BY DEF TypeOK, SignedOK, Row
<1>5. TimerIsArmed'
  BY DEF TimerIsArmed
<1>6. AnnouncedIsCurrent'
  BY DEF AnnouncedIsCurrent
<1>7. OwnerIsStored'
  <2>1. row # Nothing => row' # Nothing /\ row'.owner = row.owner
    BY RowWith DEF TypeOK
  <2> QED  BY <2>1 DEF OwnerIsStored
<1>8. SentIsStored'
  BY DEF TypeOK, SentIsStored, Row
<1> QED  BY <1>1, <1>2, <1>3, <1>4, <1>5, <1>6, <1>7, <1>8

\* The goroutine of a handler: what it puts on the changes channel is a change.
LEMMA HandlerKeeps ==
    ASSUME IInv, NEW h \in Handlers,
           \/ Handler(h) \/ CloseHandler(h)
           \/ \E ch \in Channels, key \in Owners : Bind(h, ch, key)
    PROVE  IInv'
<1> USE AnnounceAssumption DEF IInv, Handler, AddChannel, ReportOwner, ReportChannel,
    Report, CloseHandler, Bind, Fault, announcer, handlers, database
<1>1. TypeOK'
  <2>1. changes' \in Seq(Change) /\ Len(changes') <= QueueCap
    <3>1. CASE ReportOwner(h)
      <4>1. [what |-> "owner", value |-> hbind[h].key] \in Change
        BY <3>1 DEF BindOK, Change
      <4> QED  BY <3>1, <4>1 DEF TypeOK
    <3>2. CASE ReportChannel(h)
      <4>1. [what |-> "channel", value |-> Identity] \in Change
        BY DEF Change
      <4> QED  BY <3>2, <4>1 DEF TypeOK
    <3> QED  BY <3>1, <3>2 DEF TypeOK
  <2>2. hbind' \in [Handlers -> [chan : Channels, key : Owners] \cup {Nothing}]
    BY DEF TypeOK
  <2>3. chanTable' \subseteq Channels /\ binds' \in 0..MaxBinds /\ faults' \in 0..MaxFaults
    BY DEF TypeOK, BindOK
  <2> QED  BY <2>1, <2>2, <2>3 DEF TypeOK
<1>2. BindOK'
  BY DEF TypeOK, BindOK
<1>3. StageOK'
  BY DEF StageOK
<1>4. SignedOK'
  BY DEF TypeOK, SignedOK
<1>5. TimerIsArmed'
  BY DEF TimerIsArmed
<1>6. AnnouncedIsCurrent'
  BY DEF AnnouncedIsCurrent
<1>7. OwnerIsStored'
  BY DEF TypeOK, OwnerIsStored
<1>8. SentIsStored'
  BY DEF TypeOK, SentIsStored
<1> QED  BY <1>1, <1>2, <1>3, <1>4, <1>5, <1>6, <1>7, <1>8

\* A change of address that is put on the changes channel.
LEMMA AddressKeeps ==
    ASSUME IInv, NEW a \in Addrs, ChangePublicAddress(a)
    PROVE  IInv'
<1> USE AnnounceAssumption DEF IInv, ChangePublicAddress, announcer, handlers, database
<1>1. TypeOK'
  BY DEF TypeOK, Change
<1>2. BindOK'
  BY DEF BindOK
<1>3. StageOK'
  BY DEF StageOK
<1>4. SignedOK'
  BY DEF SignedOK
<1>5. TimerIsArmed'
  BY DEF TimerIsArmed
<1>6. AnnouncedIsCurrent'
  BY DEF AnnouncedIsCurrent
<1>7. OwnerIsStored'
  BY DEF OwnerIsStored
<1>8. SentIsStored'
  BY DEF SentIsStored
<1> QED  BY <1>1, <1>2, <1>3, <1>4, <1>5, <1>6, <1>7, <1>8

\* Every step keeps the inductive invariant.
LEMMA StepKeeps == IInv /\ [Next]_vars => IInv'
<1> SUFFICES ASSUME IInv, [Next]_vars  PROVE IInv'
  OBVIOUS
<1>1. CASE UNCHANGED vars
  BY <1>1 DEF vars, announcer, handlers, database, IInv, TypeOK, BindOK, StageOK, SignedOK,
     TimerIsArmed, AnnouncedIsCurrent, OwnerIsStored, SentIsStored
<1> QED
  BY <1>1, StartKeeps, LoadOrGenerateKeeps, HandleChangeKeeps, TimerKeeps, GeneratingKeeps,
     EndKeeps, ExpiryKeeps, HandlerKeeps, AddressKeeps DEF Next

\* The invariant of every behaviour of the announce service.
THEOREM Invariance == Spec => []IInv
<1>1. Init => IInv
  <2> SUFFICES ASSUME Init  PROVE IInv
    OBVIOUS
  <2>1. TypeOK
    <3>1. FirstContent \in Content
      BY AnnounceAssumption DEF FirstContent, Content
    <3> QED  BY <3>1, AnnounceAssumption DEF Init, TypeOK
  <2>2. BindOK /\ StageOK /\ SignedOK
    BY DEF Init, BindOK, StageOK, SignedOK
  <2>3. TimerIsArmed /\ AnnouncedIsCurrent /\ OwnerIsStored /\ SentIsStored
    BY DEF Init, FirstContent, TimerIsArmed, AnnouncedIsCurrent, OwnerIsStored, SentIsStored
  <2> QED  BY <2>1, <2>2, <2>3 DEF IInv
<1> QED  BY <1>1, StepKeeps, PTL DEF Spec

-----------------------------------------------------------------------------
(* The properties.                                                         *)

\* The variables of the announce service, of the handlers that report to it and
\* of the rows they share keep their types.
THEOREM TypeCorrect == Spec => []TypeOK
BY Invariance, PTL DEF IInv

\* Run never waits with its timer off: every path back to its select, from
\* loadOrGenerateAnnounce, from a change and from generateAnnounce, sets it.
THEOREM TimerStaysArmed == Spec => []TimerIsArmed
BY Invariance, PTL DEF IInv

\* Once an announcement is out, a change that makes it out of date leaves a
\* timer of ten seconds behind it.
THEOREM AnnouncedStaysCurrent == Spec => []AnnouncedIsCurrent
BY Invariance, PTL DEF IInv

\* The owner that Run announces is the owner of the announce row, which
\* SetAnnounceOwner writes, SetAnnounce keeps and a restart reads.
THEOREM OwnerSurvives == Spec => []OwnerIsStored
BY Invariance, PTL DEF IInv

\* The announcement in the row is the one that was sent last, so that a restart
\* sends the same again.
THEOREM SentSurvives == Spec => []SentIsStored
BY Invariance, PTL DEF IInv

\* What Run hands to NetService, whether it has just signed it or read it back
\* from the row, is the content as it is at that step.
THEOREM NothingElseIsSent == Spec => SendsCurrent
<1>1. [Next]_vars => [sent' # sent /\ sent' # Nothing => sent' = next']_vars
  <2> SUFFICES ASSUME Next, sent' # sent, sent' # Nothing  PROVE sent' = next'
    OBVIOUS
  <2> USE DEF announcer
  <2>1. CASE LoadOrGenerate
    BY <2>1 DEF LoadOrGenerate, Reusable
  <2>2. CASE Send
    BY <2>2 DEF Send
  <2>3. CASE Crash
    BY <2>3 DEF Crash
  <2> QED
    BY <2>1, <2>2, <2>3 DEF Next, Start, FetchPublicAddress, HandleChange, TimerRunsOut,
       TimerFires, Generating, Sign, StoreOwnNode, Stop, StoredExpires, ChannelExpires,
       Bind, Handler, AddChannel, ReportOwner, ReportChannel, Report, CloseHandler,
       ChangePublicAddress
<1> QED  BY <1>1, PTL DEF Spec, SendsCurrent

=============================================================================
