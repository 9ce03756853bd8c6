------------------------------ MODULE Announce ------------------------------
(***************************************************************************)
(* The announce service (internal/announce/announce.go): one goroutine     *)
(* that keeps the content of this node's announcement, signs it, stores it *)
(* and hands it to NetService - at start, 10 seconds after a change, and   *)
(* every 24 hours.  With it the handler connections that report changes    *)
(* (internal/netsvc/handler.go), and the rows of the database that outlive *)
(* the process: the announce row, the channels, this node's own node row.  *)
(*                                                                         *)
(* A database transaction is one action; a crash may come between any two. *)
(* Time is abstract: a timer has been set short or long, and it has run    *)
(* out or not.                                                             *)
(***************************************************************************)
EXTENDS Naturals, Sequences, FiniteSets

CONSTANTS
    Addrs,         \* public addresses of this node
    NoAddr,        \* no public address
    Owners,        \* public keys of identity handlers
    ZeroOwner,     \* no owner
    Channels,      \* channels handlers bind to
    Identity,      \* the channel of the identity handler
    Handlers,      \* handler connections open at a time
    Public,        \* the address of --public, or NoAddr
    UseReflector,  \* ask the reflector for the address at start
    QueueCap,      \* capacity of the changes channel
    Nothing,       \* no announcement, no database row
    MaxBinds,      \* bound: handler binds and address changes
    MaxFaults,     \* bound: failing transactions
    MaxCrashes     \* bound: crashes

ASSUME AnnounceAssumption ==
    /\ NoAddr \notin Addrs
    /\ ZeroOwner \notin Owners
    /\ Identity \in Channels
    /\ Public \in Addrs \cup {NoAddr}
    /\ UseReflector \in BOOLEAN
    /\ {QueueCap, MaxBinds, MaxFaults, MaxCrashes} \subseteq Nat

\* node.AddressMsg, apart from its time.
Content == [addr : Addrs \cup {NoAddr}, owner : Owners \cup {ZeroOwner},
            chans : SUBSET Channels]

\* The announce row: an announcement, or only the owner of one to come.
Row == [payload : Content \cup {Nothing}, fresh : BOOLEAN, owner : Owners]

ASSUME NothingAssumption == Nothing \notin Content \cup Row

\* spec.Change*; only a new owner and a new address carry a value that is used.
Change == [what : {"owner"}, value : Owners]
    \cup [what : {"address"}, value : Addrs]
    \cup [what : {"channel"}, value : {Identity}]

VARIABLES
    \* memory
    pc,        \* goroutine Run
    next,      \* nextAnnounce
    sent,      \* the last announcement given to NetService, or Nothing
    timer,     \* the timer and its channel
    changes,   \* channel from the handlers
    hpc,       \* goroutine receiveFromHandler, per handler
    hbind,     \* the BindMessage it received: channel and key
    \* database
    row,       \* the announce row, or Nothing
    chanTable, \* rows of channels
    ownNode,   \* content of this node's row in node, or Nothing
    \* counters of the bounds
    binds, faults, crashes

announcer == <<pc, next, sent, timer>>
handlers  == <<hpc, hbind>>
database  == <<row, chanTable, ownNode>>
vars == <<announcer, changes, handlers, database, binds, faults, crashes>>

TypeOK ==
    /\ pc \in {"down", "reflect", "load", "select", "sign", "self", "send", "exited"}
    /\ next \in Content
    /\ sent \in Content \cup {Nothing}
    /\ timer \in {"off", "soon", "daily", "fired"}
    /\ changes \in Seq(Change) /\ Len(changes) <= QueueCap
    /\ hpc \in [Handlers -> {"idle", "add", "owner", "channel", "bound"}]
    /\ hbind \in [Handlers -> [chan : Channels, key : Owners] \cup {Nothing}]
    /\ row \in Row \cup {Nothing}
    /\ chanTable \subseteq Channels
    /\ ownNode \in Content \cup {Nothing}
    /\ binds \in 0..MaxBinds /\ faults \in 0..MaxFaults /\ crashes \in 0..MaxCrashes

FirstContent == [addr |-> Public, owner |-> ZeroOwner, chans |-> {}]

Init ==
    /\ pc = "down"
    /\ next = FirstContent
    /\ sent = Nothing
    /\ timer = "off"
    /\ changes = <<>>
    /\ hpc = [h \in Handlers |-> "idle"]
    /\ hbind = [h \in Handlers |-> Nothing]
    /\ row = Nothing
    /\ chanTable = {}
    /\ ownNode = Nothing
    /\ binds = 0 /\ faults = 0 /\ crashes = 0

\* AddressMsg.IsValid: there is an address to announce.
IsValid(content) == content.addr # NoAddr

\* A transaction fails and changes nothing.
Fault == faults < MaxFaults /\ faults' = faults + 1

-----------------------------------------------------------------------------
(* The database.                                                           *)

\* Slip: the expiry is stored and the payload is not.
SetAnnounceExpiry(content) ==
    /\ row' = IF row = Nothing THEN Nothing ELSE [row EXCEPT !.fresh = TRUE]
    /\ UNCHANGED <<chanTable, ownNode>>

\* SetAnnounce: an UPDATE, or on an empty table an INSERT of three values into
\* four columns, which SQLite refuses.
SetAnnounce(content) ==
    /\ row' = IF row = Nothing THEN Nothing
              ELSE [row EXCEPT !.payload = content, !.fresh = TRUE]
    /\ UNCHANGED <<chanTable, ownNode>>

\* Slip: SetAnnounceOwner without its INSERT.
UpdateAnnounceOwner(key) ==
    row' = IF row = Nothing THEN Nothing ELSE [row EXCEPT !.owner = key]

\* SetAnnounceOwner: an UPDATE, or an INSERT with an empty payload.
SetAnnounceOwner(key) ==
    row' = IF row = Nothing THEN [payload |-> Nothing, fresh |-> FALSE, owner |-> key]
           ELSE [row EXCEPT !.owner = key]

\* The 24 hours of the stored announcement have passed.
StoredExpires ==
    /\ row # Nothing
    /\ row.fresh
    /\ row' = [row EXCEPT !.fresh = FALSE]
    /\ UNCHANGED <<announcer, changes, handlers, chanTable, ownNode, binds, faults, crashes>>

\* TrimNodes: a channel that was not bound for 7 days.
ChannelExpires(ch) ==
    /\ ch \in chanTable
    /\ chanTable' = chanTable \ {ch}
    /\ UNCHANGED <<announcer, changes, handlers, row, ownNode, binds, faults, crashes>>

-----------------------------------------------------------------------------
(* Announce.Run                                                            *)

Start ==
    /\ pc = "down"
    /\ pc' = IF UseReflector THEN "reflect" ELSE "load"
    /\ UNCHANGED <<next, sent, timer, changes, handlers, database, binds, faults, crashes>>

\* fetchPublicAddress succeeds; until then it retries.
FetchPublicAddress ==
    /\ pc = "reflect"
    /\ \E a \in Addrs : next' = [next EXCEPT !.addr = a]
    /\ pc' = "load"
    /\ UNCHANGED <<sent, timer, changes, handlers, database, binds, faults, crashes>>

\* generateAnnounce of an invalid message returns at once; otherwise it signs.
Generate(content) ==
    IF IsValid(content) THEN pc' = "sign" /\ timer' = "off"
    ELSE pc' = "select" /\ timer' = "daily"

\* Slip: the stored announcement is taken without comparing its content.
ReusableAlways(content) == row # Nothing /\ row.fresh /\ row.payload # Nothing

\* The stored announcement may be sent again: it has not expired and says
\* what a new one would say.
Reusable(content) == row # Nothing /\ row.fresh /\ row.payload = content

\* loadOrGenerateAnnounce
LoadOrGenerate ==
    LET withChannels == [next EXCEPT !.chans = chanTable]
        withOwner    == IF row = Nothing THEN withChannels
                        ELSE [withChannels EXCEPT !.owner = row.owner]
    IN /\ pc = "load"
       /\ \/ /\ Fault                              \* GetChannels fails
             /\ pc' = "select" /\ timer' = "daily"
             /\ UNCHANGED <<next, sent>>
          \/ /\ Fault                              \* GetAnnounce fails
             /\ next' = withChannels
             /\ Generate(next')
             /\ UNCHANGED sent
          \/ /\ next' = withOwner
             /\ IF IsValid(next') /\ Reusable(next')
                THEN sent' = row.payload /\ pc' = "select" /\ timer' = "daily"
                ELSE Generate(next') /\ UNCHANGED sent
             /\ UNCHANGED faults
       /\ UNCHANGED <<changes, handlers, database, binds, crashes>>

TimerRunsOut ==
    /\ timer \in {"soon", "daily"}
    /\ timer' = "fired"
    /\ UNCHANGED <<pc, next, sent, changes, handlers, database, binds, faults, crashes>>

\* Slip: a change that is accepted does not restart the timer.
RestartNothing(content) == UNCHANGED timer

\* Slip: the timer is stopped for a change and not Reset.
StopTimer(content) ==
    IF IsValid(content) THEN timer # "off" /\ timer' = "off" ELSE UNCHANGED timer

\* Stop, drain and Reset.  Draining a timer that neither runs nor has fired
\* would block for ever.
RestartTimer(content) ==
    IF IsValid(content) THEN timer # "off" /\ timer' = "soon" ELSE UNCHANGED timer

\* One change.  A key or a set of channels that is the same as before, or a
\* GetChannels that fails, is ignored; a SetAnnounceOwner that fails is not.
HandleChange ==
    LET change == Head(changes)
        Ignore == UNCHANGED <<next, timer, row, faults>>
    IN /\ pc = "select"
       /\ changes # <<>>
       /\ changes' = Tail(changes)
       /\ \/ /\ change.what = "address"
             /\ next' = [next EXCEPT !.addr = change.value]
             /\ RestartTimer(next')
             /\ UNCHANGED <<row, faults>>
          \/ /\ change.what = "owner"
             /\ IF change.value = next.owner THEN Ignore
                ELSE /\ next' = [next EXCEPT !.owner = change.value]
                     /\ RestartTimer(next')
                     /\ \/ SetAnnounceOwner(change.value) /\ UNCHANGED faults
                        \/ Fault /\ UNCHANGED row
          \/ /\ change.what = "channel"
             /\ IF chanTable = next.chans THEN Ignore
                ELSE /\ next' = [next EXCEPT !.chans = chanTable]
                     /\ RestartTimer(next')
                     /\ UNCHANGED <<row, faults>>
          \/ /\ change.what = "channel"
             /\ Fault
             /\ UNCHANGED <<next, timer, row>>
       /\ UNCHANGED <<pc, sent, handlers, chanTable, ownNode, binds, crashes>>

TimerFires ==
    /\ pc = "select"
    /\ timer = "fired"
    /\ Generate(next)
    /\ UNCHANGED <<next, sent, changes, handlers, database, binds, faults, crashes>>

\* generateAnnounce, first transaction: store the signed announcement.
Sign ==
    /\ pc = "sign"
    /\ \/ SetAnnounce(next) /\ UNCHANGED faults
       \/ Fault /\ UNCHANGED database
    /\ pc' = "self"
    /\ UNCHANGED <<next, sent, timer, changes, handlers, binds, crashes>>

\* generateAnnounce, second transaction: AddNetNode of this node itself.
StoreOwnNode ==
    /\ pc = "self"
    /\ \/ ownNode' = next /\ UNCHANGED faults
       \/ Fault /\ UNCHANGED ownNode
    /\ pc' = "send"
    /\ UNCHANGED <<next, sent, timer, changes, handlers, row, chanTable, binds, crashes>>

\* Slip: the timer is not set again after an announcement was sent.
SendOnce ==
    /\ pc = "send"
    /\ sent' = next
    /\ pc' = "select"
    /\ UNCHANGED <<next, timer, changes, handlers, database, binds, faults, crashes>>

\* receiver.ReceiveAnnounce, then the timer is set again.
Send ==
    /\ pc = "send"
    /\ sent' = next
    /\ timer' = "daily"
    /\ pc' = "select"
    /\ UNCHANGED <<next, changes, handlers, database, binds, faults, crashes>>

\* The context is cancelled: seen by the select, and by the reflector loop.
Stop ==
    /\ pc \in {"reflect", "select"}
    /\ pc' = "exited"
    /\ UNCHANGED <<next, sent, timer, changes, handlers, database, binds, faults, crashes>>

\* The process ends, at any point; what is not in the database is gone.
Crash ==
    /\ pc # "down"
    /\ crashes < MaxCrashes
    /\ crashes' = crashes + 1
    /\ pc' = "down"
    /\ next' = FirstContent
    /\ sent' = Nothing
    /\ timer' = "off"
    /\ changes' = <<>>
    /\ hpc' = [h \in Handlers |-> "idle"]
    /\ hbind' = [h \in Handlers |-> Nothing]
    /\ UNCHANGED <<database, binds, faults>>

-----------------------------------------------------------------------------
(* receiveFromHandler, up to its reply.                                    *)

Bind(h, ch, key) ==
    /\ pc # "down"
    /\ hpc[h] = "idle"
    /\ binds < MaxBinds
    /\ binds' = binds + 1
    /\ hpc' = [hpc EXCEPT ![h] = "add"]
    /\ hbind' = [hbind EXCEPT ![h] = [chan |-> ch, key |-> key]]
    /\ UNCHANGED <<announcer, changes, database, faults, crashes>>

\* Only the identity handler reports to the announce service.
AddChannel(h) ==
    /\ hpc[h] = "add"
    /\ \/ /\ chanTable' = chanTable \cup {hbind[h].chan}
          /\ hpc' = [hpc EXCEPT ![h] = IF hbind[h].chan = Identity THEN "owner" ELSE "bound"]
          /\ UNCHANGED faults
       \/ /\ Fault
          /\ hpc' = [hpc EXCEPT ![h] = "idle"]
          /\ UNCHANGED chanTable
    /\ UNCHANGED <<announcer, changes, hbind, row, ownNode, binds, crashes>>

\* Slip: a send that does not wait.
ReportAtOnce(h, change, from, to) ==
    /\ hpc[h] = from
    /\ changes' = Append(changes, change)
    /\ hpc' = [hpc EXCEPT ![h] = to]
    /\ UNCHANGED <<announcer, hbind, database, binds, faults, crashes>>

\* A send on the changes channel waits while it is full.
Report(h, change, from, to) ==
    /\ hpc[h] = from
    /\ Len(changes) < QueueCap
    /\ changes' = Append(changes, change)
    /\ hpc' = [hpc EXCEPT ![h] = to]
    /\ UNCHANGED <<announcer, hbind, database, binds, faults, crashes>>

ReportOwner(h) ==
    Report(h, [what |-> "owner", value |-> hbind[h].key], "owner", "channel")

ReportChannel(h) ==
    Report(h, [what |-> "channel", value |-> Identity], "channel", "bound")

CloseHandler(h) ==
    /\ hpc[h] = "bound"
    /\ hpc' = [hpc EXCEPT ![h] = "idle"]
    /\ UNCHANGED <<announcer, changes, hbind, database, binds, faults, crashes>>

\* spec.ChangePublicAddress: Run takes it, no part of the program sends it yet.
ChangePublicAddress(a) ==
    /\ pc # "down"
    /\ binds < MaxBinds
    /\ binds' = binds + 1
    /\ Len(changes) < QueueCap
    /\ changes' = Append(changes, [what |-> "address", value |-> a])
    /\ UNCHANGED <<announcer, handlers, database, faults, crashes>>

-----------------------------------------------------------------------------

Handler(h) == AddChannel(h) \/ ReportOwner(h) \/ ReportChannel(h)

Generating == Sign \/ StoreOwnNode \/ Send

Next ==
    \/ Start \/ FetchPublicAddress \/ LoadOrGenerate \/ HandleChange
    \/ TimerRunsOut \/ TimerFires \/ Generating \/ Stop \/ Crash
    \/ StoredExpires
    \/ \E ch \in Channels : ChannelExpires(ch)
    \/ \E h \in Handlers, ch \in Channels, key \in Owners : Bind(h, ch, key)
    \/ \E h \in Handlers : Handler(h) \/ CloseHandler(h)
    \/ \E a \in Addrs : ChangePublicAddress(a)

Spec == Init /\ [][Next]_vars

\* Goroutines run and timers run out.  A select with a change and a timer
\* both ready takes either, at random, so a change is not passed over for
\* ever.  Nothing is assumed of the reflector, nor of handlers that bind.
Fairness ==
    /\ WF_vars(Start) /\ WF_vars(LoadOrGenerate) /\ WF_vars(Generating)
    /\ WF_vars(TimerRunsOut) /\ SF_vars(TimerFires) /\ SF_vars(HandleChange)
    /\ \A h \in Handlers : WF_vars(AddChannel(h)) /\ SF_vars(Handler(h))

FairSpec == Spec /\ Fairness

-----------------------------------------------------------------------------
(* Safety.                                                                 *)

\* While Run waits, the timer runs or has run out: no announcement would ever
\* follow otherwise, and the drain of a change ("<-timer.C") would block the
\* goroutine, and every handler behind it, for ever.
TimerIsArmed == pc = "select" => timer # "off"

\* What peers were last told is what a new announcement would say, unless a
\* new one is due in seconds.  Holds from the first announcement on: a failed
\* GetChannels at start leaves the node silent for a day.
AnnouncedIsCurrent ==
    pc = "select" /\ sent # Nothing => sent = next \/ timer \in {"soon", "fired"}

\* A node never announces an address, an owner or channels other than its
\* own, whatever it finds in the database: a new announcement or a reused one
\* is, at the step that gives it to NetService, the current content.
SendsCurrent == [][sent' # sent /\ sent' # Nothing => sent' = next']_vars

\* An owner this process knows survives its end: the row that a restart will
\* read has it, whether the owner came before or after the announcement.
OwnerIsStored ==
    faults = 0 /\ next.owner # ZeroOwner => row # Nothing /\ row.owner = next.owner

\* Between changes, a restart finds the announcement that was sent last, and
\* so neither signs nor gossips a new one.  (Once there is a row: see
\* AnnouncementIsStored.)
SentIsStored ==
    pc = "select" /\ timer = "daily" /\ faults = 0 /\ sent # Nothing /\ row # Nothing
        => row.payload = sent

-----------------------------------------------------------------------------
(* Liveness, of FairSpec.                                                  *)

Running == pc \notin {"down", "exited"}

\* Run has its address: until the reflector answers, it takes no changes.
Serving == Running /\ pc # "reflect"

\* A change the service has accepted is announced: nothing postpones it for
\* ever, if changes stop coming (MaxBinds), and no failing transaction loses it.
ChangesAreAnnounced ==
    (pc = "select" /\ sent # Nothing /\ sent # next) ~> (sent = next \/ ~Running)

\* A handler is not stuck in a send to the announce service while that serves.
\* (It is while the reflector does not answer.)
HandlersGetThrough ==
    \A h \in Handlers : (Serving /\ hpc[h] \in {"add", "owner", "channel"})
                            ~> (~Serving \/ hpc[h] \in {"idle", "bound"})

-----------------------------------------------------------------------------
(* What comments of the code say and the code does not do.                 *)

\* announce.go:204 "store the announcement to re-use on next startup".
AnnouncementIsStored == pc = "self" /\ faults = 0 => row # Nothing /\ row.payload = next

\* announce.go:78 "whenever the node's address or channels change, gossip a new
\* announcement."
ChannelsAreAnnounced ==
    (pc = "select" /\ sent # Nothing /\ next.chans # chanTable)
        ~> (next.chans = chanTable \/ ~Running)

=============================================================================
