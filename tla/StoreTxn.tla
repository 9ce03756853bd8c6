------------------------------ MODULE StoreTxn ------------------------------
(***************************************************************************)
(* How a call of the store runs (internal/store/sqlite.go, doTxn): begin,  *)
(* run the closure, commit, and start again after a conflict with another  *)
(* process.  The database/sql pool is limited to one connection, which a   *)
(* transaction holds from Begin to Commit or Rollback.  A closure returns  *)
(* some errors of SQLite as they are and wraps others; doTxn recognises a  *)
(* conflict only in the former.                                            *)
(***************************************************************************)
EXTENDS NodeTables

CONSTANTS
    Callers,   \* goroutines that call the store
    CallsOf,   \* the calls each of them makes
    NoCall,    \* a caller is not in a call
    Free,      \* no caller holds the connection
    Limit,     \* attempts of a call (120)
    FirstDay,  \* the day the database was created
    MaxDay     \* bound: the last day

ASSUME TxnAssumption ==
    /\ NoCall \notin Calls
    /\ CallsOf \in [Callers -> SUBSET Calls]
    /\ Free \notin Callers
    /\ Limit \in Nat \ {0}
    /\ FirstDay \in Nat /\ MaxDay \in Nat /\ FirstDay <= MaxDay

VARIABLES
    db,       \* the committed tables
    conn,     \* the caller whose transaction holds the connection, or Free
    pc,       \* where each caller is in doTxn
    doing,    \* the call it makes
    limit,    \* its variable limit
    view,     \* the tables as its transaction has written them
    changed,  \* the result its closure has set, in any attempt
    read,     \* the rows its closure has read
    answer,   \* what a call returned in the latest step
    today,    \* the date
    written   \* the date on which each node row was last written

callers == <<pc, doing, limit, view, changed, read>>
vars == <<db, conn, callers, answer, today, written>>

Days == FirstDay .. MaxDay

Answer == [by : Callers, ok : BOOLEAN, changed : BOOLEAN,
           read : (SUBSET Keys) \cup (SUBSET Chans)]

Silence == [ok |-> TRUE]

TypeOK ==
    /\ db \in Tables
    /\ conn \in Callers \cup {Free}
    /\ pc \in [Callers -> {"idle", "begin", "work", "commit"}]
    /\ doing \in [Callers -> Calls \cup {NoCall}]
    /\ limit \in [Callers -> 0..Limit]
    /\ view \in [Callers -> [tables : Tables, day : Days]]
    /\ changed \in [Callers -> BOOLEAN]
    /\ read \in [Callers -> (SUBSET Keys) \cup (SUBSET Chans)]
    /\ answer \in Answer \cup {Silence}
    /\ today \in Days
    /\ written \in [Keys -> Days]

NoView == [tables |-> FirstTables(FirstDay), day |-> FirstDay]

Init ==
    /\ db = FirstTables(FirstDay)
    /\ conn = Free
    /\ pc = [c \in Callers |-> "idle"]
    /\ doing = [c \in Callers |-> NoCall]
    /\ limit = [c \in Callers |-> Limit]
    /\ view = [c \in Callers |-> NoView]
    /\ changed = [c \in Callers |-> FALSE]
    /\ read = [c \in Callers |-> {}]
    /\ answer = Silence
    /\ today = FirstDay
    /\ written = [k \in Keys |-> FirstDay]

-----------------------------------------------------------------------------

\* The closure returns the errors of its statements unwrapped.
ReturnsRawErrors(call) == call.op \in {"AddChannel", "GetChannels"}

OnlyReads(call) == call.op \in {"GetChannels", "ChooseNetNodeMsg"}

\* doTxn returns, and the deferred Rollbacks end whatever transaction is open.
Return(c, ok) ==
    /\ answer' = [by |-> c, ok |-> ok, changed |-> changed[c],
                  read |-> IF ok THEN read[c] ELSE {}]
    /\ changed' = [changed EXCEPT ![c] = FALSE]
    /\ pc' = [pc EXCEPT ![c] = "idle"]
    /\ doing' = [doing EXCEPT ![c] = NoCall]
    /\ limit' = [limit EXCEPT ![c] = Limit]
    /\ view' = [view EXCEPT ![c] = NoView]
    /\ read' = [read EXCEPT ![c] = {}]

\* Slip: the attempts are counted and never used up.
AttemptsLeftAlways(c) == TRUE

AttemptsLeft(c) == limit[c] > 1

\* After a conflict: start again, or give up.  (The sleep before that is part of
\* the wait for the connection.)
Retry(c) ==
    \/ /\ AttemptsLeft(c)
       /\ limit' = [limit EXCEPT ![c] = @ - 1]
       /\ pc' = [pc EXCEPT ![c] = "begin"]
       /\ view' = [view EXCEPT ![c] = NoView]
       /\ answer' = Silence
       /\ UNCHANGED <<doing, changed, read>>
    \/ ~AttemptsLeft(c) /\ Return(c, FALSE)

Call(c, call) ==
    /\ pc[c] = "idle"
    /\ pc' = [pc EXCEPT ![c] = "begin"]
    /\ doing' = [doing EXCEPT ![c] = call]
    /\ answer' = Silence
    /\ UNCHANGED <<db, conn, limit, view, changed, read, today, written>>

\* Slip: more than one connection in the pool.
AvailableAlways == TRUE

Available == conn = Free

\* db.Begin waits for the connection.
Begin(c) ==
    /\ pc[c] = "begin"
    /\ Available
    /\ \/ /\ conn' = c
          /\ pc' = [pc EXCEPT ![c] = "work"]
          /\ answer' = Silence
          /\ UNCHANGED <<doing, limit, view, changed, read>>
       \/ UNCHANGED conn /\ Retry(c)                          \* a conflict
       \/ UNCHANGED conn /\ Return(c, FALSE)
    /\ UNCHANGED <<db, today, written>>

\* Slip: an error that ends the call leaves the transaction open.
AfterNoRollback == conn

\* Who has the connection when doTxn returns.
AfterRollback == Free

\* The closure runs.  A raw conflict goes to the next attempt without a
\* Rollback: the transaction stays open and the connection taken.  (When the
\* attempts are used up doTxn returns, which does roll back.)
Work(c) ==
    /\ pc[c] = "work"
    /\ \/ /\ view' = [view EXCEPT ![c] = [tables |-> Effect(db, doing[c], today), day |-> today]]
          /\ changed' = [changed EXCEPT ![c] = @ \/ Changes(db, doing[c])]
          /\ \E r \in Reads(db, doing[c]) : read' = [read EXCEPT ![c] = r]
          /\ pc' = [pc EXCEPT ![c] = "commit"]
          /\ answer' = Silence
          /\ UNCHANGED <<conn, limit, doing>>
       \/ /\ ReturnsRawErrors(doing[c])                       \* a conflict
          /\ conn' = IF AttemptsLeft(c) THEN conn ELSE AfterRollback
          /\ Retry(c)
       \/ conn' = AfterRollback /\ Return(c, FALSE)           \* or no node found
    /\ UNCHANGED <<db, today, written>>

\* A transaction that only reads commits without a conflict.
Commit(c) ==
    /\ pc[c] = "commit"
    /\ conn' = Free
    /\ UNCHANGED today
    /\ \/ /\ db' = view[c].tables
          /\ written' = [k \in Keys |-> IF db'.node[k] = db.node[k] THEN written[k]
                                         ELSE IF db'.node[k] = NoRow THEN FirstDay
                                         ELSE view[c].day]
          /\ Return(c, TRUE)
       \/ /\ ~OnlyReads(doing[c])                            \* a conflict
          /\ UNCHANGED <<db, written>>
          /\ Retry(c)
       \/ UNCHANGED <<db, written>> /\ Return(c, FALSE)

\* Time passes; the computer, or the program, may be off for days.
DayPasses ==
    /\ today' \in (today + 1) .. MaxDay
    /\ answer' = Silence
    /\ UNCHANGED <<db, conn, callers, written>>

Crash ==
    /\ conn' = Free
    /\ pc' = [c \in Callers |-> "idle"]
    /\ doing' = [c \in Callers |-> NoCall]
    /\ limit' = [c \in Callers |-> Limit]
    /\ view' = [c \in Callers |-> NoView]
    /\ changed' = [c \in Callers |-> FALSE]
    /\ read' = [c \in Callers |-> {}]
    /\ answer' = Silence
    /\ UNCHANGED <<db, today, written>>

-----------------------------------------------------------------------------

Next ==
    \/ DayPasses
    \/ Crash
    \/ \E c \in Callers :
        \/ \E call \in CallsOf[c] : Call(c, call)
        \/ Begin(c) \/ Work(c) \/ Commit(c)

Spec == Init /\ [][Next]_vars

\* Goroutines run, and the pool gives the connection to those that wait for it
\* in the order in which they came.  A call is not made again for ever: see
\* Limit.  Nothing is assumed of callers, of time, or of crashes.
Fairness == \A c \in Callers :
    SF_vars(Begin(c)) /\ WF_vars(Work(c)) /\ WF_vars(Commit(c))

FairSpec == Spec /\ Fairness

-----------------------------------------------------------------------------
(* Safety.                                                                 *)

\* The channels listed for a node are those of the announcement stored for it:
\* not those of an earlier one, nor of a deleted node whose rowid came back
\* (TrimNodes leaves the rows of chan), nor of a transaction that failed.
ChannelsMatchPayload ==
    \A k \in StoredKeys(db) :
        /\ ChansAt(db, db.node[k].oid) = ChansOf[db.node[k].payload]
        /\ \A other \in StoredKeys(db) \ {k} : db.node[other].oid # db.node[k].oid

\* Nothing that has expired outlives the TrimNodes of its day, and nothing is
\* kept for longer than it should be.
KeptInWindow ==
    /\ \A k \in StoredKeys(db) : db.node[k].dayc \in db.dayc .. (db.dayc + NodeDays)
    /\ \A ch \in StoredChans(db) : db.channels[ch] \in db.dayc .. (db.dayc + ChanDays)

\* "This causes expiry to lag by the number of offline days": days on which the
\* program did not run are never counted against a record, however far the date
\* jumps, however often TrimNodes is called, retried, or cut off by a crash.
NoEarlyExpiry ==
    [][\A k \in Keys : db.node[k] # NoRow /\ db'.node[k] = NoRow
            => written[k] + NodeDays <= today]_vars

\* Calls take effect as a whole, one at a time, whatever conflicts, failures
\* and crashes come between.
Abstract == INSTANCE AtomicStore
AtomicSpec == Abstract!Spec

-----------------------------------------------------------------------------
(* Liveness, of FairSpec.                                                  *)

\* A caller that waits to begin holds the connection itself, with a transaction
\* that nobody will end.
Abandoned == \E c \in Callers : conn = c /\ pc[c] = "begin"

\* A call returns, unless a transaction was abandoned.
ReturnsOrAbandoned == \A c \in Callers : (pc[c] # "idle") ~> (pc[c] = "idle" \/ Abandoned)

-----------------------------------------------------------------------------
(* What a comment of the code says and the code does not do.               *)

\* pkg/spec/errors.go:13 "Store must return this when a DB Txn Conflict occurs
\* (caller must retry Txn)": a call returns, whatever conflicts it meets.
ConflictsReturn == \A c \in Callers : (pc[c] # "idle") ~> (pc[c] = "idle")

=============================================================================
