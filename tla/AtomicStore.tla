---------------------------- MODULE AtomicStore ----------------------------
(***************************************************************************)
(* What the store promises its callers (pkg/spec/store.go): a call either  *)
(* takes effect as a whole, once, and answers from the tables as they were *)
(* at that moment, or it fails and leaves the tables alone.                *)
(***************************************************************************)
EXTENDS NodeTables

CONSTANTS
    Callers,   \* goroutines that call the store
    NoCall,    \* a caller is not in a call
    FirstDay,  \* the day the database was created
    Days       \* days on which calls run

VARIABLES
    db,      \* the tables
    doing,   \* the call each caller is in, or NoCall
    answer   \* what a call returned in the latest step

Silence == [ok |-> TRUE]

Init ==
    /\ db = FirstTables(FirstDay)
    /\ doing = [c \in Callers |-> NoCall]
    /\ answer = Silence

Start(c, call) ==
    /\ doing[c] = NoCall
    /\ doing' = [doing EXCEPT ![c] = call]
    /\ answer' = Silence
    /\ UNCHANGED db

\* A call may report a change of a record although it found the record there:
\* an earlier attempt of the same call, undone, had not.
Succeed(c, today) ==
    /\ doing[c] # NoCall
    /\ db' = Effect(db, doing[c], today)
    /\ \E changed \in BOOLEAN, read \in Reads(db, doing[c]) :
        /\ Changes(db, doing[c]) => changed
        /\ answer' = [by |-> c, ok |-> TRUE, changed |-> changed, read |-> read]
    /\ doing' = [doing EXCEPT ![c] = NoCall]

Fail(c) ==
    /\ doing[c] # NoCall
    /\ \E changed \in BOOLEAN :
        answer' = [by |-> c, ok |-> FALSE, changed |-> changed, read |-> {}]
    /\ doing' = [doing EXCEPT ![c] = NoCall]
    /\ UNCHANGED db

\* The process ends: calls are lost, what succeeded stays.
Crash ==
    /\ doing' = [c \in Callers |-> NoCall]
    /\ answer' = Silence
    /\ UNCHANGED db

Continue == answer' = Silence /\ UNCHANGED <<db, doing>>

Next ==
    \/ Crash \/ Continue
    \/ \E c \in Callers :
        \/ \E call \in Calls : Start(c, call)
        \/ \E today \in Days : Succeed(c, today)
        \/ Fail(c)

Spec == Init /\ [][Next]_<<db, doing, answer>>

=============================================================================
