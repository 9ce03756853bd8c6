----------------------------- MODULE NodeTables -----------------------------
(***************************************************************************)
(* The tables of the database that peers, handlers and the trimmer share   *)
(* (internal/store/sqlite.go): config, node, chan and channels.  What a    *)
(* transaction does to them, and what it answers, is a function of the     *)
(* tables and of the day on which it runs.                                 *)
(***************************************************************************)
EXTENDS Naturals, FiniteSetsExt

CONSTANTS
    Keys,        \* public keys of nodes
    Payloads,    \* announcements
    Chans,       \* channels
    ChansOf,     \* channels an announcement lists
    NoRow,       \* no row for a key
    NodeDays,    \* days a node is kept (30)
    ChanDays     \* days a channel is kept (7)

Rowids == Nat \ {0}

Row == [oid : Rowids, payload : Payloads, dayc : Nat]

ASSUME TablesAssumption ==
    /\ ChansOf \in [Payloads -> SUBSET Chans]
    /\ NodeDays \in Nat /\ ChanDays \in Nat \ {0}
    /\ NoRow \notin Row

\* dayc counts the days on which the trimmer ran; last is the latest of them.
\* The rows of chan belong to rows of node, by rowid.  A channel is in the
\* table channels if its day count is not 0.
Tables == [dayc     : Nat,
           last     : Nat,
           node     : [Keys -> Row \cup {NoRow}],
           chan     : SUBSET (Rowids \X Chans),
           channels : [Chans -> Nat]]

\* initSchema, on a new database.
FirstTables(today) ==
    [dayc |-> 1, last |-> today, node |-> [k \in Keys |-> NoRow],
     chan |-> {}, channels |-> [ch \in Chans |-> 0]]

StoredKeys(t)  == {k \in Keys : t.node[k] # NoRow}
StoredChans(t) == {ch \in Chans : t.channels[ch] # 0}

ChansAt(t, oid) == {ch \in Chans : <<oid, ch>> \in t.chan}

\* SQLite gives a new row the largest rowid plus one: the rowid of a row that
\* was deleted may come back.
NewRowid(t) == 1 + Max({0} \cup {t.node[k].oid : k \in StoredKeys(t)})

-----------------------------------------------------------------------------
(* The calls of the store.                                                 *)

Calls == [op : {"AddNetNode"}, key : Keys, payload : Payloads]
    \cup [op : {"AddChannel"}, chan : Chans]
    \cup [op : {"TrimNodes", "GetChannels", "ChooseNetNodeMsg"}]

Differs(t, k, p) == t.node[k] = NoRow \/ t.node[k].payload # p

\* The row of a key as AddNetNode inserts or updates it.
WrittenRow(t, k, p) ==
    [oid     |-> IF t.node[k] = NoRow THEN NewRowid(t) ELSE t.node[k].oid,
     payload |-> p,
     dayc    |-> NodeDays + t.dayc]

\* Slip: the channels listed under this rowid are not deleted.
AddNetNodeKeepingChannels(t, k, p) ==
    LET row == WrittenRow(t, k, p) IN
    IF ~Differs(t, k, p) THEN t
    ELSE [t EXCEPT !.node[k] = row, !.chan = @ \cup {row.oid} \X ChansOf[p]]

\* Write the row, and replace its channels.  A payload that is stored already
\* changes nothing, not even the day count.
AddNetNode(t, k, p) ==
    LET row == WrittenRow(t, k, p) IN
    IF ~Differs(t, k, p) THEN t
    ELSE [t EXCEPT !.node[k] = row,
                   !.chan = {r \in @ : r[1] # row.oid} \cup {row.oid} \X ChansOf[p]]

\* Delete what has a day count below dayc; the rows of chan stay.
Expire(t, dayc) ==
    [t EXCEPT
        !.node = [k \in Keys |-> IF k \in StoredKeys(t) /\ t.node[k].dayc < dayc
                                 THEN NoRow ELSE t.node[k]],
        !.channels = [ch \in Chans |-> IF t.channels[ch] < dayc
                                       THEN 0 ELSE t.channels[ch]]]

\* Slip: the date is not saved.
TrimNodesEveryTime(t, today) ==
    IF t.last = today THEN t ELSE [Expire(t, t.dayc + 1) EXCEPT !.dayc = @ + 1]

\* Slip: expiry by the day count before it is advanced.
TrimNodesLate(t, today) ==
    IF t.last = today THEN t
    ELSE [Expire(t, t.dayc) EXCEPT !.dayc = @ + 1, !.last = today]

\* When the date has changed, in either direction: count one day, and expire.
TrimNodes(t, today) ==
    IF t.last = today THEN t
    ELSE [Expire(t, t.dayc + 1) EXCEPT !.dayc = @ + 1, !.last = today]

AddChannel(t, ch) == [t EXCEPT !.channels[ch] = ChanDays + t.dayc]

\* The tables after a call that succeeds.
Effect(t, call, today) ==
    CASE call.op = "AddNetNode" -> AddNetNode(t, call.key, call.payload)
      [] call.op = "AddChannel" -> AddChannel(t, call.chan)
      [] call.op = "TrimNodes"  -> TrimNodes(t, today)
      [] OTHER                  -> t

\* AddNetNode found no row, or one with another payload.
Changes(t, call) == call.op = "AddNetNode" /\ Differs(t, call.key, call.payload)

\* What a call may read: all channels, or one row of node at random.
Reads(t, call) ==
    CASE call.op = "GetChannels"      -> {StoredChans(t)}
      [] call.op = "ChooseNetNodeMsg" -> {{k} : k \in StoredKeys(t)}
      [] OTHER                        -> {{}}

=============================================================================
