--------------------------- MODULE StoreTxnProofs ---------------------------
(***************************************************************************)
(* Proofs about StoreTxn, for every set of callers, keys and announcements *)
(* and any number of days.  The properties are not inductive: each follows *)
(* from IInv, which adds to the type invariant that one caller at a time   *)
(* is in a transaction (ConnOK), that the tables have rowids by which rows *)
(* of chan can be told apart (Sound), that a transaction about to commit   *)
(* does what its call does to the tables as they are (ViewOK), and how far *)
(* the day count can be ahead of a row (Aging).                            *)
(***************************************************************************)
EXTENDS StoreTxn, WellFoundedInduction, TLAPS

\* A caller whose transaction is open holds the connection: there is one.
ConnOK ==
    \A c \in Callers :
        /\ doing[c] = NoCall <=> pc[c] = "idle"
        /\ pc[c] \in {"work", "commit"} => conn = c

\* What a transaction is about to commit is still what its call does to the
\* committed tables, although the day may have passed meanwhile.
ViewOK ==
    \A c \in Callers : pc[c] = "commit" =>
        /\ view[c].tables = Effect(db, doing[c], view[c].day)
        /\ Changes(db, doing[c]) => changed[c]
        /\ read[c] \in Reads(db, doing[c])
        /\ db.last <= view[c].day /\ view[c].day <= today
        /\ \A k \in Keys : written[k] <= view[c].day

\* The days counted since a node row was written are no more than the days
\* that have passed up to the latest TrimNodes, that day included.
Aging ==
    /\ db.last <= today
    /\ \A k \in Keys : written[k] <= today
    /\ \A k \in StoredKeys(db) :
        \/ db.dayc + NodeDays = db.node[k].dayc
        \/ db.dayc + NodeDays + written[k] <= db.node[k].dayc + db.last + 1

-----------------------------------------------------------------------------
(* The tables.                                                             *)

\* What AddNetNode relies on to give a new row a rowid of its own.
OidsBounded(t) == \E n \in Nat : \A k \in StoredKeys(t) : t.node[k].oid <= n

OidsDiffer(t) == \A k, l \in StoredKeys(t) : t.node[k].oid = t.node[l].oid => k = l

ChansMatch(t) ==
    \A k \in StoredKeys(t) : ChansAt(t, t.node[k].oid) = ChansOf[t.node[k].payload]

InWindow(t) ==
    /\ \A k \in StoredKeys(t) : t.node[k].dayc \in t.dayc .. (t.dayc + NodeDays)
    /\ \A ch \in StoredChans(t) : t.channels[ch] \in t.dayc .. (t.dayc + ChanDays)

Sound(t) == OidsBounded(t) /\ OidsDiffer(t) /\ ChansMatch(t) /\ InWindow(t)

IInv == TypeOK /\ ConnOK /\ Sound(db) /\ ViewOK /\ Aging

\* A set of numbers that has an upper bound and a member has a maximum.
LEMMA MaxIsLargest ==
    ASSUME NEW S \in SUBSET Nat, S # {}, NEW n \in Nat, \A x \in S : x <= n
    PROVE  Max(S) \in S /\ \A x \in S : x <= Max(S)
<1> DEFINE Below == {n - x : x \in S}
<1>1. Below \subseteq Nat /\ Below # {}
  OBVIOUS
<1>2. PICK b \in Below : \A y \in Below : ~(<<y, b>> \in OpToRel(<, Nat))
  <2> HIDE DEF Below
  <2> QED  BY <1>1, NatLessThanWellFounded, WFMin
<1>3. PICK m \in S : b = n - m
  OBVIOUS
<1>4. \A x \in S : x <= m
  <2> TAKE x \in S
  <2>1. n - x \in Below /\ n - x \in Nat /\ b \in Nat
    BY <1>1
  <2>2. ~(n - x < b)
    BY <1>2, <2>1 DEF OpToRel
  <2> QED  BY <1>3, <2>2
<1>5. \E z \in S : \A x \in S : z >= x
  BY <1>4
<1> QED  BY <1>5 DEF Max

\* The rowid of a new row is larger than any that is in use: those of rows
\* deleted by TrimNodes may come back, those of stored rows do not.
LEMMA NewRowidIsNew ==
    ASSUME NEW t \in Tables, OidsBounded(t)
    PROVE  /\ NewRowid(t) \in Rowids
           /\ \A k \in StoredKeys(t) : t.node[k].oid < NewRowid(t)
<1> DEFINE S == {0} \cup {t.node[k].oid : k \in StoredKeys(t)}
<1>1. S \in SUBSET Nat
  BY DEF Tables, Row, Rowids, StoredKeys
<1>2. PICK n \in Nat : \A k \in StoredKeys(t) : t.node[k].oid <= n
  BY DEF OidsBounded
<1>3. \A x \in S : x <= n
  BY <1>2
<1>4. Max(S) \in S /\ \A x \in S : x <= Max(S)
  <2> HIDE DEF S
  <2>1. S # {}
    BY DEF S
  <2> QED  BY <1>1, <1>3, <2>1, MaxIsLargest
<1>5. NewRowid(t) = 1 + Max(S)
  BY DEF NewRowid
<1> HIDE DEF S
<1>6. \A k \in StoredKeys(t) : t.node[k].oid \in S
  BY DEF S
<1>7. Max(S) \in Nat
  BY <1>1, <1>4
<1>8. ASSUME NEW k \in StoredKeys(t)  PROVE t.node[k].oid < NewRowid(t)
  <2>1. t.node[k].oid \in Nat /\ t.node[k].oid <= Max(S)
    BY <1>1, <1>4, <1>6
  <2> QED  BY <1>5, <1>7, <2>1
<1> QED  BY <1>5, <1>7, <1>8 DEF Rowids

-----------------------------------------------------------------------------
(* The calls of the store keep the tables sound.                           *)

\* The row that AddNetNode writes.
LEMMA WrittenRowType ==
    ASSUME NEW t \in Tables, OidsBounded(t), NEW k \in Keys, NEW p \in Payloads
    PROVE  WrittenRow(t, k, p) \in Row
BY NewRowidIsNew, TablesAssumption DEF WrittenRow, Tables, Row

\* AddNetNode gives no two nodes one rowid, and replaces the channels of the
\* node it writes and of no other, also under a rowid that had been deleted.
LEMMA AddNetNodeSound ==
    ASSUME NEW t \in Tables, Sound(t), NEW k \in Keys, NEW p \in Payloads
    PROVE  AddNetNode(t, k, p) \in Tables /\ Sound(AddNetNode(t, k, p))
<1> USE TablesAssumption DEF StoredKeys, StoredChans
<1>1. CASE ~Differs(t, k, p)
  BY <1>1 DEF AddNetNode
<1>2. CASE Differs(t, k, p)
  <2> DEFINE row == WrittenRow(t, k, p)
             u   == AddNetNode(t, k, p)
  <2>1. row \in Row /\ row.payload = p /\ row.dayc = NodeDays + t.dayc
    BY WrittenRowType DEF WrittenRow, Sound
  <2>2. \A l \in StoredKeys(t) \ {k} : t.node[l].oid # row.oid
    BY NewRowidIsNew DEF WrittenRow, Sound, OidsDiffer, Rowids
  <2>3. u = [t EXCEPT !.node[k] = row,
                      !.chan = {r \in @ : r[1] # row.oid} \cup {row.oid} \X ChansOf[p]]
    BY <1>2 DEF AddNetNode
  <2>4. /\ u.dayc = t.dayc /\ u.last = t.last /\ u.channels = t.channels
        /\ u.node = [t.node EXCEPT ![k] = row]
        /\ u.chan = {r \in t.chan : r[1] # row.oid} \cup {row.oid} \X ChansOf[p]
    BY <2>3
  <2>5. u \in Tables
    <3>1. u.node \in [Keys -> Row \cup {NoRow}]
      BY <2>1, <2>4 DEF Tables
    <3>2. u.chan \in SUBSET (Rowids \X Chans)
      BY <2>1, <2>4 DEF Tables, Row
    <3>3. u = [dayc |-> t.dayc, last |-> t.last, node |-> u.node, chan |-> u.chan,
               channels |-> t.channels]
      BY <2>3 DEF Tables
    <3> HIDE DEF u
    <3> QED  BY <3>1, <3>2, <3>3 DEF Tables
  <2> HIDE DEF row, u
  <2>6. StoredKeys(u) = StoredKeys(t) \cup {k} /\ StoredChans(u) = StoredChans(t)
    BY <2>1, <2>4 DEF Tables
  <2>7. \A l \in StoredKeys(t) \ {k} : u.node[l] = t.node[l]
    BY <2>4
  <2>8. u.node[k] = row
    BY <2>4 DEF Tables
  <2>9. OidsBounded(u)
    <3>1. PICK n \in Nat : \A l \in StoredKeys(t) : t.node[l].oid <= n
      BY DEF Sound, OidsBounded
    <3>2. row.oid \in Nat
      BY <2>1 DEF Row, Rowids
    <3>3. \A l \in StoredKeys(u) : u.node[l].oid <= n + row.oid
      BY <2>6, <2>7, <2>8, <3>1, <3>2 DEF Tables, Row, Rowids
    <3> QED  BY <3>2, <3>3 DEF OidsBounded
  <2>10. OidsDiffer(u)
    BY <2>2, <2>6, <2>7, <2>8 DEF Sound, OidsDiffer
  <2>11. ChansMatch(u)
    <3>1. \A oid : oid # row.oid => ChansAt(u, oid) = ChansAt(t, oid)
      BY <2>4 DEF ChansAt
    <3>2. ChansAt(u, row.oid) = ChansOf[p]
      BY <2>4 DEF ChansAt
    <3> QED  BY <2>1, <2>2, <2>6, <2>7, <2>8, <3>1, <3>2 DEF Sound, ChansMatch
  <2>12. InWindow(u)
    BY <2>1, <2>4 DEF Sound, InWindow, Tables
  <2> QED  BY <2>5, <2>9, <2>10, <2>11, <2>12 DEF Sound, u
<1> QED  BY <1>1, <1>2

\* TrimNodes deletes rows and changes none, so what is left is as sound as
\* before; and of those left none is behind the day count it advances.
LEMMA TrimNodesSound ==
    ASSUME NEW t \in Tables, Sound(t), NEW day \in Nat
    PROVE  TrimNodes(t, day) \in Tables /\ Sound(TrimNodes(t, day))
<1> USE TablesAssumption DEF StoredKeys, StoredChans
<1>1. CASE t.last = day
  BY <1>1 DEF TrimNodes
<1>2. CASE t.last # day
  <2> DEFINE u == TrimNodes(t, day)
  <2>1. /\ u.dayc = t.dayc + 1 /\ u.last = day /\ u.chan = t.chan
        /\ u.node = [k \in Keys |-> IF k \in StoredKeys(t) /\ t.node[k].dayc < t.dayc + 1
                                    THEN NoRow ELSE t.node[k]]
        /\ u.channels = [ch \in Chans |-> IF t.channels[ch] < t.dayc + 1
                                          THEN 0 ELSE t.channels[ch]]
    BY <1>2 DEF TrimNodes, Expire
  <2>2. u \in Tables
    <3>1. u = [dayc |-> t.dayc + 1, last |-> day, node |-> u.node, chan |-> t.chan,
               channels |-> u.channels]
      BY <1>2 DEF TrimNodes, Expire, Tables
    <3>2. u.node \in [Keys -> Row \cup {NoRow}]
      BY <2>1 DEF Tables
    <3>3. u.channels \in [Chans -> Nat]
      BY <2>1 DEF Tables
    <3> HIDE DEF u
    <3> QED  BY <3>1, <3>2, <3>3 DEF Tables
  <2> HIDE DEF u
  <2>3. \A k \in StoredKeys(u) :
          k \in StoredKeys(t) /\ u.node[k] = t.node[k] /\ t.node[k].dayc >= u.dayc
    BY <2>1 DEF Tables, Row
  <2>4. OidsBounded(u) /\ OidsDiffer(u)
    BY <2>3 DEF Sound, OidsBounded, OidsDiffer
  <2>5. ChansMatch(u)
    BY <2>1 DEF Sound, ChansMatch, ChansAt
  <2>6. InWindow(u)
    BY <2>1 DEF Sound, InWindow, Tables
  <2> QED  BY <2>2, <2>4, <2>5, <2>6 DEF Sound, u
<1> QED  BY <1>1, <1>2

\* A call of the store keeps the tables sound, whatever the day.
LEMMA EffectSound ==
    ASSUME NEW t \in Tables, Sound(t), NEW call \in Calls, NEW day \in Nat
    PROVE  Effect(t, call, day) \in Tables /\ Sound(Effect(t, call, day))
<1>1. CASE call.op = "AddNetNode"
  BY <1>1, AddNetNodeSound DEF Calls, Effect
<1>2. CASE call.op = "AddChannel"
  <2> DEFINE u == Effect(t, call, day)
  <2>1. u = [t EXCEPT !.channels[call.chan] = ChanDays + t.dayc]
    BY <1>2 DEF Effect, AddChannel
  <2>2. /\ u \in Tables /\ u.dayc = t.dayc /\ u.node = t.node /\ u.chan = t.chan
        /\ u.channels = [t.channels EXCEPT ![call.chan] = ChanDays + t.dayc]
    BY <2>1, TablesAssumption DEF Tables
  <2> HIDE DEF u
  <2>3. InWindow(u)
    BY <2>2, TablesAssumption DEF Sound, InWindow, StoredKeys, StoredChans, Tables
  <2> QED
    BY <2>2, <2>3 DEF Sound, OidsBounded, OidsDiffer, ChansMatch, ChansAt, StoredKeys, u
<1>3. CASE call.op = "TrimNodes"
  BY <1>3, TrimNodesSound DEF Effect
<1>4. CASE call.op \notin {"AddNetNode", "AddChannel", "TrimNodes"}
  BY <1>4 DEF Effect
<1> QED  BY <1>1, <1>2, <1>3, <1>4

-----------------------------------------------------------------------------
(* The inductive invariant.                                                *)

\* A new database is sound.
LEMMA FirstTablesSound == FirstTables(FirstDay) \in Tables /\ Sound(FirstTables(FirstDay))
<1> DEFINE t == FirstTables(FirstDay)
<1>1. t \in Tables
  BY TxnAssumption DEF FirstTables, Tables
<1>2. StoredKeys(t) = {} /\ StoredChans(t) = {}
  BY DEF FirstTables, StoredKeys, StoredChans
<1> HIDE DEF t
<1>3. Sound(t)
  BY <1>2 DEF Sound, OidsBounded, OidsDiffer, ChansMatch, InWindow
<1> QED  BY <1>1, <1>3 DEF t

\* The view of a caller that has not worked yet.
LEMMA NoViewType == NoView \in [tables : Tables, day : Days]
BY FirstTablesSound, TxnAssumption DEF NoView, Days

\* A new database, without rows, and callers without a transaction.
LEMMA InitIInv == Init => IInv
<1> SUFFICES ASSUME Init  PROVE IInv
  OBVIOUS
<1>1. TypeOK
  BY FirstTablesSound, NoViewType, TxnAssumption DEF Init, TypeOK, Days
<1>2. ConnOK /\ Sound(db) /\ ViewOK
  BY FirstTablesSound DEF Init, ConnOK, ViewOK
<1>3. db.last <= today /\ \A k \in Keys : db.node[k] = NoRow /\ written[k] <= today
  BY TxnAssumption DEF Init, FirstTables
<1>4. Aging
  BY <1>3 DEF Aging, StoredKeys
<1> QED  BY <1>1, <1>2, <1>4 DEF IInv

\* An attempt ends, with another one to come or not: the caller has neither a
\* transaction nor a view, and other callers are as they were.
LEMMA AttemptEnds ==
    ASSUME IInv, NEW c \in Callers, pc[c] # "idle", NEW ok \in BOOLEAN,
           Retry(c) \/ Return(c, ok)
    PROVE  /\ pc' \in [Callers -> {"idle", "begin", "work", "commit"}]
           /\ doing' \in [Callers -> Calls \cup {NoCall}]
           /\ limit' \in [Callers -> 0..Limit]
           /\ view' \in [Callers -> [tables : Tables, day : Days]]
           /\ changed' \in [Callers -> BOOLEAN]
           /\ read' \in [Callers -> (SUBSET Keys) \cup (SUBSET Chans)]
           /\ answer' \in Answer \cup {Silence}
           /\ pc'[c] \in {"idle", "begin"}
           /\ doing'[c] = NoCall <=> pc'[c] = "idle"
           /\ \A d \in Callers \ {c} :
                /\ pc'[d] = pc[d] /\ doing'[d] = doing[d] /\ view'[d] = view[d]
                /\ changed'[d] = changed[d] /\ read'[d] = read[d]
<1> USE TxnAssumption DEF IInv, TypeOK
<1>1. ASSUME NEW res \in BOOLEAN, Return(c, res)
      PROVE  /\ pc' = [pc EXCEPT ![c] = "idle"] /\ doing' = [doing EXCEPT ![c] = NoCall]
             /\ limit' = [limit EXCEPT ![c] = Limit] /\ view' = [view EXCEPT ![c] = NoView]
             /\ changed' = [changed EXCEPT ![c] = FALSE] /\ read' = [read EXCEPT ![c] = {}]
             /\ answer' \in Answer
  BY <1>1 DEF Return, Answer
<1>2. CASE \E res \in BOOLEAN : Return(c, res)
  <2>1. PICK res \in BOOLEAN : Return(c, res)
    BY <1>2
  <2> HIDE DEF TypeOK
  <2>2. /\ pc' = [pc EXCEPT ![c] = "idle"] /\ doing' = [doing EXCEPT ![c] = NoCall]
        /\ limit' = [limit EXCEPT ![c] = Limit] /\ view' = [view EXCEPT ![c] = NoView]
        /\ changed' = [changed EXCEPT ![c] = FALSE] /\ read' = [read EXCEPT ![c] = {}]
        /\ answer' \in Answer
    BY <1>1, <2>1
  <2> QED  BY <2>2, NoViewType DEF TypeOK
<1>3. CASE AttemptsLeft(c) /\ Retry(c)
  <2>1. /\ pc' = [pc EXCEPT ![c] = "begin"] /\ limit' = [limit EXCEPT ![c] = @ - 1]
        /\ view' = [view EXCEPT ![c] = NoView] /\ answer' = Silence
        /\ UNCHANGED <<doing, changed, read>>
    BY <1>3 DEF Retry
  <2>2. limit[c] - 1 \in 0..Limit
    BY <1>3 DEF AttemptsLeft
  <2>3. doing[c] # NoCall
    BY DEF ConnOK
  <2> QED  BY <2>1, <2>2, <2>3, NoViewType
<1> QED  BY <1>2, <1>3 DEF Retry

\* The inductive invariant is kept when a caller gives up its attempt and
\* leaves the tables alone, whether or not it gives the connection back.
LEMMA AttemptEndsKeeps ==
    ASSUME IInv, NEW c \in Callers, pc[c] # "idle", NEW ok \in BOOLEAN,
           Retry(c) \/ Return(c, ok),
           conn' = conn \/ (conn = c /\ conn' = Free),
           UNCHANGED <<db, today, written>>
    PROVE  IInv'
<1>1. TypeOK'
  BY AttemptEnds DEF IInv, TypeOK
<1>2. ConnOK'
  BY AttemptEnds DEF IInv, ConnOK
<1>3. ViewOK'
  BY AttemptEnds DEF IInv, ViewOK
<1>4. Sound(db)' /\ Aging'
  BY DEF IInv, Aging
<1> QED  BY <1>1, <1>2, <1>3, <1>4 DEF IInv

\* The inductive invariant is kept when a caller starts a call.
LEMMA CallKeeps ==
    ASSUME IInv, NEW c \in Callers, NEW call \in CallsOf[c], Call(c, call)
    PROVE  IInv'
<1> USE TxnAssumption DEF IInv, Call
<1>1. call \in Calls /\ call # NoCall
  OBVIOUS
<1>2. TypeOK'
  BY DEF TypeOK
<1>3. ConnOK'
  BY <1>1 DEF TypeOK, ConnOK
<1>4. ViewOK'
  BY DEF ViewOK
<1>5. Sound(db)' /\ Aging'
  BY DEF Aging
<1> QED  BY <1>2, <1>3, <1>4, <1>5

\* The inductive invariant is kept by db.Begin, which takes a connection that
\* no transaction holds.
LEMMA BeginKeeps ==
    ASSUME IInv, NEW c \in Callers, Begin(c)
    PROVE  IInv'
<1> USE TxnAssumption DEF IInv
<1>1. CASE conn' = c
  <2>1. /\ conn = Free /\ pc[c] = "begin" /\ pc' = [pc EXCEPT ![c] = "work"]
        /\ answer' = Silence
        /\ UNCHANGED <<doing, limit, view, changed, read, db, today, written>>
    BY <1>1 DEF Begin, Available
  <2>2. TypeOK'
    BY <1>1, <2>1 DEF TypeOK
  <2>3. ConnOK'
    BY <1>1, <2>1 DEF ConnOK
  <2>4. ViewOK'
    BY <2>1 DEF ViewOK
  <2>5. Sound(db)' /\ Aging'
    BY <2>1 DEF Aging
  <2> QED  BY <2>2, <2>3, <2>4, <2>5
<1>2. CASE UNCHANGED conn /\ (Retry(c) \/ Return(c, FALSE))
  BY <1>2, AttemptEndsKeeps DEF Begin
<1> QED  BY <1>1, <1>2 DEF Begin

\* The inductive invariant is kept by the closure, whether it succeeds, meets a
\* conflict it does not wrap, or fails.
LEMMA WorkKeeps ==
    ASSUME IInv, NEW c \in Callers, Work(c)
    PROVE  IInv'
<1> USE TxnAssumption DEF IInv
<1>1. conn = c /\ doing[c] \in Calls
  BY DEF TypeOK, ConnOK, Work
<1>2. CASE UNCHANGED conn /\ pc' = [pc EXCEPT ![c] = "commit"] /\ UNCHANGED <<limit, doing>>
           /\ answer' = Silence
           /\ view' = [view EXCEPT ![c] = [tables |-> Effect(db, doing[c], today), day |-> today]]
           /\ changed' = [changed EXCEPT ![c] = @ \/ Changes(db, doing[c])]
           /\ \E r \in Reads(db, doing[c]) : read' = [read EXCEPT ![c] = r]
  <2>1. PICK r \in Reads(db, doing[c]) : read' = [read EXCEPT ![c] = r]
    BY <1>2
  <2>2. r \in (SUBSET Keys) \cup (SUBSET Chans)
    BY DEF Reads, StoredKeys, StoredChans
  <2>3. Effect(db, doing[c], today) \in Tables
    BY <1>1, EffectSound DEF TypeOK, Days
  <2>4. UNCHANGED <<db, today, written>>
    BY DEF Work
  <2>5. TypeOK'
    BY <1>2, <2>1, <2>2, <2>3, <2>4 DEF TypeOK
  <2>6. ConnOK'
    BY <1>1, <1>2 DEF ConnOK
  <2>7. ViewOK'
    <3>1. /\ view'[c] = [tables |-> Effect(db, doing[c], today), day |-> today]
          /\ changed'[c] = (changed[c] \/ Changes(db, doing[c])) /\ read'[c] = r
      BY <1>2, <2>1 DEF TypeOK
    <3>2. \A d \in Callers \ {c} : pc'[d] # "commit"
      BY <1>1, <1>2 DEF ConnOK
    <3>3. db.last <= today /\ today <= today /\ \A k \in Keys : written[k] <= today
      BY DEF TypeOK, Aging, Days
    <3>4. view'[c].tables = Effect(db, doing[c], view'[c].day) /\ view'[c].day = today
      BY <3>1
    <3>5. Changes(db, doing[c]) => changed'[c]
      BY <3>1, Zenon
    <3>6. read'[c] \in Reads(db, doing[c])
      BY <3>1
    <3>7. UNCHANGED <<db, doing, today, written>>
      BY <1>2, <2>4
    <3> HIDE DEF IInv
    <3> QED  BY <3>2, <3>3, <3>4, <3>5, <3>6, <3>7 DEF ViewOK
  <2>8. Sound(db)' /\ Aging'
    BY <2>4 DEF Aging
  <2> QED  BY <2>5, <2>6, <2>7, <2>8
<1>3. CASE \/ conn' = (IF AttemptsLeft(c) THEN conn ELSE AfterRollback) /\ Retry(c)
           \/ conn' = AfterRollback /\ Return(c, FALSE)
  BY <1>1, <1>3, AttemptEndsKeeps DEF Work, AfterRollback
<1> QED  BY <1>2, <1>3 DEF Work

\* What a commit does: the tables become those of the view, which are what the
\* call does to the tables as they are, on the day the closure ran.
LEMMA CommitTakesEffect ==
    ASSUME IInv, NEW c \in Callers, Commit(c), Return(c, TRUE), db' = view[c].tables
    PROVE  /\ conn = c /\ doing[c] \in Calls /\ view[c].day \in Days
           /\ db' = Effect(db, doing[c], view[c].day)
           /\ db' \in Tables /\ Sound(db)'
           /\ read[c] \in Reads(db, doing[c])
           /\ Changes(db, doing[c]) => changed[c]
<1>1. conn = c /\ doing[c] \in Calls /\ view[c].day \in Days
  BY DEF Commit, IInv, TypeOK, ConnOK
<1>2. /\ db' = Effect(db, doing[c], view[c].day)
      /\ read[c] \in Reads(db, doing[c]) /\ (Changes(db, doing[c]) => changed[c])
  BY DEF Commit, IInv, ViewOK
<1>3. db' \in Tables /\ Sound(db')
  BY <1>1, <1>2, EffectSound, TxnAssumption DEF IInv, TypeOK, Days
<1> QED  BY <1>1, <1>2, <1>3

\* What a call does to a row of node: it writes the row anew, with a full day
\* count; or leaves it, or deletes it, when TrimNodes counts a day.
LEMMA EffectOnRow ==
    ASSUME NEW t \in Tables, NEW call \in Calls, NEW day \in Nat, NEW k \in Keys,
           NEW u, u = Effect(t, call, day), u.node[k] # NoRow
    PROVE  \/ /\ u.dayc = t.dayc /\ u.last = t.last
              /\ u.node[k] = t.node[k] \/ u.node[k].dayc = NodeDays + u.dayc
           \/ /\ u.dayc = t.dayc + 1 /\ u.last = day /\ t.last # day
              /\ u.node[k] = t.node[k]
<1>1. CASE call.op = "AddNetNode"
  <2>1. u = AddNetNode(t, call.key, call.payload) /\ call.key \in Keys
    BY <1>1 DEF Effect, Calls
  <2>2. CASE Differs(t, call.key, call.payload)
    <3>1. /\ u.dayc = t.dayc /\ u.last = t.last
          /\ u.node = [t.node EXCEPT ![call.key] = WrittenRow(t, call.key, call.payload)]
      BY <2>1, <2>2 DEF AddNetNode
    <3> QED  BY <3>1 DEF WrittenRow
  <2> QED  BY <2>1, <2>2 DEF AddNetNode
<1>2. CASE call.op = "AddChannel"
  BY <1>2 DEF Effect, AddChannel, Tables
<1>3. CASE call.op = "TrimNodes"
  <2>1. u = TrimNodes(t, day)
    BY <1>3 DEF Effect
  <2>2. CASE t.last # day
    <3>1. /\ u.dayc = t.dayc + 1 /\ u.last = day
          /\ u.node = [l \in Keys |-> IF l \in StoredKeys(t) /\ t.node[l].dayc < t.dayc + 1
                                      THEN NoRow ELSE t.node[l]]
      BY <2>1, <2>2 DEF TrimNodes, Expire
    <3> QED  BY <2>2, <3>1
  <2> QED  BY <2>1, <2>2 DEF TrimNodes
<1>4. CASE call.op \notin {"AddNetNode", "AddChannel", "TrimNodes"}
  BY <1>4 DEF Effect
<1> QED  BY <1>1, <1>2, <1>3, <1>4

\* Only TrimNodes deletes a row of node, one behind the day count it advances.
LEMMA EffectDeletes ==
    ASSUME NEW t \in Tables, NEW call \in Calls, NEW day \in Nat, NEW k \in Keys,
           OidsBounded(t), NEW u, u = Effect(t, call, day),
           t.node[k] # NoRow, u.node[k] = NoRow
    PROVE  t.last # day /\ u.last = day /\ t.node[k].dayc < t.dayc + 1
<1>1. CASE call.op = "AddNetNode"
  <2>1. u = AddNetNode(t, call.key, call.payload) /\ call.key \in Keys
    BY <1>1 DEF Effect, Calls
  <2>2. CASE Differs(t, call.key, call.payload)
    <3>1. u.node = [t.node EXCEPT ![call.key] = WrittenRow(t, call.key, call.payload)]
      BY <2>1 DEF AddNetNode
    <3>2. WrittenRow(t, call.key, call.payload) # NoRow
      BY <1>1, WrittenRowType, TablesAssumption DEF Calls
    <3> QED  BY <3>1, <3>2
  <2> QED  BY <2>1, <2>2 DEF AddNetNode
<1>2. CASE call.op = "AddChannel"
  BY <1>2 DEF Effect, AddChannel, Tables
<1>3. CASE call.op = "TrimNodes"
  BY <1>3 DEF Effect, TrimNodes, Expire
<1>4. CASE call.op \notin {"AddNetNode", "AddChannel", "TrimNodes"}
  BY <1>4 DEF Effect
<1> QED  BY <1>1, <1>2, <1>3, <1>4

\* The inductive invariant is kept by a commit that succeeds: the days counted
\* since a row was written stay within the days that have passed, because a day
\* is counted only when the date differs from the one counted last.
LEMMA CommitSucceedsKeeps ==
    ASSUME IInv, NEW c \in Callers, Commit(c), Return(c, TRUE), db' = view[c].tables,
           written' = [k \in Keys |-> IF db'.node[k] = db.node[k] THEN written[k]
                                       ELSE IF db'.node[k] = NoRow THEN FirstDay
                                       ELSE view[c].day]
    PROVE  IInv'
<1> DEFINE call == doing[c]
           day  == view[c].day
<1>1. /\ conn = c /\ call \in Calls /\ day \in Days
      /\ db' = Effect(db, call, day) /\ db' \in Tables /\ Sound(db)'
  BY CommitTakesEffect
<1>2. /\ db \in Tables /\ Sound(db) /\ today \in Days /\ written \in [Keys -> Days]
      /\ Days \subseteq Nat /\ FirstDay \in Days /\ \A d \in Days : FirstDay <= d
  BY TxnAssumption DEF IInv, TypeOK, Days
<1>3. db.last <= day /\ day <= today /\ \A k \in Keys : written[k] <= day
  BY DEF Commit, IInv, ViewOK
<1>4. pc[c] = "commit" /\ conn' = Free /\ UNCHANGED today
  BY DEF Commit
<1>5. \A k \in Keys :
        written'[k] = IF db'.node[k] = db.node[k] THEN written[k]
                      ELSE IF db'.node[k] = NoRow THEN FirstDay ELSE day
  OBVIOUS
<1>6. TypeOK'
  <2>1. written' \in [Keys -> Days]
    BY <1>1, <1>2
  <2> QED  BY <1>4, <2>1, AttemptEnds DEF IInv, TypeOK
<1>7. ConnOK'
  <2>1. \A d \in Callers \ {c} : pc[d] \notin {"work", "commit"}
    BY <1>1 DEF IInv, ConnOK
  <2>2. /\ pc'[c] \in {"idle", "begin"} /\ (doing'[c] = NoCall <=> pc'[c] = "idle")
        /\ \A d \in Callers \ {c} : pc'[d] = pc[d] /\ doing'[d] = doing[d]
    BY <1>4, AttemptEnds
  <2> QED  BY <2>1, <2>2 DEF IInv, ConnOK
<1>8. ViewOK'
  <2>1. \A d \in Callers : pc'[d] # "commit"
    BY <1>4, AttemptEnds DEF IInv, ConnOK
  <2> QED  BY <2>1 DEF ViewOK
<1>9. Aging'
  <2> HIDE DEF call, day
  <2>1. db'.last <= today' /\ db'.dayc \in Nat
    <3>1. db'.last = db.last \/ db'.last = day
      BY <1>1 DEF Effect, AddNetNode, AddChannel, TrimNodes
    <3> QED  BY <1>1, <1>2, <1>3, <1>4, <3>1 DEF Tables
  <2>2. \A k \in Keys : written'[k] <= today'
    BY <1>2, <1>3, <1>4, <1>5, <1>1
  <2>3. ASSUME NEW k \in Keys, db'.node[k] # NoRow
        PROVE  \/ db'.dayc + NodeDays = db'.node[k].dayc
               \/ db'.dayc + NodeDays + written'[k] <= db'.node[k].dayc + db'.last + 1
    <3>1. /\ db.dayc \in Nat /\ db.last \in Nat /\ NodeDays \in Nat
          /\ db.node[k] # NoRow => db.node[k].dayc \in Nat
          /\ db'.node[k].dayc \in Nat /\ db'.last \in Nat
      BY <1>1, <1>2, <2>3, TablesAssumption DEF Tables, Row
    <3>2. CASE db'.dayc = db.dayc /\ db'.last = db.last /\ db'.node[k] = db.node[k]
      <4> QED  BY <2>3, <3>2 DEF IInv, Aging, StoredKeys
    <3>3. CASE db'.node[k].dayc = NodeDays + db'.dayc
      BY <2>1, <3>1, <3>3
    <3>4. CASE db'.dayc = db.dayc + 1 /\ db'.last = day /\ db.last # day
               /\ db'.node[k] = db.node[k]
      <4>1. written'[k] = written[k] /\ written[k] \in Nat /\ day \in Nat
        BY <1>1, <1>2, <3>4
      <4>2. written[k] <= day /\ db.last < day
        BY <1>3, <3>1, <3>4
      <4>3. \/ db.dayc + NodeDays = db.node[k].dayc
            \/ db.dayc + NodeDays + written[k] <= db.node[k].dayc + db.last + 1
        BY <2>3, <3>4 DEF IInv, Aging, StoredKeys
      <4> QED  BY <3>1, <3>4, <4>1, <4>2, <4>3
    <3> QED  BY <1>1, <1>2, <2>3, <3>2, <3>3, <3>4, EffectOnRow
  <2> QED  BY <2>1, <2>2, <2>3 DEF Aging, StoredKeys
<1> QED  BY <1>1, <1>6, <1>7, <1>8, <1>9 DEF IInv

\* The inductive invariant is kept by Commit.
LEMMA CommitKeeps ==
    ASSUME IInv, NEW c \in Callers, Commit(c)
    PROVE  IInv'
<1>1. pc[c] # "idle" /\ conn = c /\ conn' = Free /\ UNCHANGED today
  BY DEF Commit, IInv, ConnOK
<1>2. CASE UNCHANGED <<db, written>> /\ (Retry(c) \/ Return(c, FALSE))
  BY <1>1, <1>2, AttemptEndsKeeps
<1> QED  BY <1>2, CommitSucceedsKeeps DEF Commit

\* The inductive invariant is kept when days pass, and by a crash.
LEMMA DayPassesKeeps ==
    ASSUME IInv, DayPasses
    PROVE  IInv'
<1> USE TxnAssumption DEF IInv, DayPasses, callers
<1>1. today' \in Days /\ today \in Nat /\ today' \in Nat /\ today < today'
  BY DEF TypeOK, Days
<1>2. TypeOK'
  BY <1>1 DEF TypeOK
<1>3. ConnOK' /\ Sound(db)'
  BY DEF ConnOK
<1>4. ViewOK'
  <2>1. \A d \in Callers : view[d].day \in Nat
    BY DEF TypeOK, Days
  <2> QED  BY <1>1, <2>1 DEF ViewOK
<1>5. Aging'
  <2>1. db.last \in Nat /\ \A k \in Keys : written[k] \in Nat
    BY DEF TypeOK, Tables, Days
  <2> QED  BY <1>1, <2>1 DEF Aging
<1> QED  BY <1>2, <1>3, <1>4, <1>5

\* A crash ends every transaction and leaves the committed tables as they are.
LEMMA CrashKeeps ==
    ASSUME IInv, Crash
    PROVE  IInv'
<1> USE TxnAssumption DEF IInv, Crash
<1>1. TypeOK'
  BY NoViewType DEF TypeOK
<1>2. ConnOK' /\ ViewOK'
  BY DEF ConnOK, ViewOK
<1>3. Sound(db)' /\ Aging'
  BY DEF Aging
<1> QED  BY <1>1, <1>2, <1>3

\* Every step keeps the inductive invariant.
LEMMA StepKeeps == IInv /\ [Next]_vars => IInv'
<1> SUFFICES ASSUME IInv, [Next]_vars  PROVE IInv'
  OBVIOUS
<1>1. CASE UNCHANGED vars
  BY <1>1 DEF vars, callers, IInv, TypeOK, ConnOK, ViewOK, Aging
<1> QED
  BY <1>1, DayPassesKeeps, CrashKeeps, CallKeeps, BeginKeeps, WorkKeeps, CommitKeeps
     DEF Next

\* The invariant of every behaviour of the store.
THEOREM Invariance == Spec => []IInv
BY InitIInv, StepKeeps, PTL DEF Spec

-----------------------------------------------------------------------------
(* The properties.                                                         *)

\* The variables of doTxn, of every caller, and the tables keep their types:
\* limit in particular never falls below 0.
THEOREM TypeCorrect == Spec => []TypeOK
BY Invariance, PTL DEF IInv

\* AddNetNode and TrimNodes together never list channels for a node that are
\* not those of its announcement, although TrimNodes leaves the rows of chan
\* behind and SQLite gives their rowids to new nodes.
THEOREM ChannelsAreThoseOfPayload == Spec => []ChannelsMatchPayload
<1>1. IInv => ChannelsMatchPayload
  BY DEF IInv, Sound, ChansMatch, OidsDiffer, ChannelsMatchPayload
<1> QED  BY <1>1, Invariance, PTL

\* The expiry of TrimNodes keeps every row between the day count and the day
\* count plus its lifetime.
THEOREM RowsAreInWindow == Spec => []KeptInWindow
<1>1. IInv => KeptInWindow
  BY DEF IInv, Sound, InWindow, KeptInWindow
<1> QED  BY <1>1, Invariance, PTL

\* A row that TrimNodes deletes was written NodeDays ago at least, whatever
\* days the program did not run on.
LEMMA StepExpires ==
    ASSUME IInv, [Next]_vars, NEW k \in Keys, db.node[k] # NoRow, db'.node[k] = NoRow
    PROVE  written[k] + NodeDays <= today
<1>1. PICK c \in Callers : Commit(c) /\ Return(c, TRUE) /\ db' = view[c].tables
  <2> QED  BY DEF Next, vars, DayPasses, Crash, Call, Begin, Work, Commit
<1> DEFINE day == view[c].day
<1>2. doing[c] \in Calls /\ day \in Days /\ db' = Effect(db, doing[c], day)
  BY <1>1, CommitTakesEffect
<1>3. day <= today /\ db.last <= day /\ written[k] <= day
  BY <1>1 DEF Commit, IInv, ViewOK
<1>4. /\ db \in Tables /\ OidsBounded(db) /\ written[k] \in Nat /\ today \in Nat
      /\ Days \subseteq Nat
  BY TxnAssumption DEF IInv, TypeOK, Sound, Days
<1>5. db.last # day /\ db.node[k].dayc < db.dayc + 1
  BY <1>2, <1>4, EffectDeletes
<1>6. /\ db.node[k].dayc \in Nat /\ db.dayc \in Nat /\ db.last \in Nat /\ day \in Nat
      /\ NodeDays \in Nat
  BY <1>2, <1>4, TablesAssumption DEF Tables, Row
<1>7. \/ db.dayc + NodeDays = db.node[k].dayc
      \/ db.dayc + NodeDays + written[k] <= db.node[k].dayc + db.last + 1
  BY DEF IInv, Aging, StoredKeys
<1> HIDE DEF day
<1> QED  BY <1>3, <1>4, <1>5, <1>6, <1>7

\* TrimNodes never deletes a node row early.
THEOREM NothingExpiresEarly == Spec => NoEarlyExpiry
<1>1. IInv /\ [Next]_vars =>
        [\A k \in Keys : db.node[k] # NoRow /\ db'.node[k] = NoRow
            => written[k] + NodeDays <= today]_vars
  BY StepExpires
<1> QED  BY <1>1, Invariance, PTL DEF Spec, NoEarlyExpiry

-----------------------------------------------------------------------------
(* Refinement of AtomicStore.                                              *)

\* The two modules speak of the same calls and the same tables.
LEMMA SameCalls ==
    /\ Abstract!Calls = Calls
    /\ Abstract!FirstTables(FirstDay) = FirstTables(FirstDay)
    /\ \A t, call, day : Abstract!Effect(t, call, day) = Effect(t, call, day)
    /\ \A t, call : Abstract!Changes(t, call) = Changes(t, call)
    /\ \A t, call : Abstract!Reads(t, call) = Reads(t, call)
    /\ Abstract!Silence = Silence
<1>1. Abstract!Calls = Calls
  BY DEF Abstract!Calls, Calls
<1>2. Abstract!FirstTables(FirstDay) = FirstTables(FirstDay)
  BY DEF Abstract!FirstTables, FirstTables
<1>3. ASSUME NEW t, NEW call, NEW day
      PROVE  Abstract!Effect(t, call, day) = Effect(t, call, day)
  BY Zenon DEF Abstract!Effect, Effect, Abstract!AddNetNode, AddNetNode,
     Abstract!AddChannel, AddChannel, Abstract!TrimNodes, TrimNodes, Abstract!Expire,
     Expire, Abstract!WrittenRow, WrittenRow, Abstract!NewRowid, NewRowid, Abstract!Differs,
     Differs, Abstract!StoredKeys, StoredKeys, Abstract!Max, Max
<1>4. ASSUME NEW t, NEW call  PROVE Abstract!Changes(t, call) = Changes(t, call)
  BY Zenon DEF Abstract!Changes, Changes, Abstract!Differs, Differs
<1>5. ASSUME NEW t, NEW call  PROVE Abstract!Reads(t, call) = Reads(t, call)
  BY Zenon DEF Abstract!Reads, Reads, Abstract!StoredKeys, StoredKeys, Abstract!StoredChans,
     StoredChans
<1>6. Abstract!Silence = Silence
  BY DEF Abstract!Silence, Silence
<1> QED  BY <1>1, <1>2, <1>3, <1>4, <1>5, <1>6

\* A call that fails or has used up its attempts is a Fail of AtomicStore, an
\* attempt that ends with another to come is no step of it.
LEMMA AttemptEndsRefines ==
    ASSUME IInv, NEW c \in Callers, pc[c] # "idle", Retry(c) \/ Return(c, FALSE),
           UNCHANGED db
    PROVE  Abstract!Next
<1>1. CASE Return(c, FALSE)
  <2>1. doing[c] # NoCall /\ changed[c] \in BOOLEAN
    BY DEF IInv, TypeOK, ConnOK
  <2>2. /\ answer' = [by |-> c, ok |-> FALSE, changed |-> changed[c], read |-> {}]
        /\ doing' = [doing EXCEPT ![c] = NoCall]
    BY <1>1 DEF Return
  <2>3. Abstract!Fail(c)
    BY <2>1, <2>2 DEF Abstract!Fail
  <2> QED  BY <2>3 DEF Abstract!Next
<1>2. CASE answer' = Silence /\ UNCHANGED doing
  BY <1>2, SameCalls DEF Abstract!Continue, Abstract!Next
<1> QED  BY <1>1, <1>2 DEF Retry

\* A commit that succeeds is a call that takes effect as a whole, on the day on
\* which its closure ran.
LEMMA CommitRefines ==
    ASSUME IInv, NEW c \in Callers, Commit(c), Return(c, TRUE), db' = view[c].tables
    PROVE  Abstract!Next
<1>1. /\ view[c].day \in Days /\ db' = Effect(db, doing[c], view[c].day)
      /\ read[c] \in Reads(db, doing[c])
      /\ Changes(db, doing[c]) => changed[c]
  BY CommitTakesEffect
<1>2. doing[c] # NoCall /\ changed[c] \in BOOLEAN
  BY DEF Commit, IInv, TypeOK, ConnOK
<1>3. /\ answer' = [by |-> c, ok |-> TRUE, changed |-> changed[c], read |-> read[c]]
      /\ doing' = [doing EXCEPT ![c] = NoCall]
  BY DEF Return
<1>4. Abstract!Succeed(c, view[c].day)
  BY <1>1, <1>2, <1>3, SameCalls DEF Abstract!Succeed
<1> QED  BY <1>1, <1>4 DEF Abstract!Next

\* Every step of StoreTxn is a step or a stutter of AtomicStore.
LEMMA StepRefines == IInv /\ [Next]_vars => [Abstract!Next]_<<db, doing, answer>>
<1> SUFFICES ASSUME IInv, [Next]_vars  PROVE [Abstract!Next]_<<db, doing, answer>>
  OBVIOUS
<1>1. CASE answer' = Silence /\ UNCHANGED <<db, doing>>
  BY <1>1, SameCalls DEF Abstract!Continue, Abstract!Next
<1>2. CASE DayPasses
  BY <1>1, <1>2 DEF DayPasses, callers
<1>3. CASE Crash
  BY <1>3, SameCalls DEF Crash, Abstract!Crash, Abstract!Next
<1>4. ASSUME NEW c \in Callers, NEW call \in CallsOf[c], Call(c, call)
      PROVE  Abstract!Next
  <2>1. doing[c] = NoCall /\ call \in Calls
    BY <1>4, TxnAssumption DEF Call, IInv, ConnOK
  <2>2. Abstract!Start(c, call)
    BY <1>4, <2>1, SameCalls DEF Call, Abstract!Start
  <2> QED  BY <2>1, <2>2, SameCalls DEF Abstract!Next
<1>5. ASSUME NEW c \in Callers, Begin(c)  PROVE [Abstract!Next]_<<db, doing, answer>>
  BY <1>1, <1>5, AttemptEndsRefines DEF Begin
<1>6. ASSUME NEW c \in Callers, Work(c)  PROVE [Abstract!Next]_<<db, doing, answer>>
  BY <1>1, <1>6, AttemptEndsRefines DEF Work
<1>7. ASSUME NEW c \in Callers, Commit(c)  PROVE Abstract!Next
  <2> QED  BY <1>7, AttemptEndsRefines, CommitRefines DEF Commit
<1> QED
  BY <1>2, <1>3, <1>4, <1>5, <1>6, <1>7 DEF Next, vars, callers

\* doTxn implements calls that take effect as a whole, one at a time.
THEOREM ImplementsAtomicStore == Spec => AtomicSpec
<1>1. Init => Abstract!Init
  BY SameCalls DEF Init, Abstract!Init
<1> QED  BY <1>1, StepRefines, Invariance, PTL DEF Spec, AtomicSpec, Abstract!Spec

=============================================================================
