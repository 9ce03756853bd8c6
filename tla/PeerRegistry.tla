---------------------------- MODULE PeerRegistry ----------------------------
(***************************************************************************)
(* What the table NetService.connectedPeers promises to the rest of the    *)
(* program, with everything else forgotten: a peer key has one slot, a     *)
(* connection takes a slot only while the slot is free, and a slot is      *)
(* given back only by its own connection and only once that connection's   *)
(* socket is closed.  NetService is shown to implement this module.        *)
(***************************************************************************)

CONSTANTS
    Conns,      \* connections
    Keys,       \* peer public keys
    NoConn      \* "the slot is free"

VARIABLES
    live,       \* connections whose socket this node has open
    slot        \* the connection that holds each key, or NoConn

vars == <<live, slot>>

TypeOK ==
    /\ live \subseteq Conns
    /\ slot \in [Keys -> Conns \cup {NoConn}]

Init ==
    /\ live = {}
    /\ slot = [k \in Keys |-> NoConn]

-----------------------------------------------------------------------------

HoldsNothing(c) == \A k \in Keys : slot[k] # c

\* A socket is opened for a connection that holds no slot.
Open(c) ==
    /\ c \notin live
    /\ HoldsNothing(c)
    /\ live' = live \cup {c}
    /\ UNCHANGED slot

\* A connection takes the free slot of one key.
Claim(c, k) ==
    /\ slot[k] = NoConn
    /\ HoldsNothing(c)
    /\ slot' = [slot EXCEPT ![k] = c]
    /\ UNCHANGED live

\* Sockets are closed: one connection at a time, or all of them on shutdown.
\* Closing leaves the slots alone.
Close(cs) ==
    /\ live' = live \ cs
    /\ UNCHANGED slot

\* A closed connection gives its slot back.
Release(c) ==
    /\ c \notin live
    /\ slot' = [k \in Keys |-> IF slot[k] = c THEN NoConn ELSE slot[k]]
    /\ UNCHANGED live

Next ==
    \/ \E c \in Conns : Open(c) \/ Release(c)
    \/ \E c \in Conns, k \in Keys : Claim(c, k)
    \/ \E cs \in SUBSET Conns : Close(cs)

Spec == Init /\ [][Next]_vars

=============================================================================
