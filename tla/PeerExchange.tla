---------------------------- MODULE PeerExchange ----------------------------
(***************************************************************************)
(* What the exchange of addresses promises (receiveFromPeer of             *)
(* internal/netsvc/peer.go): the stages a connection goes through, by who  *)
(* made it, and at which of them it is among the peers that messages are   *)
(* forwarded to.                                                           *)
(*                                                                         *)
(* NetService shows it of the table and the goroutines, and Delivery is    *)
(* built on it: both implement it.                                         *)
(***************************************************************************)
CONSTANT Conns  \* connections

VARIABLES
    stage,      \* how far the exchange is: new, announce, await, adopt, verify, relay, closed
    kind,       \* who made the connection, while it is under way
    registered  \* connections that messages are forwarded to

vars == <<stage, kind, registered>>

Init ==
    /\ stage = [c \in Conns |-> "new"]
    /\ kind = [c \in Conns |-> "none"]
    /\ registered = {}

Goes(c, from, to) ==
    /\ stage[c] = from
    /\ stage' = [stage EXCEPT ![c] = to]

\* A node that was dialled by its key is registered from the start, if there
\* was one; the side that dialled announces first.
Start(c, k) ==
    /\ Goes(c, "new", IF k = "inbound" THEN "await" ELSE "announce")
    /\ kind' = [kind EXCEPT ![c] = k]
    /\ \/ UNCHANGED registered
       \/ k = "known" /\ registered' = registered \cup {c}

\* The announcement is written; the side that was dialled is then done.
Announce(c) ==
    /\ Goes(c, "announce", IF kind[c] = "inbound" THEN "relay" ELSE "await")
    /\ UNCHANGED <<kind, registered>>

\* The address of the other side arrives.  Who was dialled by a key has shown
\* the same key, and so is registered.
Receive(c) ==
    /\ kind[c] = "known" => c \in registered
    /\ Goes(c, "await", IF kind[c] = "known" THEN "verify" ELSE "adopt")
    /\ UNCHANGED <<kind, registered>>

\* Others are registered by the key they have shown.
Adopt(c) ==
    /\ Goes(c, "adopt", "verify")
    /\ registered' = registered \cup {c}
    /\ UNCHANGED kind

\* The address is taken; the side that was dialled announces in return.
Accept(c) ==
    /\ Goes(c, "verify", IF kind[c] = "inbound" THEN "announce" ELSE "relay")
    /\ UNCHANGED <<kind, registered>>

\* Connections end at any stage, and with that are no longer registered.
Close(cs) ==
    /\ stage' = [c \in Conns |-> IF c \in cs THEN "closed" ELSE stage[c]]
    /\ kind' = [c \in Conns |-> IF c \in cs THEN "none" ELSE kind[c]]
    /\ registered' = registered \ cs

Next ==
    \/ \E c \in Conns :
        \/ \E k \in {"known", "seed", "inbound"} : Start(c, k)
        \/ Announce(c) \/ Receive(c) \/ Adopt(c) \/ Accept(c)
    \/ \E cs \in SUBSET Conns : Close(cs)

Spec == Init /\ [][Next]_vars

=============================================================================
