------------------------------ MODULE MCStore ------------------------------
(***************************************************************************)
(* Small instances of StoreTxn for TLC.                                    *)
(***************************************************************************)
EXTENDS StoreTxn, TLC

CONSTANTS k1, k2, p1, p2, core, c1, c2

\* Two announcements, one that lists a channel and one that does not.
TwoPayloads == (p1 :> {core}) @@ (p2 :> {})

Add(k, p) == [op |-> "AddNetNode", key |-> k, payload |-> p]

\* One peer, and one caller that stands for another peer that sends a record of
\* the same node, the trimmer, a handler and the announce service.
PeerAndOthers ==
    (c1 :> {Add(k1, p1), Add(k2, p2)}) @@
    (c2 :> {Add(k1, p2), [op |-> "AddChannel", chan |-> core]}
           \cup [op : {"TrimNodes", "GetChannels"}])

=============================================================================
