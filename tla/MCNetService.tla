---------------------------- MODULE MCNetService ----------------------------
(***************************************************************************)
(* Small instances of NetService for TLC.                                  *)
(***************************************************************************)
EXTENDS NetService, TLC

CONSTANT bob   \* key of another node

Remote(k)  == [key |-> k, addr |-> "remote"]
Mine(k)    == [key |-> k, addr |-> "mine"]
Invalid(k) == [key |-> k, addr |-> "invalid"]

\* What the REST API may ask for: this node itself at an address it binds, and
\* a peer at an address without a valid port.
MCAddInputs == {Mine(Self), Invalid(bob)}

\* What the store holds: a peer, and this node at its public address, which
\* is not one of the addresses it binds.
MCKnownNodes == {Remote(bob), Remote(Self)}

\* One known peer.
MCOnlyBob == {Remote(bob)}

\* Nothing is added, or nothing is stored.
MCNone == {}

\* Connections are interchangeable.
ConnSymmetry == Permutations(Conns)

=============================================================================
