------------------------------ MODULE MCChannel ------------------------------
(***************************************************************************)
(* Channel on a small instance: two callers on the dialer, one on the      *)
(* acceptor, two connections.                                              *)
(***************************************************************************)
EXTENDS ChannelInvariant, TLC

CONSTANTS d1, d2, a1

MCCalls       == {d1, d2, a1}
MCDialerCalls == {d1, d2}
Callers       == Permutations({d1, d2})

\* Bounds the work of one behaviour: two calls on one connection, or one call
\* across a reconnection.
BoundedWork == Cardinality({c \in Calls : pc[c] # "idle"}) + conn <= 3
=============================================================================
