--------------------------- MODULE MCChannelSmall ---------------------------
(* Channel with a single call, for liveness and for counterexamples.       *)
EXTENDS Channel

CONSTANT d1
MCCalls       == {d1}
MCDialerCalls == {d1}
=============================================================================
