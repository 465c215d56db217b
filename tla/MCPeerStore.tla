----------------------------- MODULE MCPeerStore -----------------------------
(* PeerStore for four saves.                                               *)
EXTENDS PeerStore, TLC

CONSTANTS s1, s2, s3, s4
MCSaves     == {s1, s2, s3, s4}
AnyOrder    == Permutations(MCSaves)
=============================================================================
