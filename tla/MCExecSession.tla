--------------------------- MODULE MCExecSession ----------------------------
(* ExecSession for two sessions.                                           *)
EXTENDS ExecSession, TLC

CONSTANTS s1, s2
MCSessions == {s1, s2}
AnyOrder   == Permutations(MCSessions)
=============================================================================
