----------------------------- MODULE MCRpcSessions -----------------------------
(* Instances of RpcSessions for TLC. *)
EXTENDS RpcSessions, TLC

CONSTANTS v1, v2, s1, s2, s3, s4, p1, h1

TwoServers == {v1, v2}
FourSessions == {s1, s2, s3, s4}
OnePrompt == {p1}
OneLink == {h1}
Symmetry == Permutations(TwoServers) \cup Permutations(FourSessions)
=============================================================================
