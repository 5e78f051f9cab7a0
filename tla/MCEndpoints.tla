---------------------------- MODULE MCEndpoints ----------------------------
(* Small sets of calls for TLC. Connections are interchangeable, and so are  *)
(* branches: no definition orders or names one of them.                      *)
EXTENDS Endpoints, TLC

CONSTANTS e1, e2, b1, b2, c1, c2, s1, s2

MCEndpointIds == {e1, e2}
MCOneEndpoint == {e1}
MCBranches    == {b1, b2}
MCOneBranch   == {b1}
MCConns       == {c1, c2}
MCSuspends    == {s1}
MCTwoSuspends == {s1, s2}
MCFallible    == {"boot", "attach"}
AllFallible   == {"boot", "attach", "credential", "suspend"}
NoneFallible  == {}

MCSymmetry ==
  Permutations(MCConns) \cup Permutations(MCBranches) \cup
  Permutations(MCEndpointIds)
=============================================================================
