--------------------------- MODULE MCOperations ---------------------------
(* Three requests of two organisations that may use one key, for TLC. The    *)
(* organisations are interchangeable.                                        *)
EXTENDS Operations, TLC

CONSTANTS o1, o2, k1

MCOrgs     == {o1, o2}
MCOneOrg   == {o1}
MCKeys     == {k1}
MCFallible == {"branch", "compute", "customer"}
SignupFallible == {"kek", "customer", "token"}
NoneFallible == {}

\* A signup and a request read and write different variables, so that their
\* steps commute: requests come when the signups have returned, in whichever
\* way, and not while they are under way.
SignupsFirst ==
  reqPc' # reqPc => \A o \in Orgs : signPc[o] \in {"created", "failed"}

MCSymmetry == Permutations(MCOrgs)
=============================================================================
