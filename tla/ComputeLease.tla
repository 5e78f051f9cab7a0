---------------------------- MODULE ComputeLease ----------------------------
(***************************************************************************)
(* What starts, connections and suspends together promise about computes:  *)
(* a compute is leased to one endpoint and never again, it is given the    *)
(* data of that endpoint's branch and of no other, and only then may it    *)
(* stand for the endpoint. How calls interleave, which of them fail and    *)
(* how the pool finds a compute is left open.                              *)
(***************************************************************************)
EXTENDS Naturals

CONSTANTS Endpoints, Branches, NoBranch

VARIABLES
  home,     \* the branch of each endpoint
  lease,    \* pairs <<compute, endpoint>>
  data,     \* pairs <<compute, branch>>
  serving   \* pairs <<compute, endpoint>>: the compute stands for the endpoint

leaseVars == <<home, lease, data, serving>>

Leased(i, e) == <<i, e>> \in lease

LeaseInit ==
  /\ home = [e \in Endpoints |-> NoBranch]
  /\ lease = {}
  /\ data = {}
  /\ serving = {}

\* An endpoint is to be on branch b; it has no compute yet.
Open(e, b) ==
  /\ \A p \in lease : p[2] # e
  /\ home' = [home EXCEPT ![e] = b]
  /\ UNCHANGED <<lease, data, serving>>

\* A compute nobody has had.
Take(e) ==
  /\ home[e] # NoBranch
  /\ \E p \in lease' :
       /\ p[2] = e
       /\ \A q \in lease : q[1] # p[1]
       /\ lease' = lease \cup {p}
  /\ UNCHANGED <<home, data, serving>>

Fill(e) ==
  /\ \E p \in lease : p[2] = e /\ data' = data \cup {<<p[1], home[e]>>}
  /\ UNCHANGED <<home, lease, serving>>

\* What stands for e changes: computes may leave, and those that join are its
\* own and carry its data.
Route(e) ==
  /\ \A p \in serving' \ serving : p[2] = e /\ p \in lease /\ <<p[1], home[e]>> \in data
  /\ \A p \in serving \ serving' : p[2] = e
  /\ UNCHANGED <<home, lease, data>>

LeaseNext ==
  \E e \in Endpoints :
    \/ \E b \in Branches \cup {NoBranch} : Open(e, b)
    \/ Take(e) \/ Fill(e) \/ Route(e)

LeaseSpec == LeaseInit /\ [][LeaseNext]_leaseVars
=============================================================================
