--------------------------- MODULE AtomicDelivery ---------------------------
(***************************************************************************)
(* What the control plane promises the clients that follow its operations: *)
(* an operation runs until, in one step, it either fails and leaves        *)
(* nothing, or succeeds. Then what it made can be used, and its            *)
(* organisation is charged for it. An operation works on something that    *)
(* its own organisation could already use when it began, or fails.         *)
(***************************************************************************)
EXTENDS Naturals

CONSTANTS Ops, Kinds, NoKind, Orgs, NoOrg, NoOp

VARIABLES
  status,   \* of each operation
  kind,     \* what it makes
  owner,    \* its organisation
  on,       \* the operation that made what it works on; NoOp for none
  live,     \* operations whose result can be used
  charged   \* what each organisation has been charged

deliveryVars == <<status, kind, owner, on, live, charged>>

Init ==
  /\ status = [r \in Ops |-> "none"]
  /\ kind = [r \in Ops |-> NoKind]
  /\ owner = [r \in Ops |-> NoOrg]
  /\ on = [r \in Ops |-> NoOp]
  /\ live = {}
  /\ charged = [o \in Orgs |-> 0]

\* Anybody's result may be asked for, or what does not exist.
Begin(r) ==
  /\ status[r] = "none"
  /\ status' = [status EXCEPT ![r] = "running"]
  /\ \E k \in Kinds : kind' = [kind EXCEPT ![r] = k]
  /\ \E o \in Orgs : owner' = [owner EXCEPT ![r] = o]
  /\ \E q \in live \cup {NoOp} : on' = [on EXCEPT ![r] = q]
  /\ UNCHANGED <<live, charged>>

Fail(r) ==
  /\ status[r] = "running"
  /\ status' = [status EXCEPT ![r] = "failed"]
  /\ UNCHANGED <<kind, owner, on, live, charged>>

\* A branch costs one, an endpoint nothing yet.
Deliver(r) ==
  /\ status[r] = "running"
  /\ IF on[r] = NoOp THEN kind[r] = "create_project"
     ELSE on[r] \in live /\ owner[on[r]] = owner[r]
  /\ status' = [status EXCEPT ![r] = "succeeded"]
  /\ live' = live \cup {r}
  /\ charged' = IF kind[r] = "start_endpoint" THEN charged
                ELSE [charged EXCEPT ![owner[r]] = @ + 1]
  /\ UNCHANGED <<kind, owner, on>>

Next == \E r \in Ops : Begin(r) \/ Fail(r) \/ Deliver(r)

Spec == Init /\ [][Next]_deliveryVars
=============================================================================
