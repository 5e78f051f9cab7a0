--------------------------- MODULE GovernedChange ---------------------------
(***************************************************************************)
(* What the change pipeline promises to whom it guards: a change takes     *)
(* effect only by a plan that was proposed for it, is feasible, and needs  *)
(* no owner; that plan takes effect step by step, each step once and none  *)
(* before the grant or after the verdict; and the verdict is given once.   *)
(* What needs the owner is never decided without, and the owner is never   *)
(* asked for what needs none. A failed plan may stop halfway.              *)
(***************************************************************************)
EXTENDS Naturals

CONSTANTS
  Changes, NoChange,
  NoPlan,
  Permitted,   \* changes that may be planned at all
  Feasible,    \* plans that may be proposed
  Autonomous,  \* pairs of a change and a plan that need no owner
  Length       \* of a plan, in steps

VARIABLES stage, change, plan, effects, verdict

governedVars == <<stage, change, plan, effects, verdict>>

Init ==
  /\ stage = "new"
  /\ change = NoChange
  /\ plan = NoPlan
  /\ effects = 0
  /\ verdict = "none"

Close(v) ==
  /\ stage' = "closed"
  /\ verdict' = v

Submit ==
  /\ stage = "new"
  /\ change' \in Changes
  /\ \/ stage' = "open" /\ UNCHANGED verdict
     \/ Close("REJECTED_AUTH")
  /\ UNCHANGED <<plan, effects>>

\* For reasons of its own; but only what might be planned fails to be.
Refuse ==
  /\ stage = "open"
  /\ \/ Close("REJECTED_AUTH")
     \/ Close("REJECTED_HARDRAIL")
     \/ change \in Permitted /\ Close("FAILED_ROLLED_BACK")
  /\ UNCHANGED <<change, plan, effects>>

Propose ==
  /\ stage = "open"
  /\ change \in Permitted
  /\ plan' \in Feasible
  /\ stage' = "proposed"
  /\ UNCHANGED <<change, effects, verdict>>

Defer ==
  /\ stage = "proposed"
  /\ <<change, plan>> \notin Autonomous
  /\ Close("AWAITING_OWNER")
  /\ UNCHANGED <<change, plan, effects>>

Grant ==
  /\ stage = "proposed"
  /\ <<change, plan>> \in Autonomous
  /\ stage' = "granted"
  /\ UNCHANGED <<change, plan, effects, verdict>>

TakeEffect ==
  /\ stage = "granted"
  /\ effects < Length[plan]
  /\ effects' = effects + 1
  /\ UNCHANGED <<stage, change, plan, verdict>>

Finish ==
  /\ stage = "granted"
  /\ effects = Length[plan]
  /\ Close("EXECUTED")
  /\ UNCHANGED <<change, plan, effects>>

Abandon ==
  /\ stage = "granted"
  /\ Close("FAILED_ROLLED_BACK")
  /\ UNCHANGED <<change, plan, effects>>

Next ==
  \/ Submit \/ Refuse \/ Propose \/ Defer \/ Grant
  \/ TakeEffect \/ Finish \/ Abandon

Spec == Init /\ [][Next]_governedVars
=============================================================================
