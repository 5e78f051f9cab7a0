----------------------------- MODULE Onboarding -----------------------------
(***************************************************************************)
(* App.Signup (controlplane/app.go): a key from the KMS, a customer at the *)
(* payment provider, the organisation and its owner in the store, a token. *)
(*                                                                         *)
(* An organisation o stands for the call whose newID("org") it is. The     *)
(* key is provisioned before the id is drawn and is counted as o's own. A  *)
(* step is one critical section of the store or one call of a port.        *)
(***************************************************************************)
CONSTANTS
  Orgs,
  Fallible    \* the port calls whose adapter may return an error

VARIABLES
  signPc,
  keks,       \* organisations a key was provisioned for
  customers,  \* organisations the payment provider knows
  orgs,       \* store.orgs
  owners      \* organisations with an owner in store.memberships

onboardVars == <<signPc, keks, customers, orgs, owners>>

\* The port a step of Signup calls.
CallAt == [kek |-> "kek", customer |-> "customer", token |-> "token"]

SignPcs == {"kek", "customer", "put", "member", "token", "created", "failed"}

OnboardingInit ==
  /\ signPc = [o \in Orgs |-> "kek"]
  /\ keks = {}
  /\ customers = {}
  /\ orgs = {}
  /\ owners = {}

SignupGoes(o, from, to) ==
  /\ signPc[o] = from
  /\ signPc' = [signPc EXCEPT ![o] = to]

ProvisionTenantKEK(o) ==
  /\ SignupGoes(o, "kek", "customer")
  /\ keks' = keks \cup {o}
  /\ UNCHANGED <<customers, orgs, owners>>

CreateCustomer(o) ==
  /\ SignupGoes(o, "customer", "put")
  /\ customers' = customers \cup {o}
  /\ UNCHANGED <<keks, orgs, owners>>

PutOrg(o) ==
  /\ SignupGoes(o, "put", "member")
  /\ orgs' = orgs \cup {o}
  /\ UNCHANGED <<keks, customers, owners>>

AddMembership(o) ==
  /\ SignupGoes(o, "member", "token")
  /\ owners' = owners \cup {o}
  /\ UNCHANGED <<keks, customers, orgs>>

\* The client gets the organisation and its token.
IssueToken(o) ==
  /\ SignupGoes(o, "token", "created")
  /\ UNCHANGED <<keks, customers, orgs, owners>>

\* Mutation: the error of the payment provider is ignored.
SignupFailsUnlessCustomer(o) ==
  /\ signPc[o] \in DOMAIN CallAt /\ CallAt[signPc[o]] \in Fallible
  /\ signPc' = [signPc EXCEPT ![o] = IF @ = "customer" THEN "put" ELSE "failed"]
  /\ UNCHANGED <<keks, customers, orgs, owners>>

\* A port call returns an error, and so does Signup. Nothing is undone.
SignupFails(o) ==
  /\ signPc[o] \in DOMAIN CallAt /\ CallAt[signPc[o]] \in Fallible
  /\ signPc' = [signPc EXCEPT ![o] = "failed"]
  /\ UNCHANGED <<keks, customers, orgs, owners>>

SignupStep(o) ==
  \/ ProvisionTenantKEK(o) \/ CreateCustomer(o) \/ PutOrg(o)
  \/ AddMembership(o) \/ IssueToken(o) \/ SignupFails(o)

\* VerifyToken accepts every token that names an organisation, and does not ask
\* whether Signup issued it, or has returned at all.
Authenticated == Orgs

-----------------------------------------------------------------------------

\* However Signup ends, an organisation in the store has a key and a customer
\* at the payment provider, an owner belongs to an organisation in the store,
\* and one that is reported as created has all of it. So what a failed port
\* call leaves in part is outside of the store, unless it is the token's.
StoredOrgsAreComplete ==
  /\ orgs \subseteq keks \cap customers
  /\ owners \subseteq orgs
  /\ \A o \in Orgs : signPc[o] = "created" => o \in owners
=============================================================================
