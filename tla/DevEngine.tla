------------------------------ MODULE DevEngine ------------------------------
(***************************************************************************)
(* How the development engine serves requests                              *)
(* (training/dev_engine_flow/main.go, handleDevRequest): recall the turns  *)
(* of the session, choose the target by keywords, generate the change,     *)
(* queue it for the pipeline and remember the turn. Requests are served    *)
(* one after the other. Of an utterance the model keeps which groups of    *)
(* keywords it contains.                                                   *)
(***************************************************************************)
EXTENDS Integers, Sequences, FiniteSets, FiniteSetsExt

CONSTANTS
  Sessions,     \* session ids
  Utterances,   \* sets of indices of targets, the groups an utterance names
  MaxTurns      \* bound on the requests served

VARIABLES
  memory,       \* ConversationMemory.store
  handled       \* history: what became of each request

devEngineVars == <<memory, handled>>

-----------------------------------------------------------------------------

\* The cases of classifyTarget in their order, and its default.
targets ==
  << [layer |-> "control-plane", lang |-> "go",     kind |-> "modify-ops"],
     [layer |-> "queue",         lang |-> "rust",   kind |-> "modify-ops"],
     [layer |-> "proxy",         lang |-> "sql",    kind |-> "modify-ops"],
     [layer |-> "oss-model",     lang |-> "python", kind |-> "patch-oss"],
     [layer |-> "infra-iac",     lang |-> "hcl",    kind |-> "modify-ops"] >>

newFeature == [layer |-> "control-plane", lang |-> "go", kind |-> "new-feature"]

\* The first case that matches wins.
ClassifyTarget(u) == IF u = {} THEN newFeature ELSE targets[Min(u)]

Forbidden(t) == t.layer = "infra-iac"

\* Recall, for a session never seen the empty list.
Recall(s) == memory[s]

\* generateCode, when it returns no error.
GenerateCode(t, turns) ==
  [path  |-> <<t.layer, t.lang>>,
   op    |-> IF t.kind = "new-feature" THEN "create" ELSE "update",
   turns |-> Len(turns)]

NoArtifact == [path |-> <<>>, op |-> "", turns |-> 0]

Record(s, u, a, o) ==
  handled' = Append(handled, [session |-> s, turn |-> u, artifact |-> a,
                              outcome |-> o])

\* Mutation: the turn is remembered before it is known whether it is served.
RejectRemembered(s, u) ==
  /\ Forbidden(ClassifyTarget(u))
  /\ memory' = [memory EXCEPT ![s] = Append(@, u)]
  /\ Record(s, u, NoArtifact, "REJECTED_HARDRAIL")

\* generateCode refuses the infrastructure: the session does not remember.
Reject(s, u) ==
  /\ Forbidden(ClassifyTarget(u))
  /\ Record(s, u, NoArtifact, "REJECTED_HARDRAIL")
  /\ UNCHANGED memory

\* toPipeline, then Append.
Queue(s, u) ==
  LET t == ClassifyTarget(u) IN
  /\ ~ Forbidden(t)
  /\ Record(s, u, GenerateCode(t, Recall(s)), "QUEUED_FOR_DEPLOY")
  /\ memory' = [memory EXCEPT ![s] = Append(@, u)]

-----------------------------------------------------------------------------

DevEngineInit ==
  /\ memory = [s \in Sessions |-> <<>>]
  /\ handled = <<>>

DevEngineNext ==
  \E s \in Sessions, u \in Utterances :
    /\ Len(handled) < MaxTurns
    /\ Reject(s, u) \/ Queue(s, u)

DevEngineSpec == DevEngineInit /\ [][DevEngineNext]_devEngineVars

-----------------------------------------------------------------------------
(* Properties. *)

\* The requests of session s among the first n of h that went to the pipeline.
QueuedUpTo(h, s, n) ==
  {i \in 1 .. n : h[i].session = s /\ h[i].outcome = "QUEUED_FOR_DEPLOY"}

\* A session remembers exactly its own turns that went to the pipeline, in
\* their order, and every change builds on all of them: sessions do not mix,
\* a turn refused by the rail leaves no trace, and no change is ever queued that
\* was classified as infrastructure.
SessionsFollowTheirQueue ==
  /\ \A s \in Sessions :
       LET queued == QueuedUpTo(handled, s, Len(handled)) IN
       /\ Len(memory[s]) = Cardinality(queued)
       /\ \A i \in queued :
            memory[s][Cardinality(QueuedUpTo(handled, s, i))] = handled[i].turn
  /\ \A i \in DOMAIN handled :
       handled[i].outcome = "QUEUED_FOR_DEPLOY" =>
         /\ handled[i].artifact.turns =
              Cardinality(QueuedUpTo(handled, handled[i].session, i - 1))
         /\ handled[i].artifact.path[1] # "infra-iac"
=============================================================================
