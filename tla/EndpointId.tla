----------------------------- MODULE EndpointId -----------------------------
(***************************************************************************)
(* resolveEndpointID and parseKV (controlplane/routing.go): which endpoint *)
(* a connection asks for, found in the TLS server name, else in the        *)
(* options, else before the password.                                      *)
(*                                                                         *)
(* Of the server name only the first label is read: an id and the number   *)
(* of "-pooler" suffixes after it. Options are the key=value pairs of the  *)
(* string in their order. A password is "endpoint=<id>;<rest>", or it      *)
(* lacks the prefix or the semicolon.                                      *)
(***************************************************************************)
EXTENDS Naturals, Sequences

CONSTANT NoId  \* the empty string, where an id is looked for

NoLabel == [id |-> NoId, poolers |-> 0]

NoPassword == [prefixed |-> FALSE, id |-> NoId, semicolon |-> FALSE]

\* TrimSuffix takes one suffix off.
TrimPooler(label) == [label EXCEPT !.poolers = IF @ = 0 THEN 0 ELSE @ - 1]

\* Mutation: the last pair with the key wins.
ParseKVLast(options, key) ==
  LET hits == {i \in DOMAIN options : options[i].key = key}
  IN  IF hits = {} THEN NoId
      ELSE options[CHOOSE i \in hits : \A j \in hits : j <= i].value

\* The first pair with the key, even if its value is empty.
ParseKV(options, key) ==
  LET hits == {i \in DOMAIN options : options[i].key = key}
  IN  IF hits = {} THEN NoId
      ELSE options[CHOOSE i \in hits : \A j \in hits : i <= j].value

\* The label that names the endpoint; NoLabel is the error, and also what an
\* empty id before a password's semicolon gives.
ResolveEndpointID(a) ==
  LET label == TrimPooler(a.sni)
      fromOptions == ParseKV(a.options, "endpoint")
  IN  IF label # NoLabel THEN label
      ELSE IF fromOptions # NoId THEN [NoLabel EXCEPT !.id = fromOptions]
      ELSE IF a.password.prefixed /\ a.password.semicolon
           THEN [NoLabel EXCEPT !.id = a.password.id]
           ELSE NoLabel

\* The hosts of connection_uri and connection_pooled.
Host(e)       == [id |-> e, poolers |-> 0]
PooledHost(e) == [id |-> e, poolers |-> 1]
=============================================================================
