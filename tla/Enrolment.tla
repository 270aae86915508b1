----------------------------- MODULE Enrolment ------------------------------
(***************************************************************************)
(* How a machine becomes a node: server/src/db/node-repo.ts and the routes *)
(* of api/routes/nodes.ts and nodes/node-http.ts that call it.             *)
(*                                                                         *)
(* A token and a secret are made and hashed over several awaits, between   *)
(* which other requests read and write the same row.  Each token and each  *)
(* secret is known by the request that made it.                            *)
(***************************************************************************)
EXTENDS Naturals, FiniteSets

CONSTANTS
  NodeIds,     \* rows; an id is drawn once
  NodeNames,   \* names operators give them
  Calls        \* bound: requests

VARIABLES
  nodeRow,     \* the node table
  call         \* each request

evars == <<nodeRow, call>>

None   == 0
NoNode == [name |-> "none", token |-> None, expired |-> FALSE, secret |-> None, revoked |-> FALSE]
Removed == [NoNode EXCEPT !.revoked = TRUE]
Unused == [kind |-> "none", at |-> "unused", id |-> None, name |-> "none", token |-> None, rows |-> {}]

Registered == {i \in NodeIds : nodeRow[i] \notin {NoNode, Removed}}
NameTaken(name) == \E i \in Registered : nodeRow[i].name = name
Answered(c, kind) == call[c].kind = kind /\ call[c].at = "answered"
Tokens == {c \in Calls : Answered(c, "create") \/ Answered(c, "token")}

EnrolInit ==
  /\ nodeRow = [i \in NodeIds |-> NoNode]
  /\ call = [c \in Calls |-> Unused]

\* Requests are numbered in the order they come.
Next1(c) == call[c] = Unused /\ \A d \in Calls : d < c => call[d] # Unused

Answer(c, at) == call' = [call EXCEPT ![c].at = at]

-----------------------------------------------------------------------------

\* POST /nodes: the name is looked at, then the token is hashed.
CreateStarts(c, name) ==
  /\ Next1(c)
  /\ call' = [call EXCEPT ![c] =
       [Unused EXCEPT !.kind = "create", !.name = name,
                      !.at = IF NameTaken(name) THEN "refused" ELSE "hashing"]]
  /\ UNCHANGED nodeRow

\* Mutant: the name was looked at before.
FreeBefore(name) == FALSE

\* The name is looked at again right before the insert.
TakenMeanwhile(name) == NameTaken(name)

CreateEnds(c) ==
  /\ call[c].kind = "create" /\ call[c].at = "hashing"
  /\ IF TakenMeanwhile(call[c].name) THEN Answer(c, "refused") /\ UNCHANGED nodeRow
     ELSE \E i \in NodeIds :
            /\ nodeRow[i] = NoNode /\ \A j \in NodeIds : j < i => nodeRow[j] # NoNode
            /\ nodeRow' = [nodeRow EXCEPT ![i] = [NoNode EXCEPT !.name = call[c].name, !.token = c]]
            /\ Answer(c, "answered")

\* POST /nodes/:id/enroll-token.
TokenStarts(c, i) ==
  /\ Next1(c) /\ i \in Registered
  /\ call' = [call EXCEPT ![c] =
       [Unused EXCEPT !.kind = "token", !.id = i,
                      !.at = IF nodeRow[i].secret # None THEN "refused" ELSE "hashing"]]
  /\ UNCHANGED nodeRow

\* The row is written as it is now, if it still is.
TokenEnds(c) ==
  LET i == call[c].id IN
    /\ call[c].kind = "token" /\ call[c].at = "hashing"
    /\ nodeRow' = IF i \in Registered
                    THEN [nodeRow EXCEPT ![i].token = c, ![i].expired = FALSE] ELSE nodeRow
    /\ Answer(c, "answered")

TokenExpires(i) ==
  /\ nodeRow[i].token # None /\ ~ nodeRow[i].expired
  /\ nodeRow' = [nodeRow EXCEPT ![i].expired = TRUE] /\ UNCHANGED call

\* POST /nodes/enroll: the rows that wait for a machine, and the hashes they have.
Candidates ==
  {i \in Registered : /\ nodeRow[i].token # None /\ ~ nodeRow[i].expired
                      /\ nodeRow[i].secret = None /\ ~ nodeRow[i].revoked}

EnrolStarts(c, token) ==
  /\ Next1(c)
  /\ call' = [call EXCEPT ![c] = [Unused EXCEPT !.kind = "enrol", !.at = "verifying",
       !.token = token, !.rows = {<<i, nodeRow[i].token>> : i \in Candidates}]]
  /\ UNCHANGED nodeRow

\* verifyPassword finds the row, and the secret is made and hashed.
EnrolVerifies(c) ==
  /\ call[c].kind = "enrol" /\ call[c].at = "verifying"
  /\ IF \E r \in call[c].rows : r[2] = call[c].token
       THEN \E r \in call[c].rows :
              r[2] = call[c].token /\ call' = [call EXCEPT ![c].at = "hashing", ![c].id = r[1], ![c].rows = {}]
       ELSE call' = [call EXCEPT ![c].at = "refused", ![c].rows = {}]
  /\ UNCHANGED nodeRow

\* Mutant: the row is written for whoever comes.
StillWaitsForAny(i) == i \in Registered

\* The conditions of the row are part of the UPDATE.
StillWaits(i) ==
  i \in Registered /\ nodeRow[i].secret = None /\ ~ nodeRow[i].revoked /\ nodeRow[i].token # None

EnrolEnds(c) ==
  LET i == call[c].id IN
    /\ call[c].kind = "enrol" /\ call[c].at = "hashing"
    /\ IF StillWaits(i)
         THEN /\ nodeRow' = [nodeRow EXCEPT ![i].secret = c, ![i].token = None, ![i].expired = FALSE]
              /\ Answer(c, "answered")
         ELSE Answer(c, "refused") /\ UNCHANGED nodeRow

\* The daemon stops, or the answer is lost.
CallLost(c) ==
  /\ call[c].at \in {"hashing", "verifying", "answered"}
  /\ call' = [call EXCEPT ![c].at = "lost", ![c].rows = {}] /\ UNCHANGED nodeRow

\* PUT /nodes/:id
Rename(i, name) ==
  /\ i \in Registered /\ ~ \E j \in Registered \ {i} : nodeRow[j].name = name
  /\ nodeRow' = [nodeRow EXCEPT ![i].name = name] /\ UNCHANGED call

\* POST /nodes/:id/revoke
Revoke(i) ==
  /\ i \in Registered /\ nodeRow' = [nodeRow EXCEPT ![i].revoked = TRUE] /\ UNCHANGED call

\* DELETE /nodes/:id, of a node without a running job.
Remove(i) ==
  /\ i \in Registered /\ nodeRow' = [nodeRow EXCEPT ![i] = Removed] /\ UNCHANGED call

EnrolNext ==
  \/ \E c \in Calls :
       \/ \E name \in NodeNames : CreateStarts(c, name)
       \/ \E i \in NodeIds : TokenStarts(c, i)
       \/ \E t \in Tokens : EnrolStarts(c, t)
       \/ CreateEnds(c) \/ TokenEnds(c) \/ EnrolVerifies(c) \/ EnrolEnds(c) \/ CallLost(c)
  \/ \E i \in NodeIds :
       \/ \E name \in NodeNames : Rename(i, name)
       \/ TokenExpires(i) \/ Revoke(i) \/ Remove(i)

EnrolSpec == EnrolInit /\ [][EnrolNext]_evars

-----------------------------------------------------------------------------

EnrolTypeOK ==
  /\ \A i \in NodeIds : nodeRow[i].token \in Calls \cup {None} /\ nodeRow[i].secret \in Calls \cup {None}
  /\ \A c \in Calls : call[c].at \in {"unused", "hashing", "verifying", "refused", "answered", "lost"}

\* No two nodes have one name, whoever creates and renames them at once
\* (node-repo.ts create).
NamesAreUnique ==
  \A i, j \in Registered : nodeRow[i].name = nodeRow[j].name => i = j

\* A machine that was answered a secret can use it: no other request for the same
\* token has written another over it (node-repo.ts clearEnrollAndSetSecret).
AnsweredSecretsWork ==
  \A c \in Calls :
    Answered(c, "enrol") /\ call[c].id \in Registered => nodeRow[call[c].id].secret = c

\* A token an operator was answered last lets a machine in.
\* Does not hold: a token that is made while a machine enrols with the one before
\* is written to a row that waits for nobody.
AnsweredTokensWork ==
  \A c \in Calls : Answered(c, "token") /\ nodeRow[call[c].id].token = c
    => nodeRow[call[c].id].secret = None
=============================================================================
