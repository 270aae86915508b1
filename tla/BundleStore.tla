---------------------------- MODULE BundleStore ----------------------------
(***************************************************************************)
(* The server's side of plugin bundles: nodes/bundles.ts names the tree a  *)
(* plugin is installed in by the hash of its bytes, nodes/hub.ts sends the *)
(* hash with a job, and nodes/node-http.ts serves what it names.           *)
(*                                                                         *)
(* A walk of a tree lists it at once and reads it later; an operator edits *)
(* or removes the tree of a directory source at any time.  Files are not   *)
(* told apart: a tree has a content and a stamp, and the signature of a    *)
(* walk is both.  What the node does with a bundle is BundleCache.         *)
(***************************************************************************)
EXTENDS Naturals, FiniteSets, TLC

CONSTANTS
  Roots,       \* trees that plugins are installed from
  Contents,    \* what a tree may hold
  Requests,    \* jobs that are being sent and fetched for
  MaxEdits     \* bound: changes of the trees

VARIABLES
  tree,        \* each root as it is on disk
  cacheByRoot, \* what was last hashed of each root
  rootByHash,  \* the root that is served under a hash (and its files, filesByHash)
  request,     \* the job each request is for, or the fetch of its node
  edits

bsvars == <<tree, cacheByRoot, rootByHash, request, edits>>

Gone    == "gone"
Torn    == "torn"
NoEntry == [signature |-> << >>, hash |-> Gone]
Idle    == [phase |-> "idle", root |-> Gone, signature |-> << >>, asked |-> Gone, listed |-> Gone]

Signature(r) == <<tree[r].content, tree[r].stamp>>

StoreInit ==
  /\ tree \in [Roots -> [content : Contents, stamp : {0}]]
  /\ cacheByRoot = [r \in Roots |-> NoEntry]
  /\ rootByHash = [h \in {} |-> Gone]
  /\ request = [q \in Requests |-> Idle] /\ edits = 0

\* A walk answers from the cache, throws, or goes on to read what it listed.
Cached(r) == cacheByRoot[r].hash # Gone /\ cacheByRoot[r].signature = Signature(r)

Walk(q, r, reading, cached) ==
  request' = [request EXCEPT ![q] =
    IF tree[r].content = Gone THEN [@ EXCEPT !.phase = "failed"]
    ELSE IF Cached(r) THEN cached
    ELSE [@ EXCEPT !.phase = reading, !.root = r, !.signature = Signature(r)]]

\* What a read sees of a tree that changes under it.
Seen(r, signature) ==
  IF Signature(r) = signature THEN {signature[1]}
  ELSE {signature[1], tree[r].content, Torn} \ {Gone}

\* Mutant: the bundle a hash named before stays.
KeepPrevious(r, signature, hash) ==
  /\ cacheByRoot' = [cacheByRoot EXCEPT ![r] = [signature |-> signature, hash |-> hash]]
  /\ rootByHash' = (hash :> r) @@ rootByHash

\* manifestFor, once the bytes are read: the hash this root had names nothing now.
Register(r, signature, hash) ==
  LET stale == {cacheByRoot[r].hash} \ {hash} IN
    /\ cacheByRoot' = [cacheByRoot EXCEPT ![r] = [signature |-> signature, hash |-> hash]]
    /\ rootByHash' = [h \in {hash} \cup (DOMAIN rootByHash \ stale) |->
                        IF h = hash THEN r ELSE rootByHash[h]]

\* hub.ts prepareFor: the bundle of a job is hashed, and the job is sent with it.
Prepare(q, r) ==
  /\ request[q].phase = "idle"
  /\ Walk(q, r, "preparing",
          [request[q] EXCEPT !.phase = "sent", !.root = r, !.asked = cacheByRoot[r].hash])
  /\ UNCHANGED <<tree, cacheByRoot, rootByHash, edits>>

\* Mutant: today's manifest is answered under yesterday's hash.
AnswersAnyway(hash, asked) == TRUE

\* node-http.ts: a walk that lands on another hash answers 404.
Answers(hash, asked) == hash = asked

\* The node asks for the manifest of its job's bundle.
GetManifest(q) ==
  /\ request[q].phase = "sent"
  /\ IF request[q].asked \notin DOMAIN rootByHash
     THEN request' = [request EXCEPT ![q].phase = "failed"]
     ELSE LET r == rootByHash[request[q].asked]
              hash == cacheByRoot[r].hash IN
            Walk(q, r, "listing",
                 [request[q] EXCEPT !.phase = IF Answers(hash, request[q].asked) THEN "fetching" ELSE "failed",
                                    !.listed = hash])
  /\ UNCHANGED <<tree, cacheByRoot, rootByHash, edits>>

\* The bytes of a walk are read.
ReadEnds(q) ==
  LET c == request[q] IN
    /\ c.phase \in {"preparing", "listing"}
    /\ \E hash \in Seen(c.root, c.signature) :
         /\ Register(c.root, c.signature, hash)
         /\ request' = [request EXCEPT ![q] =
              IF c.phase = "preparing" THEN [c EXCEPT !.phase = "sent", !.asked = hash]
              ELSE [c EXCEPT !.phase = IF Answers(hash, c.asked) THEN "fetching" ELSE "failed",
                             !.listed = hash]]
    /\ UNCHANGED <<tree, edits>>

\* A file that was listed is gone when it is read.
ReadFails(q) ==
  /\ request[q].phase \in {"preparing", "listing"}
  /\ Signature(request[q].root) # request[q].signature
  /\ request' = [request EXCEPT ![q].phase = "failed"]
  /\ UNCHANGED <<tree, cacheByRoot, rootByHash, edits>>

\* The node fetches the files, which are not walked again, and checks their bytes.
GetFiles(q) ==
  /\ request[q].phase = "fetching"
  /\ LET asked == request[q].asked IN
       request' = [request EXCEPT ![q].phase =
         IF asked \in DOMAIN rootByHash /\ tree[rootByHash[asked]].content = request[q].listed
           THEN "fetched" ELSE "failed"]
  /\ UNCHANGED <<tree, cacheByRoot, rootByHash, edits>>

\* The job settles.
Settles(q) ==
  /\ request[q].phase \in {"fetched", "failed"}
  /\ request' = [request EXCEPT ![q] = Idle]
  /\ UNCHANGED <<tree, cacheByRoot, rootByHash, edits>>

\* The operator, or the sync of a source, changes a tree.
Edit(r) ==
  /\ edits < MaxEdits /\ edits' = edits + 1
  /\ \E c \in (Contents \cup {Gone}) \ {tree[r].content} :
       tree' = [tree EXCEPT ![r] = [content |-> c, stamp |-> @.stamp + 1]]
  /\ UNCHANGED <<cacheByRoot, rootByHash, request>>

StoreNext ==
  \/ \E q \in Requests :
       \/ \E r \in Roots : Prepare(q, r)
       \/ GetManifest(q) \/ ReadEnds(q) \/ ReadFails(q) \/ GetFiles(q) \/ Settles(q)
  \/ \E r \in Roots : Edit(r)

StoreSpec == StoreInit /\ [][StoreNext]_bsvars

-----------------------------------------------------------------------------

StoreTypeOK ==
  /\ \A r \in Roots : tree[r].content \in Contents \cup {Gone}
  /\ DOMAIN rootByHash \subseteq Contents \cup {Torn}
  /\ \A q \in Requests : request[q].phase \in
       {"idle", "preparing", "sent", "listing", "fetching", "fetched", "failed"}

\* However the walks of a tree overlap, a hash is served from the tree it was last
\* computed of, and a tree under one hash at most (bundles.ts manifestFor).
ServedHashIsTheLast ==
  \A h \in DOMAIN rootByHash : cacheByRoot[rootByHash[h]].hash = h

\* A node that is answered has the bytes its job names (node-http.ts).
BytesAreTheHash ==
  \A q \in Requests : request[q].phase \in {"fetching", "fetched"} => request[q].listed = request[q].asked

\* A job that was sent can fetch its bundle while the tree is what it was hashed from.
\* Does not hold: a walk that began before an edit may end after one that began
\* behind it, and two roots with one content share its hash, which the edit of
\* either takes from both.
SentBundleIsServed ==
  \A q \in Requests :
    request[q].phase = "sent" /\ tree[request[q].root].content = request[q].asked
      => request[q].asked \in DOMAIN rootByHash
=============================================================================
