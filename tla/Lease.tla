------------------------------- MODULE Lease -------------------------------
(***************************************************************************)
(* The lease of a remote claim: packages/core/src/lease.ts.                *)
(*                                                                         *)
(* The code stores {state, expiresAtMs} and compares expiresAtMs with the  *)
(* server's clock.  Here a lease carries only what those comparisons tell  *)
(* apart: "lapsed" is TRUE once the clock has reached expiresAtMs, which   *)
(* is non-null exactly in grace.  A step of the clock sets it (Lapse).     *)
(***************************************************************************)

LeaseStates == {"connected", "grace", "committing", "expired"}

Lease == [state : LeaseStates, lapsed : BOOLEAN]

\* lease_state IS NULL: a job whose frame has not been sent yet.
NoLease == [state |-> "none", lapsed |-> FALSE]

LeaseOnClaim == [state |-> "connected", lapsed |-> FALSE]

\* Mutant: a lost socket starts the grace of a committing lease too.
GraceForAll(l) ==
  IF l.state \in {"connected", "committing"} THEN [state |-> "grace", lapsed |-> FALSE] ELSE l

LeaseOnDisconnect(l) ==
  IF l.state = "connected" THEN [state |-> "grace", lapsed |-> FALSE] ELSE l

\* Mutant: a daemon start forgets that a commit was under way.
GraceOnStart(l) ==
  IF l.state # "expired" THEN [state |-> "grace", lapsed |-> FALSE] ELSE l

\* A daemon that was down does not know for how long: grace starts again.
LeaseOnDaemonStart(l) ==
  IF l.state \in {"connected", "grace"} THEN [state |-> "grace", lapsed |-> FALSE] ELSE l

LeaseIsExpired(l) == l.state = "grace" /\ l.lapsed

LeaseOnReconnect(l) ==
  CASE l.state = "expired" \/ LeaseIsExpired(l) -> [l EXCEPT !.state = "expired"]
    [] l.state = "grace" /\ ~ l.lapsed          -> LeaseOnClaim
    [] OTHER                                    -> l

LeaseAfterStep(l) == IF l.state = "committing" THEN LeaseOnClaim ELSE l

\* Mutant: a grant is not written to the lease.
GrantUnrecorded(l, kind) == l

\* decideCommit: who may write now, and the lease a grant leaves behind.  Only
\* a Replace is recorded in the lease; a plugin's commit leaves it as it was.
CommitAllowed(l, stillClaimed) == stillClaimed /\ l.state \in {"connected", "committing"}

LeaseOnGrant(l, kind) ==
  IF kind = "replace" THEN [state |-> "committing", lapsed |-> FALSE] ELSE l

=============================================================================
