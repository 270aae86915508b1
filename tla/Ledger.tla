------------------------------- MODULE Ledger -------------------------------
(***************************************************************************)
(* The ledger record of one media file: packages/core/src/ledger.ts.       *)
(*                                                                         *)
(* holdUntilMs is abstracted to "backoff": TRUE while a deadline is        *)
(* recorded.  Whether that deadline has passed is an argument of           *)
(* IsEligible, since the ledger itself never reads the clock.  The facts   *)
(* behind "did the run change anything" are one Boolean of the outcome.    *)
(* The stored signature is what isKnownGood reads; the scan owns it, and   *)
(* it is not part of this record.                                          *)
(***************************************************************************)
EXTENDS Naturals

FileStates ==
  {"unknown", "queued", "running", "good", "failed", "not_converging", "held"}

MAX_ATTEMPTS == 3
NOOP_LIMIT   == 1

LedgerRecord ==
  [state : FileStates, attempts : Nat, noops : Nat, backoff : BOOLEAN, review : BOOLEAN]

NewLedgerRecord ==
  [state |-> "unknown", attempts |-> 0, noops |-> 0, backoff |-> FALSE, review |-> FALSE]

\* A failed attempt: a review hold stands, the last allowed attempt is terminal,
\* any other backs the file off.
RecordFailedAttempt(r) ==
  IF r.review
  THEN [r EXCEPT !.state = "held", !.backoff = FALSE]
  ELSE LET n == r.attempts + 1
       IN  [r EXCEPT !.state    = IF n >= MAX_ATTEMPTS THEN "failed" ELSE "held",
                     !.attempts = n,
                     !.backoff  = n < MAX_ATTEMPTS]

\* A finished run that succeeded; "noop" when it claimed a change and made none.
RecordSuccess(r, noop) ==
  LET n == IF noop THEN r.noops + 1 ELSE 0
  IN  [state    |-> IF n >= NOOP_LIMIT THEN "not_converging" ELSE "good",
       attempts |-> 0, noops |-> n, backoff |-> FALSE, review |-> FALSE]

RecordReviewHold(r) == [r EXCEPT !.state = "held", !.backoff = FALSE, !.review = TRUE]

\* applyRunOutcome, over the reports a run can send.
ApplyRunOutcome(r, report) ==
  CASE report = "review"  -> RecordReviewHold(r)
    [] report = "failure" -> RecordFailedAttempt(r)
    [] report = "noop"    -> RecordSuccess(r, TRUE)
    [] report = "success" -> RecordSuccess(r, FALSE)

ApplyStall(r) == RecordFailedAttempt(r)

ApplyRequeue(r) ==
  [r EXCEPT !.state = "queued", !.attempts = 0, !.noops = 0, !.backoff = FALSE, !.review = FALSE]

\* Mutant: the attempt is refunded by counting down.
RefundAttempt(r) ==
  IF r.state = "running" THEN [r EXCEPT !.state = "queued", !.attempts = @ - 1] ELSE r

\* Undo a claim that never became an attempt; a row moved since then stands.
ApplyReleaseUnpenalised(r) ==
  IF r.state = "running" THEN [r EXCEPT !.state = "queued"] ELSE r

IsEligible(r, deadlinePassed) ==
  /\ ~ r.review
  /\ r.state \in {"queued", "held"}
  /\ r.backoff => deadlinePassed

=============================================================================
