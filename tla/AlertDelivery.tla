---------------------------- MODULE AlertDelivery ----------------------------
(***************************************************************************)
(* How an alert leaves the daemon: server/src/alerts/deliver.ts, one lane  *)
(* (destinations have a queue and a pump each and meet only in drain).     *)
(*                                                                         *)
(* The pump is an asynchronous loop: between the step that finds the queue *)
(* empty and the one that ends the pump, a message may be queued that      *)
(* finds a pump already running.  The receiver may answer, refuse for good *)
(* or for now, or never answer; a stop drains the queue up to a deadline   *)
(* and then aborts what is left.                                           *)
(*                                                                         *)
(* Abstracted: bodies and headers; the length of a timeout, a backoff or   *)
(* the deadline.  Messages are numbered in the order they are queued.      *)
(***************************************************************************)
EXTENDS Naturals, Sequences

CONSTANTS MaxQueue, Retries, MaxMessages   \* MaxMessages bounds the model

VARIABLES
  queue,     \* lane.queue
  pump,      \* where the pump of the lane is: see Pumps
  sending,   \* the message in flight, 0 if none
  tries,     \* attempts made for it
  epoch,     \* the abort signal the delivery in flight holds: "live", "aborted"
  signal,    \* the signal of the current epoch
  drain,     \* where drain() is: see Drains
  awaited,   \* the pump that runs is one drain waits for
  overdue,   \* how many messages had been queued at the deadline (history)
  stopped,   \* stop() was called
  given,     \* messages queued so far
  dropped,   \* counted as dropped
  fate       \* what became of each message (history)

advars == <<queue, pump, sending, tries, epoch, signal, drain, awaited, overdue,
           stopped, given, dropped, fate>>

\* "none" (no pump), "due" (deferred), "next" (about to shift), "send" (a
\* request is out), "back" (backing off), "over" (the loop has ended).
Pumps  == {"none", "due", "next", "send", "back", "over"}
\* not called; waiting for the pumps; past its deadline and waiting for the
\* aborted ones; done.
Drains == {"no", "waiting", "aborting", "done"}
Messages == 1..MaxMessages

DeliveryTypeOK ==
  /\ queue \in Seq(Messages) /\ Len(queue) <= MaxQueue /\ pump \in Pumps
  /\ sending \in 0..MaxMessages /\ tries \in 0..Retries + 1
  /\ epoch \in {"live", "aborted"} /\ signal \in {"live", "aborted"}
  /\ drain \in Drains /\ awaited \in BOOLEAN /\ stopped \in BOOLEAN
  /\ overdue \in 0..MaxMessages /\ given \in 0..MaxMessages
  /\ dropped \subseteq Messages
  /\ fate \in [Messages -> {"none", "delivered", "failed", "aborted", "ignored"}]

DeliveryInit ==
  /\ queue = << >> /\ pump = "none" /\ sending = 0 /\ tries = 0
  /\ epoch = "live" /\ signal = "live" /\ drain = "no" /\ awaited = FALSE
  /\ overdue = 0 /\ stopped = FALSE /\ given = 0 /\ dropped = {} /\ fate = [m \in Messages |-> "none"]

\* The queue is bounded and sheds the oldest; what it sheds is counted.
Shed(q) == IF Len(q) > MaxQueue THEN SubSeq(q, Len(q) - MaxQueue + 1, Len(q)) ELSE q

InQueue(q) == {q[i] : i \in DOMAIN q}

\* enqueue: a pump is started only when none is running.
Enqueue ==
  /\ given < MaxMessages /\ given' = given + 1
  /\ LET m == given + 1  full == Append(queue, m) IN
       IF stopped
         THEN fate' = [fate EXCEPT ![m] = "ignored"] /\ UNCHANGED <<queue, pump, dropped>>
         ELSE /\ queue' = Shed(full)
              /\ dropped' = dropped \cup (InQueue(full) \ InQueue(Shed(full)))
              /\ pump' = IF pump = "none" THEN "due" ELSE pump
              /\ UNCHANGED fate
  /\ UNCHANGED <<sending, tries, epoch, signal, drain, awaited, overdue, stopped>>

PumpStarts ==
  /\ pump = "due" /\ pump' = "next"
  /\ UNCHANGED <<queue, sending, tries, epoch, signal, drain, awaited, overdue, stopped, given, dropped, fate>>

\* A message is taken; its delivery keeps the signal of this moment.
PumpShifts ==
  /\ pump = "next" /\ ~ stopped /\ queue # << >>
  /\ sending' = Head(queue) /\ queue' = Tail(queue)
  /\ tries' = 0 /\ epoch' = signal /\ pump' = "send"
  /\ UNCHANGED <<signal, drain, awaited, overdue, stopped, given, dropped, fate>>

PumpEnds ==
  /\ pump = "next" /\ (stopped \/ queue = << >>)
  /\ pump' = "over"
  /\ UNCHANGED <<queue, sending, tries, epoch, signal, drain, awaited, overdue, stopped, given, dropped, fate>>

\* Mutant: the pump is over, whatever was queued while it ended.
PumpSettlesBlindly ==
  /\ pump = "over" /\ pump' = "none" /\ awaited' = FALSE
  /\ UNCHANGED <<queue, sending, tries, epoch, signal, drain, overdue, stopped, given, dropped, fate>>

\* The finally of startPump: what was queued meanwhile gets a pump of its own.
PumpSettles ==
  /\ pump = "over"
  /\ pump' = IF queue # << >> /\ ~ stopped THEN "due" ELSE "none"
  /\ awaited' = FALSE
  /\ UNCHANGED <<queue, sending, tries, epoch, signal, drain, overdue, stopped, given, dropped, fate>>

Ends(outcome) ==
  /\ fate' = [fate EXCEPT ![sending] = outcome]
  /\ sending' = 0 /\ pump' = "next"
  /\ UNCHANGED tries

\* An attempt ends.  It is aborted, at once, when its signal is; else the
\* receiver takes the message, refuses it for good, or (a 5xx, a timeout)
\* for now, which is tried again after a backoff.
AttemptEnds ==
  /\ pump = "send"
  /\ IF epoch = "aborted" THEN Ends("aborted")
     ELSE \/ Ends("delivered")
          \/ Ends("failed")
          \/ IF tries = Retries
               THEN Ends("failed")
               ELSE /\ tries' = tries + 1 /\ pump' = "back"
                    /\ UNCHANGED <<sending, fate>>
  /\ UNCHANGED <<queue, epoch, signal, drain, awaited, overdue, stopped, given, dropped>>

\* The sleep ends by its timer or by the abort, which ends the delivery.
BackoffEnds ==
  /\ pump = "back"
  /\ IF epoch = "aborted" THEN Ends("aborted")
                          ELSE pump' = "send" /\ UNCHANGED <<sending, tries, fate>>
  /\ UNCHANGED <<queue, epoch, signal, drain, awaited, overdue, stopped, given, dropped>>

Pumping == pump # "none"

\* drain waits for the pumps that run when it is called.
DrainStarts ==
  /\ drain = "no"
  /\ awaited' = Pumping
  /\ drain' = IF Pumping THEN "waiting" ELSE "done"
  /\ UNCHANGED <<queue, pump, sending, tries, epoch, signal, overdue, stopped, given, dropped, fate>>

\* The pump it waited for has settled; a later one is not its concern.
DrainEnds ==
  /\ drain \in {"waiting", "aborting"} /\ ~ awaited
  /\ drain' = "done"
  /\ signal' = IF drain = "aborting" THEN "live" ELSE signal
  /\ UNCHANGED <<queue, pump, sending, tries, epoch, awaited, overdue, stopped, given, dropped, fate>>

\* Mutant: the new signal is in place before the aborted work has settled.
SignalSwapped == signal' = "live"

\* Abort, settle, then swap: what starts meanwhile sees the aborted signal.
SignalAborted == signal' = "aborted"

\* Mutant: what is in flight is not counted.
CountQueue == dropped' = dropped \cup InQueue(queue)

Count == dropped' = dropped \cup InQueue(queue) \cup ({sending} \ {0})

\* The deadline: what is queued or in flight is counted and aborted.
Deadline ==
  /\ drain = "waiting" /\ awaited /\ drain' = "aborting"
  /\ Count /\ queue' = << >> /\ overdue' = given
  /\ SignalAborted /\ epoch' = "aborted"
  /\ UNCHANGED <<pump, sending, tries, awaited, stopped, given, fate>>

\* The daemon stops the deliverer once drain has answered.
Stops ==
  /\ drain = "done" /\ ~ stopped
  /\ stopped' = TRUE /\ queue' = << >>
  /\ signal' = "aborted" /\ epoch' = "aborted"
  /\ UNCHANGED <<pump, sending, tries, drain, awaited, overdue, given, dropped, fate>>

PumpSteps == PumpStarts \/ PumpShifts \/ PumpEnds \/ PumpSettles \/ AttemptEnds \/ BackoffEnds

DeliveryNext == Enqueue \/ PumpSteps \/ DrainStarts \/ DrainEnds \/ Deadline \/ Stops

\* The event loop runs what is ready; every attempt has a timeout; the
\* deadline is a timer.
DeliveryFairness == WF_advars(PumpSteps) /\ WF_advars(DrainEnds) /\ WF_advars(Deadline)
DeliverySpec == DeliveryInit /\ [][DeliveryNext]_advars /\ DeliveryFairness

-----------------------------------------------------------------------------

\* No message waits in a queue that nobody is going to read.
NothingStranded == queue # << >> => Pumping

\* The count the daemon logs of a stop: a message queued before the deadline
\* that was neither delivered nor refused by its receiver is in it.
DroppedAreCounted ==
  \A m \in 1..overdue : fate[m] \in {"none", "aborted"} => m \in dropped

\* Between the deadline and the end of a drain nothing more is sent, also
\* not what was queued meanwhile.
NothingSentPastDeadline ==
  [][drain = "aborting" => \A m \in Messages : fate'[m] # fate[m] => fate'[m] = "aborted"]_advars

\* Shutdown does not wait on somebody else's server.
DrainReturns == drain # "no" ~> drain = "done"
=============================================================================
