----------------------------- MODULE Resolution -----------------------------
(***************************************************************************)
(* The check of a result: a poll of the original audience, opened when the *)
(* executor says done, and the decision that its outcome brings to the     *)
(* case.  (application/resolution/, infrastructure/postgres/resolution.py) *)
(***************************************************************************)
EXTENDS Requests

VARIABLES check,   \* the row of resolution_checks
          poll     \* the poll of the check: none, open, or its outcome

PollState == {"none", "open"} \cup Verdict

ResolutionTypeOK ==
  /\ check \in [status : {"none", "checking"} \cup Verdict,
                caseVersion : Nat, doneEvent : StatusEvent \cup {None}]
  /\ poll \in PollState

NoCheck == [status |-> "none", caseVersion |-> 0, doneEvent |-> None]

ResolutionInit == check = NoCheck /\ poll = "none"

\* handle_status goes on only with the event by which the row became done.
IsDone(event, version) ==
  /\ request.external = "done"
  /\ request.externalVersion = version
  /\ event \in ProcessedEvents(operation)

\* start_check and start_once, with the case as it was read before: the check
\* of this event answers again, otherwise the case must not have moved.
Started(event) == check.doneEvent = event

CanStart(event, view) ==
  /\ view.status \in {"in_progress", "checking_resolution"}
  /\ \/ Started(event)
     \/ /\ case.version = view.version
        /\ case.status = "in_progress"
        /\ StatusOf(operation) = "done"
        /\ event \in ProcessedEvents(operation)

Start(event, view) ==
  IF Started(event) THEN UNCHANGED <<case, check, poll>>
  ELSE /\ check' = [status |-> "checking", caseVersion |-> view.version,
                    doneEvent |-> event]
       /\ poll' = "open"
       /\ Versioned("checking_resolution")

\* The deadline of the poll, or its threshold: module Poll says how.
ClosePoll(outcome) == poll = "open" /\ poll' = outcome

\* finalize_atomic: decided once, and only while the case is where it was.
CanDecide ==
  \/ check.status # "checking"
  \/ /\ case.status = "checking_resolution"
     /\ case.version = check.caseVersion + 1

Decide ==
  IF check.status # "checking" THEN UNCHANGED <<case, check>>
  ELSE check' = [check EXCEPT !.status = poll] /\ Versioned(poll)

=============================================================================
