------------------------------ MODULE Executor ------------------------------
(***************************************************************************)
(* The demo executor: the one operation a request can have with it, how an *)
(* operation is accepted, registered and moved on by the operator, and the *)
(* version of its status that every event to the house carries.            *)
(* (infrastructure/postgres/demo_executor.py, domain/executor/models.py)   *)
(***************************************************************************)
EXTENDS Naturals, Sequences

CONSTANTS None,          \* no row
          Key,           \* operation keys under which a request can be submitted
          Registration,  \* the event of a registration
          StatusEvent    \* the event ids the operator gives to status changes

VARIABLE operation       \* the row of demo_executor_operations, or None

ExternalStatus == {"submitted", "registered", "in_progress", "done"}

\* What the operator made of an operation, and by which events: the row keeps
\* the last status and the set of events, whose number gives the version.
Change == [event : {Registration} \cup StatusEvent, status : ExternalStatus]

StatusOf(row) ==
  IF row.history = <<>> THEN "submitted" ELSE row.history[Len(row.history)].status

ProcessedEvents(row) == {row.history[i].event : i \in 1..Len(row.history)}

\* Mutant: the version does not count the registration.
VersionOfReports(row) == Len(row.history) - 1

\* The version of get_status and of the event of the last change.
VersionOf(row) == Len(row.history)

ExecutorTypeOK ==
  operation \in {None} \cup [key : Key, revision : Nat, history : Seq(Change)]

ExecutorInit == operation = None

\* submit_once: a key answers again as it did, and only for the same draft; a
\* request has one operation, of the draft that is approved at this moment.
Accepts(key, revision, row) ==
  IF operation # None
  THEN operation.key = key /\ operation.revision = revision
  ELSE /\ row.draft = revision
       /\ row.approved = revision
       /\ row.status \in {"approved", "submitting"}

SubmitOnce(key, revision) ==
  operation' = IF operation # None THEN operation
               ELSE [key |-> key, revision |-> revision, history |-> <<>>]

\* register_atomic; a second registration changes nothing.
RegisterAtomic ==
  /\ operation # None
  /\ StatusOf(operation) = "submitted"
  /\ operation' = [operation EXCEPT !.history =
                     <<[event |-> Registration, status |-> "registered"]>>]

\* change_status_atomic; a known event id, or progress reported twice, changes
\* nothing, and an operation that is done is closed to the operator.
ChangeStatusAtomic(event, status) ==
  /\ operation # None
  /\ event \notin ProcessedEvents(operation)
  /\ StatusOf(operation) \in {"registered", "in_progress"}
  /\ status \in {"in_progress", "done"}
  /\ <<StatusOf(operation), status>> # <<"in_progress", "in_progress">>
  /\ operation' = [operation EXCEPT !.history =
                     Append(@, [event |-> event, status |-> status])]

=============================================================================
