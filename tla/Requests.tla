------------------------------ MODULE Requests ------------------------------
(***************************************************************************)
(* The request of one case and the short transactions of its store: draft, *)
(* approval, submission, registration, the status the executor reports,    *)
(* the bound document and the follow-up at the deadline.  Each transaction *)
(* is a pair: what it checks under the row lock, and what it then writes.  *)
(* (infrastructure/postgres/requests.py, application/requests/)            *)
(***************************************************************************)
EXTENDS Executor

CONSTANTS Actor,      \* residents who may write, approve and submit
          MaxDraft    \* bound on the drafts of a request

VARIABLES case,       \* status and version of the case
          request,    \* the row of requests
          recorded,   \* status events in the journal of the case
          seen        \* the draft that each actor was shown last

NoRequest == [status |-> "none", draft |-> 0, approved |-> 0, approver |-> None,
              submitKey |-> None, executorKey |-> None,
              external |-> None, externalVersion |-> 0, document |-> FALSE]

RequestStatus ==
  {"none", "prepared", "approved", "submitting", "submitted", "registered"}

Verdict == {"closed", "reopened", "resolution_unconfirmed"}

CaseStatus ==
  {"request_ready", "detected", "awaiting_approval", "awaiting_registration",
   "in_progress", "followup_draft", "checking_resolution"} \cup Verdict

RequestsTypeOK ==
  /\ case \in [status : CaseStatus, version : Nat \ {0}]
  /\ request \in [status : RequestStatus, draft : 0..MaxDraft,
                  approved : 0..MaxDraft, approver : Actor \cup {None},
                  submitKey : Key \cup {None}, executorKey : Key \cup {None},
                  external : ExternalStatus \cup {None},
                  externalVersion : Nat, document : BOOLEAN]
  /\ recorded \subseteq StatusEvent
  /\ seen \in [Actor -> 0..MaxDraft]

\* A case waits for its request; an emergency does so from its detection.
RequestsInit ==
  /\ case \in [status : {"request_ready", "detected"}, version : {1}]
  /\ request = NoRequest
  /\ recorded = {}
  /\ seen = [a \in Actor |-> 0]

\* Every write to the case moves its version on.
Versioned(status) == case' = [status |-> status, version |-> case.version + 1]

\* prepare and prepare_once.  The version that the command names is compared
\* under the lock: a stale command, like a repeated one, changes nothing.
Prepare ==
  /\ case.status \in {"request_ready", "detected"}
  /\ request.status \in {"none", "registered"}
  /\ request' = [NoRequest EXCEPT !.status = "prepared", !.draft = 1]
  /\ Versioned("awaiting_approval")
  /\ UNCHANGED <<recorded, seen>>

\* The statuses in which a look at the draft, or a call of submit, can still
\* lead to anything; a submitted request only answers with what it is.
Submittable == {"prepared", "approved", "submitting"}

\* get_status: the actor is shown the draft as it is now.
Show(a) ==
  /\ request.status \in Submittable
  /\ seen' = [seen EXCEPT ![a] = request.draft]
  /\ UNCHANGED <<case, request, recorded>>

\* Mutant: a draft is revised while it is being submitted.
ReviseInFlight ==
  /\ request.status \in {"prepared", "approved", "submitting"}
  /\ request.draft < MaxDraft
  /\ request' = [request EXCEPT !.status = "prepared", !.draft = @ + 1,
                                !.approved = 0, !.approver = None]
  /\ UNCHANGED <<case, recorded, seen>>

\* revise: a new draft, which nobody has approved.
Revise ==
  /\ request.status \in {"prepared", "approved"}
  /\ request.draft < MaxDraft
  /\ request' = [request EXCEPT !.status = "prepared", !.draft = @ + 1,
                                !.approved = 0, !.approver = None]
  /\ UNCHANGED <<case, recorded, seen>>

\* Mutant: a draft is approved again while it is being submitted.
ApproveInFlight(a) ==
  /\ request.status \in {"prepared", "submitting"}
  /\ request.draft = seen[a]
  /\ request' = [request EXCEPT !.status = "approved", !.approved = seen[a],
                                !.approver = a]
  /\ UNCHANGED <<case, recorded, seen>>

\* approve: of the draft that the actor was shown, if it is still the current one.
Approve(a) ==
  /\ request.status = "prepared"
  /\ request.draft = seen[a]
  /\ request' = [request EXCEPT !.status = "approved", !.approved = seen[a],
                                !.approver = a]
  /\ UNCHANGED <<case, recorded, seen>>

\* A photo, its assessment or a further message on an open case.
Touch ==
  /\ case.status # "closed"
  /\ Versioned(case.status)
  /\ UNCHANGED <<request, recorded, seen>>

-----------------------------------------------------------------------------

\* submit reads the row without a lock and compares only the approver.
MaySubmit(a) ==
  request.status \in {"approved", "submitting", "submitted", "registered"}
    => request.approver = a

\* reserve_submit: the key that holds the submission, or an approved draft.
HoldsSubmission(key) ==
  request.submitKey = key /\ request.status \in {"submitting", "submitted", "registered"}

CanReserve(revision, key) ==
  /\ request.draft = revision
  /\ \/ HoldsSubmission(key)
     \/ request.status = "approved" /\ request.approved = request.draft

Reserve(key) ==
  request' = IF HoldsSubmission(key) THEN request
             ELSE [request EXCEPT !.submitKey = key, !.status = "submitting"]

\* mark_submitted, with the operation that the executor answered.
CanMark(key) ==
  /\ request.submitKey = key
  /\ \/ request.status = "submitted" /\ request.executorKey = operation.key
     \/ request.status = "submitting"

MarkSubmitted ==
  IF request.status = "submitted" THEN UNCHANGED <<case, request>>
  ELSE /\ request' = [request EXCEPT !.executorKey = operation.key,
                                     !.status = "submitted"]
       /\ Versioned("awaiting_registration")

\* register: of the operation this request knows, once.
CanRegister ==
  /\ request.executorKey = operation.key
  /\ request.draft = operation.revision
  /\ request.status \in {"submitted", "registered"}

Register ==
  IF request.status = "registered" THEN UNCHANGED <<case, request>>
  ELSE /\ request' = [request EXCEPT !.status = "registered",
                        !.external = "registered",
                        !.externalVersion = IF @ = 0 THEN 1 ELSE @]
       /\ Versioned("in_progress")

\* record_external_status: what get_status answered must be of the version of
\* the event.  An event in the journal is accepted again whatever came after it;
\* a version that the row holds is accepted without a trace.
Reachable == [registered  |-> {"registered", "in_progress", "done"},
              in_progress |-> {"in_progress", "done"},
              done        |-> {"done"}]

IsRecorded(event, answer) ==
  event \in recorded \/ answer.version = request.externalVersion

CanRecord(event, version, answer) ==
  /\ answer.version = version
  /\ \/ event \in recorded
     \/ /\ request.status = "registered"
        /\ answer.status \in Reachable[request.external]
        /\ \/ answer.version > request.externalVersion /\ case.status # "closed"
           \/ /\ answer.version = request.externalVersion
              /\ answer.status = request.external

\* Mutant: the executor's done closes the case.
RecordCloses(event, answer) ==
  IF IsRecorded(event, answer) THEN UNCHANGED <<case, request, recorded>>
  ELSE /\ request' = [request EXCEPT !.external = answer.status,
                                     !.externalVersion = answer.version]
       /\ recorded' = recorded \cup {event}
       /\ Versioned(IF answer.status = "done" THEN "closed" ELSE case.status)

\* What is new is kept, with its event in the journal of the case.
Record(event, answer) ==
  IF IsRecorded(event, answer) THEN UNCHANGED <<case, request, recorded>>
  ELSE /\ request' = [request EXCEPT !.external = answer.status,
                                     !.externalVersion = answer.version]
       /\ recorded' = recorded \cup {event}
       /\ Versioned(case.status)

\* bind_document: the appeal of this request, bound once.
CanBind == request.status # "none" /\ (request.document \/ case.status # "closed")

Bind ==
  IF request.document THEN UNCHANGED <<case, request>>
  ELSE /\ request' = [request EXCEPT !.document = TRUE]
       /\ Versioned(case.status)

\* RequestDeadlineRevisionReader: no version of a case that has moved on.
DeadlineIsCurrent(version) ==
  /\ request.status = "registered"
  /\ case.status = "in_progress"
  /\ case.version = version

\* Mutant: the handler trusts the check of the scheduler.
FollowupUnchecked(version) == Versioned("followup_draft") /\ UNCHANGED request

\* RequestDeadlineHandler repeats the check under the lock.
Followup(version) ==
  /\ IF DeadlineIsCurrent(version) THEN Versioned("followup_draft") ELSE UNCHANGED case
  /\ UNCHANGED request

=============================================================================
