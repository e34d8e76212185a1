----------------------------- MODULE Fulfilment -----------------------------
(***************************************************************************)
(* One case from its draft to the decision about its result: residents and *)
(* the agent who write, approve and submit, the operator of the executor,  *)
(* and the workers that handle the events and the deadline of the request. *)
(* All of them meet in one case, whose version tells each of them whether  *)
(* it has moved since they looked.  Composes Executor, Requests, Resolution.*)
(* (application/requests/service.py, application/resolution/production.py, *)
(* application/agent/events.py, entrypoints/processes.py)                  *)
(***************************************************************************)
EXTENDS Resolution, FiniteSets

CONSTANTS Call,            \* calls of submit; to try again is another call
          KeyOf,           \* the operation id of each call
          ActorOf,         \* and the resident who makes it
          Handler,         \* workers of the inbox and of the scheduler
          MaxAttempts,     \* tries after which a failing event is given up
          MaxTouches,      \* bound on photos and messages attached to the case
          MaxDisruptions,  \* bound on crashes and lost leases
          Timed            \* whether the rule of the request has a deadline

ASSUME FulfilmentAssumption ==
  /\ None \notin Key \cup Actor \cup Handler
  /\ None \notin {Registration} \cup StatusEvent \cup {"document", "deadline", "decided"}
  /\ None \notin [key : Key, revision : Nat, history : Seq(Change)]
  /\ Registration \notin StatusEvent
  /\ {"document", "deadline", "decided"} \cap ({Registration} \cup StatusEvent) = {}
  /\ \A c \in Call : KeyOf[c] \in Key /\ ActorOf[c] \in Actor
  /\ MaxDraft \in Nat \ {0}
  /\ MaxAttempts \in Nat \ {0}
  /\ MaxTouches \in Nat /\ MaxDisruptions \in Nat

VARIABLES call,        \* where each call of submit stands
          event,       \* the inbox rows and the deadline job of the request
          handler,     \* what each worker is doing
          touches, disruptions

requestVars == <<case, request, recorded, seen>>
checkVars   == <<check, poll>>
workVars    == <<event, handler>>
boundVars   == <<touches, disruptions>>
vars == <<operation, requestVars, checkVars, call, workVars, boundVars>>

Event == {Registration, "document", "deadline", "decided"} \cup StatusEvent

EventStatus == {"absent", "pending", "processing", "settled"}
Step == {"check", "register", "read", "record", "look", "view", "start", "bind",
         "draft", "decide", "agent", "finish"}

Absent == [status |-> "absent", attempts |-> 0, owner |-> None, version |-> 0]
\* A row that is done, dead or skipped as stale: nothing reads which, nor the
\* attempts and the owner it had; a worker that comes late has the version.
Settled(row) == [row EXCEPT !.status = "settled", !.attempts = 0, !.owner = None]
Idle == [event |-> None, step |-> "finish",
         answer |-> [status |-> None, version |-> 0],
         view |-> [status |-> None, version |-> 0]]
NoCall == [step |-> "idle", revision |-> 0]
Over == [NoCall EXCEPT !.step = "over"]

TypeOK ==
  /\ ExecutorTypeOK /\ RequestsTypeOK /\ ResolutionTypeOK
  /\ call \in [Call -> [step : {"idle", "checked", "reserved", "sent", "over"},
                        revision : 0..MaxDraft]]
  /\ event \in [Event -> [status : EventStatus, attempts : Nat,
                          owner : Handler \cup {None}, version : Nat]]
  /\ handler \in [Handler -> [event : Event \cup {None}, step : Step,
        answer : [status : ExternalStatus \cup {None}, version : Nat],
        view : [status : CaseStatus \cup {None}, version : Nat]]]
  /\ touches \in 0..MaxTouches
  /\ disruptions \in 0..MaxDisruptions

Init ==
  /\ ExecutorInit /\ RequestsInit /\ ResolutionInit
  /\ call = [c \in Call |-> NoCall]
  /\ event = [e \in Event |-> Absent]
  /\ handler = [h \in Handler |-> Idle]
  /\ touches = 0
  /\ disruptions = 0

\* An event enters the inbox, or a job the schedule; a known key adds nothing.
Stored(e, version) ==
  [event EXCEPT ![e] = IF @.status # "absent" THEN @
                       ELSE [@ EXCEPT !.status = "pending", !.version = version]]

-----------------------------------------------------------------------------
(* Residents and the agent *)

Write ==
  /\ Prepare \/ Revise \/ \E a \in Actor : Show(a) \/ Approve(a)
  /\ UNCHANGED <<operation, checkVars, call, workVars, boundVars>>

Attach ==
  /\ touches < MaxTouches
  /\ touches' = touches + 1
  /\ Touch
  /\ UNCHANGED <<operation, checkVars, call, workVars, disruptions>>

\* submit, of whose steps the last may never come: a caller may crash, and to
\* try again is another call.  The approver is compared in one session,
CheckCall(c) ==
  /\ call[c].step = "idle"
  /\ request.status \in Submittable
  /\ MaySubmit(ActorOf[c])
  /\ seen[ActorOf[c]] > 0
  /\ call' = [call EXCEPT ![c] = [step |-> "checked", revision |-> seen[ActorOf[c]]]]
  /\ UNCHANGED <<operation, requestVars, checkVars, workVars, boundVars>>

\* the submission is reserved in another; a submitted request answers at once,
ReserveCall(c) ==
  /\ call[c].step = "checked"
  /\ IF CanReserve(call[c].revision, KeyOf[c])
     THEN /\ Reserve(KeyOf[c])
          /\ call' = IF request'.status = "submitting"
                     THEN [call EXCEPT ![c].step = "reserved"]
                     ELSE [call EXCEPT ![c] = Over]
     ELSE UNCHANGED request /\ call' = [call EXCEPT ![c] = Over]
  /\ UNCHANGED <<operation, case, recorded, seen, checkVars, workVars, boundVars>>

\* the executor takes the draft, and must answer that it is just submitted,
SendCall(c) ==
  /\ call[c].step = "reserved"
  /\ IF Accepts(KeyOf[c], call[c].revision, request)
     THEN /\ SubmitOnce(KeyOf[c], call[c].revision)
          /\ call' = IF StatusOf(operation') = "submitted"
                     THEN [call EXCEPT ![c].step = "sent"]
                     ELSE [call EXCEPT ![c] = Over]
     ELSE UNCHANGED operation /\ call' = [call EXCEPT ![c] = Over]
  /\ UNCHANGED <<requestVars, checkVars, workVars, boundVars>>

\* and the request and its case learn of it.
MarkCall(c) ==
  /\ call[c].step = "sent"
  /\ IF CanMark(KeyOf[c]) THEN MarkSubmitted ELSE UNCHANGED <<case, request>>
  /\ call' = [call EXCEPT ![c] = Over]
  /\ UNCHANGED <<operation, recorded, seen, checkVars, workVars, boundVars>>

-----------------------------------------------------------------------------
(* The operator, the document worker and the poll *)

OperatorRegisters ==
  /\ RegisterAtomic
  /\ event' = Stored(Registration, 1)
  /\ UNCHANGED <<requestVars, checkVars, call, handler, boundVars>>

OperatorReports(e, status) ==
  /\ ChangeStatusAtomic(e, status)
  /\ event' = Stored(e, VersionOf(operation'))
  /\ UNCHANGED <<requestVars, checkVars, call, handler, boundVars>>

\* The domain event of a registration has the appeal written and rendered; the
\* document worker stores the event of the document when it is ready.
DocumentIsReady ==
  /\ request.status = "registered"
  /\ event["document"].status = "absent"
  /\ event' = Stored("document", 0)
  /\ UNCHANGED <<operation, requestVars, checkVars, call, handler, boundVars>>

\* The poll ends; the transaction that ends it stores the event.
PollEnds(outcome) ==
  /\ ClosePoll(outcome)
  /\ event' = Stored("decided", 0)
  /\ UNCHANGED <<operation, requestVars, check, call, handler, boundVars>>

-----------------------------------------------------------------------------
(* Workers *)

FirstStep(e) ==
  CASE e = Registration     -> "register"
    [] e \in StatusEvent    -> "read"
    [] e = "document"       -> "bind"
    [] e = "deadline"       -> "check"
    [] OTHER                -> "decide"

Take(h, e) ==
  /\ handler[h].event = None
  /\ event' = [event EXCEPT ![e].status = "processing", ![e].owner = h,
                  ![e].attempts = IF @ < MaxAttempts THEN @ + 1 ELSE @]
  /\ handler' = [handler EXCEPT ![h] = [Idle EXCEPT !.event = e, !.step = FirstStep(e)]]
  /\ UNCHANGED <<operation, requestVars, checkVars, call, touches>>

Claim(h, e) ==
  /\ event[e].status = "pending"
  /\ Take(h, e)
  /\ UNCHANGED disruptions

\* The lease of a worker runs out while it is still at the event.
TakeOver(h, e) ==
  /\ event[e].status = "processing"
  /\ disruptions < MaxDisruptions
  /\ disruptions' = disruptions + 1
  /\ Take(h, e)

\* Mutant: an event left behind by its worker is not claimed again.
LeftForGood(e) == event

\* An event left behind is claimed, when its lease has run out, as a pending one.
Left(e) == [event EXCEPT ![e].status = "pending", ![e].owner = None]

Crash(h) ==
  LET e == handler[h].event IN
  /\ e # None
  /\ disruptions < MaxDisruptions
  /\ disruptions' = disruptions + 1
  /\ handler' = [handler EXCEPT ![h] = Idle]
  /\ event' = IF event[e].owner = h THEN Left(e) ELSE event
  /\ UNCHANGED <<operation, requestVars, checkVars, call, touches>>

At(h, step) == handler[h].event # None /\ handler[h].step = step
Goto(h, step) == handler' = [handler EXCEPT ![h].step = step]

\* What the worker reports of its event, if the event is still its own: that it
\* is done, or that a handler raised, so that it is tried again or given up.
Finished(h) ==
  [event EXCEPT ![handler[h].event] = IF @.owner = h THEN Settled(@) ELSE @]

Failed(h) ==
  [event EXCEPT ![handler[h].event] =
     IF @.owner # h THEN @
     ELSE IF @.attempts >= MaxAttempts THEN Settled(@)
     ELSE [@ EXCEPT !.status = "pending", !.owner = None]]

Leave(h, outcome) ==
  /\ event' = outcome
  /\ handler' = [handler EXCEPT ![h] = Idle]

\* handle_registration, of the event of the executor: the request is registered,
\* and its rule brings the deadline job, which remembers the version of the case.
HandleRegistration(h) ==
  /\ At(h, "register")
  /\ IF CanRegister
     THEN /\ Register
          /\ event' = IF Timed /\ request.status # "registered"
                      THEN Stored("deadline", case'.version) ELSE event
          /\ Goto(h, "finish")
     ELSE UNCHANGED <<case, request>> /\ Leave(h, Failed(h))
  /\ UNCHANGED <<operation, recorded, seen, checkVars, call, boundVars>>

\* RequestEventHandler reads the status at the executor,
ReadStatus(h) ==
  /\ At(h, "read")
  /\ handler' = [handler EXCEPT ![h].step = "record",
       ![h].answer = [status |-> StatusOf(operation), version |-> VersionOf(operation)]]
  /\ UNCHANGED <<operation, requestVars, checkVars, call, event, boundVars>>

\* and records it in a transaction of its own;
RecordStatus(h) ==
  LET e == handler[h].event IN
  /\ At(h, "record")
  /\ IF CanRecord(e, event[e].version, handler[h].answer)
     THEN /\ Record(e, handler[h].answer)
          /\ UNCHANGED event
          /\ handler' = [handler EXCEPT ![h] = [Idle EXCEPT !.event = e, !.step = "look"]]
     ELSE UNCHANGED <<case, request, recorded>> /\ Leave(h, Failed(h))
  /\ UNCHANGED <<operation, seen, checkVars, call, boundVars>>

\* then handle_status looks whether this event brought done and has no check,
LookForCheck(h) ==
  LET e == handler[h].event IN
  /\ At(h, "look")
  /\ Goto(h, IF IsDone(e, event[e].version) /\ ~Started(e) THEN "view" ELSE "agent")
  /\ UNCHANGED <<operation, requestVars, checkVars, call, event, boundVars>>

\* start_check reads the case,
ViewCase(h) ==
  /\ At(h, "view")
  /\ handler' = [handler EXCEPT ![h].step = "start", ![h].view = case]
  /\ UNCHANGED <<operation, requestVars, checkVars, call, event, boundVars>>

\* and start_once opens the check of the case that was read.
StartCheck(h) ==
  LET e == handler[h].event IN
  /\ At(h, "start")
  /\ IF CanStart(e, handler[h].view)
     THEN /\ Start(e, handler[h].view)
          /\ UNCHANGED event
          /\ handler' = [handler EXCEPT ![h] = [Idle EXCEPT !.event = e, !.step = "agent"]]
     ELSE UNCHANGED <<case, checkVars>> /\ Leave(h, Failed(h))
  /\ UNCHANGED <<operation, request, recorded, seen, call, boundVars>>

BindDocument(h) ==
  /\ At(h, "bind")
  /\ IF CanBind THEN Bind /\ Goto(h, "agent") /\ UNCHANGED event
     ELSE UNCHANGED <<case, request>> /\ Leave(h, Failed(h))
  /\ UNCHANGED <<operation, recorded, seen, checkVars, call, boundVars>>

\* The scheduler compares the version of the job before it dispatches it,
CheckDeadline(h) ==
  /\ At(h, "check")
  /\ IF DeadlineIsCurrent(event["deadline"].version)
     THEN Goto(h, "draft") /\ UNCHANGED event
     ELSE Leave(h, [event EXCEPT !["deadline"] =
                      IF @.owner = h THEN Settled(@) ELSE @])
  /\ UNCHANGED <<operation, requestVars, checkVars, call, boundVars>>

\* and the handlers, each of which calls RequestDeadlineHandler, compare again.
DraftFollowup(h) ==
  /\ At(h, "draft")
  /\ Followup(event["deadline"].version)
  /\ Goto(h, "agent")
  /\ UNCHANGED <<operation, recorded, seen, checkVars, call, event, boundVars>>

\* handle_poll_expired of the domain event: decides, and takes a pending job off
\* the schedule.  (The event of a rejected result has the agent read the case.)
DecideCheck(h) ==
  /\ At(h, "decide")
  /\ IF CanDecide
     THEN /\ Decide
          /\ event' = IF check.status = "checking" /\ event["deadline"].status = "pending"
                      THEN [event EXCEPT !["deadline"] = Settled(@)] ELSE event
          /\ Goto(h, "agent")
     ELSE UNCHANGED <<case, check>> /\ Leave(h, Failed(h))
  /\ UNCHANGED <<operation, request, recorded, seen, poll, call, boundVars>>

\* The agent's run reads only; it succeeds or fails.
Agent(h) ==
  /\ At(h, "agent")
  /\ Leave(h, Finished(h)) \/ Leave(h, Failed(h))
  /\ UNCHANGED <<operation, requestVars, checkVars, call, boundVars>>

\* A registration needs no run: the domain event that it stored has one.
Finish(h) ==
  /\ At(h, "finish")
  /\ Leave(h, Finished(h))
  /\ UNCHANGED <<operation, requestVars, checkVars, call, boundVars>>

Work(h) ==
  \/ HandleRegistration(h)
  \/ ReadStatus(h) \/ RecordStatus(h) \/ LookForCheck(h) \/ ViewCase(h) \/ StartCheck(h)
  \/ BindDocument(h) \/ CheckDeadline(h) \/ DraftFollowup(h) \/ DecideCheck(h)
  \/ Agent(h) \/ Finish(h)

Submit(c) == CheckCall(c) \/ ReserveCall(c) \/ SendCall(c) \/ MarkCall(c)

Next ==
  \/ Write \/ Attach
  \/ \E c \in Call : Submit(c)
  \/ OperatorRegisters \/ DocumentIsReady
  \/ \E e \in StatusEvent, s \in ExternalStatus : OperatorReports(e, s)
  \/ \E o \in Verdict : PollEnds(o)
  \/ \E h \in Handler : Work(h) \/ Crash(h)
                        \/ \E e \in Event : Claim(h, e) \/ TakeOver(h, e)

Spec == Init /\ [][Next]_vars

\* The processes run for ever: some worker that is at an event goes on with it,
\* some event that can be claimed is, which of them does not matter, and the poll
\* of a check ends.  Residents and the operator owe nothing.
Fairness ==
  /\ WF_vars(\E h \in Handler : Work(h))
  /\ WF_vars(\E h \in Handler, e \in Event : Claim(h, e))
  /\ WF_vars(\E o \in Verdict : PollEnds(o))

FairSpec == Spec /\ Fairness

-----------------------------------------------------------------------------
(* Properties *)

\* What the executor holds is the draft that stands, exactly as it was approved,
\* and the one who approved it had been shown that very draft.  (revise clears
\* the approval; reserve_submit and submit_once compare it again.)
SubmittedAsApproved ==
  operation # None =>
    /\ operation.revision = request.draft
    /\ operation.revision = request.approved
    /\ request.approver \in Actor
    /\ operation.revision = seen[request.approver]

\* The status kept for the executor is the one it really had at that version,
\* though the version travels in the event and the status is read much later.
\* (get_status, record_external_status)
ExternalIsTrue ==
  request.externalVersion > 0 =>
    /\ operation # None
    /\ request.externalVersion <= VersionOf(operation)
    /\ request.external = operation.history[request.externalVersion].status

\* The rows of one case tell one story, whichever worker wrote last: the status
\* of the case follows from those of its request and of its check.
CaseFollowsRows ==
  CASE check.status = "checking" -> case.status = "checking_resolution"
    [] check.status \in Verdict -> case.status = check.status
    [] check = NoCheck /\ request.status = "registered" ->
         case.status \in {"in_progress", "followup_draft"}
    [] check = NoCheck /\ request.status = "submitted" ->
         case.status = "awaiting_registration"
    [] check = NoCheck /\ request.status \in {"prepared", "approved", "submitting"} ->
         case.status = "awaiting_approval"
    [] OTHER -> case.status \in {"request_ready", "detected"}

\* The executor's done closes nothing: a verdict on a case is the outcome of its
\* poll, and the poll was asked because of the event by which the work is done.
VerdictIsOfResidents ==
  case.status \in Verdict =>
    /\ poll = case.status
    /\ request.external = "done"
    /\ operation.history[request.externalVersion].event = check.doneEvent

\* A request never falls back once it is being submitted, what the executor
\* reported is never unlearned, and a verdict is never changed, by whatever
\* repeated, late or doubly handled event.
NothingIsUndone ==
  [][/\ request.status \in {"submitting", "submitted", "registered"}
           => /\ request'.status # request.status
                   => <<request.status, request'.status>> \in
                        {<<"submitting", "submitted">>, <<"submitted", "registered">>}
              /\ request'.submitKey = request.submitKey
     /\ request'.externalVersion >= request.externalVersion
     /\ case.status \in Verdict => case'.status = case.status]_vars

\* A check whose case nobody touches is decided, through failing runs of the
\* agent, lost leases and a crash.  (handle_poll_expired, finalize_atomic)
UntouchedCheckIsDecided ==
  (check.status = "checking")
    ~> (check.status # "checking" \/ case.version # check.caseVersion + 1)

-----------------------------------------------------------------------------
(* A case in the rows of several tables is a case *)

Ordered == {"submitting", "submitted", "registered"}

OrderOfRow ==
  IF request.status \in Ordered
  THEN [draft |-> request.draft, key |-> request.submitKey] ELSE None

OrderAtExecutor ==
  IF operation = None THEN None
  ELSE [draft |-> operation.revision, key |-> operation.key]

Reports == IF operation = None THEN <<>> ELSE operation.history

VerdictOfCase == IF case.status \in Verdict THEN case.status ELSE None

Life == INSTANCE CaseLife WITH
  Draft   <- 0..MaxDraft,
  Report  <- Change,
  Outcome <- Verdict,
  order   <- OrderOfRow,
  taken   <- OrderAtExecutor,
  reports <- Reports,
  known   <- request.externalVersion,
  answer  <- poll,
  verdict <- VerdictOfCase

\* Whatever calls compete for the submission, whatever handler is late, repeated
\* or overtaken, and however often a photo moves the case on: one draft is
\* ordered under one key and taken as it is, reports are learned forwards, the
\* residents are asked once done is known, and their answer is the verdict.
\* (reserve_submit, submit_once, register, record_external_status, start_once,
\* finalize_atomic)
ImplementsCaseLife == Life!Spec

-----------------------------------------------------------------------------
(* What the documents say and the code does not keep *)

\* After the poll of a check its case is closed, returned or unconfirmed.  A
\* photo, or the appeal that is bound late, moves the case on; then
\* finalize_atomic raises at every attempt.
EveryCheckIsDecided ==
  (check.status = "checking") ~> (check.status # "checking")

=============================================================================
