# Верификация «Дом домыч»: TLA+ models, checks and proofs

This directory is a verification project for the program in `src/` (the Python
package `dom_domych`): TLA+ modules translated from the code, TLC runs on small
instances, theorems checked by TLAPS, and this description of them. Paths below
are relative to `src/src/dom_domych/`, documents to `src/docs/`.

## 1. The system

A bot in the MAX messenger collects problems and initiatives of the residents
of a house, confirms them by polls, prepares requests to the management
company, follows them up, and lets residents confirm the result.

Six processes (`entrypoints/processes.py`: inbox, scheduler, outbox, documents,
polling, maintenance) and a FastAPI webhook (`entrypoints/api.py`) share one
PostgreSQL database and nothing else. Each does its work in short transactions
under row locks; calls to MAX, to the language model and to the file store
happen between transactions. Each work table is a queue with leases: a worker
claims a row, a heartbeat task extends the lease, the outcome is written only if
the lease is still the worker's. All processes loop over `run_once` for ever.

```
 MAX --webhook/polling--> inbox_events --inbox worker--> use cases (polls, cases, ...)
                                ^                            |        |         |
                                +--- domain events ----------+        v         v
                          scheduled_jobs <----------------------------+   outbox_deliveries
                                |                                               |
                                +--scheduler--> use cases       outbox worker --+--> MAX
```

### Inventory

| # | component | state | operations | what is hard | what makes it correct |
|---|---|---|---|---|---|
| 1 | Ingress (`entrypoints/api.py`, `infrastructure/max/polling.py`, `updates.py`) | polling marker, batch | webhook, poll_once, normalize_update | redelivery; a crash between commit and marker; a refused update in a batch | an update is stored once and none is lost |
| 2 | Inbox (`application/jobs/inbox_worker.py`, `infrastructure/postgres/inbox_worker.py`, `inbox.py`, `retention.py`) | `inbox_events`, worker | save, claim, heartbeat, finish, fail, redact | lost leases, late workers, crash between handler and finish, clock lag | settlement is fenced, attempts bounded, events atomic with effects, payload kept while needed |
| 3 | Scheduler (`application/jobs/scheduler.py`, `infrastructure/postgres/jobs.py`) | `scheduled_jobs`, worker | enqueue, claim, check, handle, settle | stale version between check and use, retries, lost leases | one effect per job, never on a stale entity, verdicts final |
| 4 | Outbox (`application/notifications/worker.py`, `infrastructure/postgres/delivery.py`) | `outbox_deliveries`, worker, messages in MAX | enqueue with coalescing, claim, resolve, upload, send, edit, settle | unknown outcome of a call, edits overtaking each other, crash between upload and send | no message sent twice except by disruption, newest edit kept, honest verdicts |
| 5 | Polls (`domain/polls`, `infrastructure/postgres/polls.py`, `application/polls`) | `polls`, `poll_members`, `poll_answers`, history | open, vote, finalise, cancel | vote against deadline, repeated and late callbacks, drain of the inbox | outcome by the rule, announced once, history explains the answers |
| 6 | Problem cases (`application/cases`, `case_writer.py`, `case_candidates.py`, `case_evidence.py`) | `cases`, `case_messages`, `case_operations`, evidence | search, create, attach, confirm, open poll, decide | two reports of one problem at once; consent, event and poll in three transactions | one open case per place, one case per message, no poll without consent |
| 7 | Requests (`application/requests`, `infrastructure/postgres/requests.py`) | `requests`, operations | prepare, revise, approve, submit, mark, register, status, bind document, deadline | executor answers before the submission is recorded; versions moved by others | status never goes back, what is submitted was approved, deadlines act once |
| 8 | Executor (`application/executor`, `demo_executor.py`, `domain/executor`) | `executor_requests` | submit, register, in progress, done | concurrent operator calls, status read later than its event | one registration per request, versions grow by one |
| 9 | Resolution (`application/resolution`, `infrastructure/postgres/resolution.py`) | `resolution_checks` | start, decide | case touched between start and decision; jobs retired in flight | one decision per check, case follows it |
| 10 | Agent (`agent/`, `agent_runs.py`, `message_agent.py`, `application/agent`) | `agent_runs`, tool calls | run, call a tool, complete, reply, commands of residents | a run that is repeated with other answers of the model | each tool call takes effect once |
| 11 | Documents (`application/documents`, `documents.py`, `domain/documents`) | `documents`, leases | prepare, claim with a cap, render, store, record | crash between file and row, expired lease, two workers at one document | delivered or given up, what is recorded can be read |
| 12 | File store and maintenance (`files/local.py`, `application/jobs/maintenance.py`) | content and metadata of a file | put, get, delete, purge, redact | two files that nothing keeps together but the order of steps | half a file stops nobody, leftovers only of crashes |
| 13 | Initiatives (`application/initiatives`, `initiatives.py`, `initiative_followup.py`) | revisions, polls, decisions, reminders, card | open, revise, remind, decide, prepare the position | revision against votes, against the end of the poll and against reminders | votes decide only about the wording they were cast on |
| 14 | Enrollment (`application/residents`, `enrollment.py`, `infrastructure/max/onboarding.py`) | invitations, residents, residencies | issue, redeem, choose a house, start, stop | one user with two codes at once, answers after the commit | a user is one resident, answers are true |
| 15 | Rate limiter, MAX client (`infrastructure/max`) | last call times | acquire, request | one token for several processes | calls are spaced |
| 16 | Read-only and formatting parts (texts, renderer, knowledge, language models, operator tools, migrations) | - | - | - | not modelled, see section 7 |

`PROJECT.json` lists every component with its status and, under `hazards`, what
can go wrong in it at its line with the properties that watch it.

## 2. Modules

| module | models | role |
|---|---|---|
| `WorkQueue` | what every work table promises its producers | abstract specification |
| `CaseLife` | what a case promises its residents: one order, taken once, reports learned forwards, a verdict that is theirs | abstract specification |
| `CaseOpening` | what a case promises before that: a place has one open case, its author decides whether neighbours are asked, their answer decides the rest | abstract specification |
| `Proposal` | what an initiative promises: votes on one wording, withdrawn with it, reminders to the silent, one result | abstract specification |
| `Inbox` | component 2 in detail, with lease times and lagging clocks | implements `WorkQueue` |
| `Scheduler` | component 3, with the versioned entity its jobs act on | implements `WorkQueue` |
| `Outbox` | component 4, with the platform's messages and files | implements `WorkQueue` |
| `PollPolicy` | the pure rules of `domain/polls/policy.py` | used by `Poll` |
| `Poll` | component 5 with its callbacks in the inbox and its deadline in the scheduler | composes polls with both queues, seen through their promise |
| `Executor` | component 8: the operation of a request | part of `Fulfilment` |
| `Requests` | component 7: the request of one case and the transactions of its store | part of `Fulfilment` |
| `Resolution` | component 9: the check of a result and its decision | part of `Fulfilment` |
| `Fulfilment` | one case from its draft to the verdict: callers, operator and workers | composes the three, implements `CaseLife` |
| `EventWork` | what every handler sees of component 2: claims, lost leases, crashes, retries | part of the next modules |
| `Cases` | component 6: the rows of cases and the transactions on them | part of `Intake` |
| `Intake` | components 6 and 10: from a report to the result of its poll | composes `Cases` and `EventWork`, implements `CaseOpening` |
| `Initiatives` | component 13 with the card of the initiative | composes with `EventWork`, implements `Proposal` |
| `Ingress` | component 1, filling the inbox of `EventWork` | part of `Enrollment` |
| `Enrollment` | component 14, fed by `Ingress` | composes the two |
| `FileStore` | component 12: the files of a house | part of `Documents` |
| `Documents` | component 11, photos of cases, maintenance | composes with `FileStore`, implements `WorkQueue` |
| `MC*` | the instances that TLC checks | - |
| `InboxProofs`, `SchedulerProofs`, `PollProofs`, `OutboxProofs`, `FulfilmentProofs`, `IntakeProofs`, `DocumentsProofs`, `HandlerProofs` (`Initiatives` and, in its second half, `Enrollment`) | theorems and proofs about these modules | - |

`map` in `PROJECT.json` gives the lines that each definition translates.

**Actions are transactions.** An action is one transaction, or one step of a
worker between two. The code locks the rows that a transaction reads and
writes (`FOR UPDATE`, `SKIP LOCKED`, or the `WHERE` of an `UPDATE`), so a
transaction can be one step. `SKIP LOCKED` lets a claim pass over a row that
another transaction has locked; after that transaction the row is no longer
eligible, which is the same choice.

**Inbox.** `status`, `attempts`, `owner`, `left`, `wait`, `received` are columns
of `inbox_events`; times are kept as distances from the present, so that the
state space is finite without a bound on time. A worker reads `clock.now()`
before its statement runs, so each transaction sees a present that is up to
`Lag` ticks old (`d` in the actions). `job` is the worker's program counter,
`Apply` the commit of a handler, `Raise` any exception, `Crash` the death of a
process or a lost settling transaction. `Tick` is time; a heartbeat that comes
too late is a `Tick` over a `Stalled` event and counts as a disruption. The
handler is not guarded by the lease, as in the code: a worker that lost it may
still commit. The ghost variable `applied` records committed handlers,
`disruptions` counts the crashes and stalls.

**Scheduler.** As the inbox, with leases that are only running or run out (the
timing is covered by `Inbox`). `Check` is `RevisionRouter.current_version`,
`Handle` the consumer. The consumer and the reader are those of
`application/requests/deadline.py`; that every consumer looks again under its
lock is the contract of `application/jobs/scheduler.py:24` and
`docs/engineering/11-shared-contracts.md`. `Decide` is the transaction in
`infrastructure/postgres/resolution.py` that retires pending jobs.

**Outbox.** A delivery is a message, a message with a file, or an edit of an
earlier message (`Target`); its `content` is its place in the order of the edits and
the `file` it carries, if any. `Enqueue` contains the coalescing of pending edits;
`Withdraw` is `cancel_atomic` of a poll. `Read`, `Upload`, `SaveToken`, `Call`,
`Settle` are the steps of `_deliver`. `posts`, `uploads`, `hidden` and `carried` are
the state of the platform: copies of a message, copies of a file, those of them that
an upload has left which failed all the same, and the deliveries whose request MAX has
carried out. An upload that fails is repeated, though it may have left its file with
MAX. A transport error of a call that sends or edits leaves open whether it was
carried out, and it is not repeated; an answer 4xx, 429 or 5xx is taken to mean that it was not, as
the code does. An answer 200 that cannot be read becomes `delivery_unknown`.
To a producer a delivery that is `sent` is done, and one that is superseded,
withdrawn or undeliverable, or whose fate is unknown, is dropped (`PhaseOf`).

**Poll.** `Stamp` reads the clock of ingress, `Store` commits the callback,
`Unstamp` is a failed commit that the platform will repeat. `Vote` is the
transaction of `PostgresPollCallbackProcessor.process`, `Expire`/`Refuse` that of
`handle_poll_expired`, `Cancel` that of `cancel_atomic`. The two queues are seen
through what `Inbox` and `Scheduler` were shown to implement: an item is
claimed, its handler commits or raises, an abandoned claim may leave a handler
behind that commits `late`. A ratio is a pair of naturals; the policies of the
program are short decimals, for which `Decimal` is exact.
`opens_at` is left out: a button exists only after the poll was opened. `audience`
is chosen when the poll is opened, from the sets that `Audiences` allows, and frozen;
it may have no members, as the check of a result for an emergency may
(`application/resolution/service.py:85`), while those who open the other kinds refuse
such a poll. Residents who are not members press in vain (`Outsider`).

**Fulfilment.** `Executor`, `Requests` and `Resolution` hold the rows and, for
each transaction, what it checks under its locks (`CanRegister`) and what it then
writes (`Register`); `Fulfilment` says who runs them and when. `Write` is a tool
call of a resident's run, `CheckCall`, `ReserveCall`, `SendCall`, `MarkCall` are
the four sessions of `RequestService.submit`; no fairness is assumed of them, so
a caller that dies is one whose next step never comes, and a retry is another
call. `event` holds the inbox rows of the request and its deadline job: the
executor's events, the finished appeal, the end of the poll. A `handler` is a
worker of the inbox or of the scheduler in the middle of one of them; its steps
are the sessions of the registered handlers, in the order of
`register_agent_events`: `ReadStatus` and `RecordStatus` (the status is read in
one, used in the other), `LookForCheck`, `ViewCase` and `StartCheck`,
`BindDocument`, `CheckDeadline` and `DraftFollowup`, `DecideCheck`, and at the end
the agent's run, which succeeds or raises. `TakeOver` is a claim of an event
whose worker lost the lease and goes on. The operation of the executor is its
sequence of changes, of which the row keeps the last status and the events; its
length is the version. `poll` is only the outcome; how it comes about is module
`Poll`. `seen` (the draft an actor was shown last) stands for the draft version
that a tool call names. `Touch` stands for photos, their assessments and further
messages, all of which do no more to the case than move its version.

**CaseLife.** The same without rows, sessions, versions and retries. Its `order` is
the draft and key of a request from `submitting` on (`OrderOfRow`), `taken` what the
executor's row holds, `reports` the history of its operation, `known` the
`external_version` of the request, `answer` the poll, `verdict` the status of a case
that is closed, reopened or unconfirmed. The instance `Life` in `Fulfilment` is
this mapping, and `ImplementsCaseLife` says that whatever is repeated, overtaken
or late is no step of that machine.

**EventWork.** The handlers of the remaining modules are chains of transactions,
each of which may find another worker's writes. `Claim` and `TakeOver` start a
handler, `Transaction` is a step that raises unless its condition holds, `Finish`
and `Raise` report, which counts only if the event is still the worker's own;
`Crash` and `TakeOver` are the disruptions. Attempts beyond the maximum are not
told apart, and a settled row forgets who settled it. `about` is what an event
carries, `view` what a handler remembers between two of its transactions.

**Cases and Intake.** A place stands for kind, entrance, floor and object, which
`create_case` compares under its lock. The search goes by less: it filters by what a
report names (`Matching`) and never by the kind, and it goes by words too unless the
report names entrance and object (`Located`). So `Search` takes any case that matches
as the first, since the rank is a matter of texts, and may find none of them if words
decide. `Write` is `create_case` or `attach_message`, which compares no place, with the
id of the message as that of the operation, so that a repeated handler is recognised
if it does the same and raises if it does not.
A report left to the agent is a run that calls tools with arguments of the
model's own choice: any case at its version, or at the one this call has used
before; the case that a call creates is of a place of its own. `ApplyPress` is a button of `_apply` or the command `_confirm`.
`HandleDetected` opens the poll, `PollEnds` is the whole of module `Poll`,
`HandleDecided` is what becomes of it. `Resolve` and `Age` stand for `Fulfilment`
and thirty days, so that the search can meet closed cases.

**CaseOpening.** The same without searches, versions, remembered operations, runs
and events. Its `stage` is the status of the case, `joined` the links of a report,
`answer` the poll, and `said` what the stored presses say (`Sayings`): a button names
its case, a command only its author. The instance is `Book`. A press is believed if
it is the author's, so a case that others have joined and pressed for stays where it
is. A report that describes one clear problem joins a case only if it names nothing
that differs from it, be it of another place; a run of the agent may take any open case
for the same.

**Initiatives.** One initiative; a poll is named after the event that opens it.
`ReadInitiative` and `ReplacePoll` are `/revise`: the audience is resolved between
them, and `MayReplace` compares everything again. `PlanReminders` and
`EnqueueReminders` are the two halves of a reminder job, `ReadState`, `SaveDecision`
and `PreparePosition` the handler of the end of a poll. `HandleRevised` is the one
transaction that shows a revision; its worker is left out. `Touch` is any other
write to the case. `announced` holds the revisions whose event is on its way.

**Proposal.** One wording on the table (`initiative.poll`), the vote on each wording
(`VoteOf`: open, cancelled, or its outcome), who has answered in the open one,
reminders, and what was written down as a document. The instance is `Assembly`. A
step of `Proposal` always speaks of the wording on the table, so that
`ImplementsProposal` says of every late or repeated handler that it does too.

**Ingress and Enrollment.** `feed` is what MAX has to say, `confirmed` what it
takes as received. `Fetch`, `Save` and `Advance` are `poll_once`; `Restart` forgets
the marker; `SaveFails` is a database that does not answer; an update of kind `odd`
raises in `normalize_update`. `Deliver` is the webhook, which MAX repeats at will.
`Enrollment` hands each kept update to a worker. The rows of a code are locked
from `ReadCode` to `Link`, the user is not: the unique index of
`residents.max_user_id` (`Taken`) decides between two codes of one user.
`SendAnswer` follows the commit and may fail, and the whole event is then repeated.
An invitation expires (`over`) and a residency ends (`left`) separately: a residency
that was confirmed stays a home when its code expires.

**FileStore and Documents.** A file is content and metadata, two files on disk
that are written and deleted one after the other. An attempt of a document or of
`/evidence` stores its file and then records it; attempts of one document may
overlap when a lease runs out. `Render`, `Download`, `Store`, `Finish`, `AddPhoto`
and `DeletePhoto` are the steps of `DocumentWorker.run_once` and of `_evidence`;
`StartPurge`, `Look`, `DeleteRest` and `Redact` those of `RetentionMaintenance.run_once`.
`overdue` says that payloads wait for redaction, `expired` that thirty days passed.

To whoever ordered a document its work has taken effect when a file of it has been
stored whole (`Filed`), for the reading of which it may be too late: that is how
`Documents` is a `WorkQueue` too.

**Types.** `TypeOK` of each module describes its variables, that of `Enrollment` is
`EnrollmentTypeOK`. Each is a theorem; no run lists one, since the properties fail sooner.

## 3. Runs

Passing runs (`tlc -config <cfg> <module>`):

| run | instance | states | shows |
|---|---|---|---|
| `inbox` | 2 workers, update + domain event, `MaxAttempts` 2, `Lease` 2, `Lag` 1, 1 disruption | 92,539 | fencing, exclusiveness, retention, every event settled, refinement of `WorkQueue` |
| `scheduler` | 2 jobs on 1 entity, 2 workers, 2 attempts, 1 disruption, 2 foreign versions | 239,594 | one effect, every job settled, refinement of `WorkQueue` |
| `poll` | 3 residents, all kinds, 2 attempts; for two of them 2 callbacks of one, failures and 1 disruption, for all or nobody a callback of each (yes, yes, no) | 906,651 | announcement, history, drain, every outcome of every kind as the fractions say, and a poll past its deadline closes or its job is dead |
| `outbox` | a message with a file or without, 2 edits of it, 2 workers, 2 attempts, 1 disruption unless an upload was hidden | 757,914 | coalescing, copies only by disruption or a hidden upload, honest verdicts, every delivery gets one, refinement of `WorkQueue` |
| `fulfilment_safety` | 2 residents, 2 drafts, 3 calls under 2 keys, 2 status events, 2 workers, 1 attempt, 1 photo | 825,350 | the executor holds what was approved, its status is kept truly, refinement of `CaseLife` |
| `fulfilment_liveness` | 1 call, 1 status event, deadline, document, 2 workers, 2 attempts, 1 disruption | 659,602 | case, request and check agree, only the residents close, an undisturbed check is decided |
| `cases` | 2 reports, one by the agent, 2 places that the other does not tell apart, 1 press, 2 tool calls, 2 workers, 2 attempts, 1 disruption unless both calls are made | 628,024 | one open case, refinement of `CaseOpening` (with consent, and one case per message), a wanted poll takes place and counts |
| `initiatives` | 1 revision, 1 resident, 1 reminder job, 1 foreign write, 2 workers, 2 attempts, 1 disruption | 426,653 | decisions on the current wording, reminders, refinement of `Proposal` (with one current open poll), decided with a document, card |
| `documents` | 1 document, 1 photo, 2 attempts each, 1 disruption | 149,308 | recorded files are readable, leftovers, redaction, every document settled, refinement of `WorkQueue` |
| `enrollment` | 2 users, 2 codes, 2 updates out of 7, both modes, 1 code or residency that ends, 2 workers, 2 attempts, 1 disruption | 1,601,310 | one resident per user, true answers, every update enters |

Runs that end in a violation, each with one property that a document of the
repository states (quoted in `findings`):

| run | what TLC shows |
|---|---|
| `check_stuck` | the appeal is bound while the residents are asked; the case is then two versions after the start of the check, and the decision raises at each attempt until its event is dead |
| `report_lost` | a problem is reported again less than thirty days after its case was closed; the search finds the closed case, attaching to it raises at each attempt, and the report is neither recorded nor answered |

### Bounds, and why they are enough

* Two workers are needed to take over a lease, and a third adds nothing to a
  row that has one owner. Two events are the least for a domain event and its
  cause; updates of no known event type (`Unknown`) are covered by the proofs.
* `MaxAttempts` is 5 in the code. Two attempts give a first and a last attempt,
  with a disruption a repeated one. `fulfilment_safety` needs one, since an event
  there can wait as long as it likes and the properties do not depend on what a
  retry would do after a failure that changed nothing; `fulfilment_liveness`
  has the retries.
* `MaxDraft` 2 is one revision, enough for an approval or a submission that is
  out of date; two keys and three calls are a retry of one run and a rival run.
  `MaxTouches` bounds photos and messages; `Timed` says whether the rule of the
  request has a deadline. Two status events make the second status readable
  from the first event.
* `MaxDisruptions` bounds crashes, stalls and lost leases. The theorems hold for
  every bound.
* `Lease`, `RetryAfter` and `Lag` keep the order of the code: a lease of 30 s, a
  retry after 5 s, a lag well below both.
* `poll` has two rounds (`MCNext`), told apart by the audience. In the one a resident of
  two presses both buttons: a vote, its change, and a silence, with a threshold that one
  vote reaches, and all that fails. In the other three residents vote yes, yes and no for
  an audience of all of them or none, and any of the votes may be missing at the
  deadline: a threshold is reached by the last vote or missed, two votes tie, two of
  three are exactly the support and the confirmation asked for, one of three is exactly
  the limit for reopening, and the shares are of nobody. Faults do not touch the tally;
  there only the check of the deadline job fails.
* In `outbox` a disruption and an upload that hides its success exclude each other
  (`OnlyOne` in `MCOutbox`): each alone adds one copy, and their sum is a theorem.
* `MaxVersion` bounds the moves of other use cases: the first version is 1, so 3
  allows two of them.
* Two reports, with a run of the agent beside a plain one, are a race for a case, a
  second report of it, and a new case after the first was closed. The run may open its
  case at the place of the other report, or, by its second call, at one that this
  report does not tell from its own. One call of a tool creates, attaches or fails.
  One press is enough for a consent, and a second repeats the first on a case that no
  longer waits. `MaxCalls` bounds the calls of a run (6 in
  the code). The second call and a disruption exclude each other (`OnlyOne` in `MCIntake`);
  everything that a worker must do is still possible after either.
* One revision gives an old and a new wording; a resident who is silent or
  answers while one reminder is planned, the reminder. `MaxTouched` is the write
  that the liveness property excepts, `0` or more.
* Two updates are two codes of one user, one code of two users, a code and a
  refused update, or a start and a stop; `MaxUpdates` bounds the feed. `MaxLapses` bounds
  the invitations that expire and the residencies that end: one makes either of the
  two codes invalid before, between or after its attempts.
* One document and one photo share only the store and the maintenance; two
  attempts each overlap and overtake one another.

Three runs narrow `Next`: `MCNext` of `poll`, `outbox` and `cases` takes away presses,
failures and disruptions that nobody owes, and never a step that fairness asks for, so that the
behaviours checked are behaviours of `FairSpec`.

Symmetry is declared on workers, status events and equal calls in
`fulfilment_safety`, never in a run with a liveness property.
`CHECK_DEADLOCK FALSE` stands only where the instance can be used up: polls
that are closed with every item settled, jobs that are settled with no version
left to move, and deliveries, cases, initiatives, documents and feeds that have come to an end.

### Fairness

`_run_once_loop` calls `run_once` for ever and backs off by at most 30 s after
an error: weak fairness of claims and of every later step of a worker. In
`Scheduler` the claim of each job has strong fairness, because the query takes the
earliest available row: a job that is available again and again is reached, since
those before it settle. `Inbox` models that order in `Claim` itself and needs only
weak fairness; so does `Outbox`, which asks only that some delivery is claimed while
there is one, since the attempts of all come to an end. Handlers and calls return or raise:
HTTP clients have timeouts. Time passes. Nothing is assumed of users, MAX,
`Raise`, `Cancel` or crashes, except that a run has finitely many disruptions. `Fulfilment` assumes weak
fairness of the workers' steps, of the claim of each event (those before it are
settled or put off, since their attempts are limited) and of the end of a poll,
which `DeadlineSettles` is about; nothing of residents, callers or the operator.
`Intake`, `Initiatives` and `Documents` ask less: that the workers go on with
something and claim something, for attempts, residents and disruptions come to an
end, and so what is left is reached. `Ingress` assumes that the poller goes on and
that MAX delivers until the webhook has confirmed.

## 4. Properties

The modules state each property with a comment. In short:

* `Inbox`: `ExclusiveUnlessDisrupted`, `ClaimableHasPayload`, `SettledByItsClaim`,
  `EveryEventSettles`, `ImplementsWorkQueue`.
* `Scheduler`: `EffectOnce`, `EveryJobSettles`, `ImplementsWorkQueue`.
* `Outbox`: `CopiesArePaidFor`, `VerdictIsHonest`, `EditsAreCoalesced`,
  `EveryDeliverySettles`, `ImplementsWorkQueue`.
* `Poll`: `OutcomeFollowsAnswers` (against an independent statement in exact
  fractions), `AnnouncedOnce`, `HistoryExplainsAnswers`, `ExpiryCountsStored`,
  `DeadlineSettles`.
* `Fulfilment`: `SubmittedAsApproved` (across revise, approve, submit and the
  executor), `ExternalIsTrue` (the status read later than its event),
  `CaseFollowsRows` (four rows tell one story), `VerdictIsOfResidents` («done» is
  not «closed»), `ImplementsCaseLife`, `UntouchedCheckIsDecided`.
* `Intake`: `OneOpenCase`, `ImplementsCaseOpening` (repeated handlers; others are shown
  the same buttons), `UntouchedCaseIsDecided`.
* `Initiatives`: `DecidedByCurrentWording`, `OnlySilentAreReminded`,
  `ImplementsProposal` (late handlers), `UntouchedIsDecided`, `CardShowsCurrentWording`.
* `Documents`: `RecordedFilesAreReadable`, `LeftoversAreOfCrashes`,
  `PayloadsAreRedacted`, `EveryDocumentSettles`, `ImplementsWorkQueue`.
* `Enrollment`: `OneResidentPerUser`, `AnswersAreTrue`; `Ingress`: `EveryUpdateEnters`.

Definitions commented `Mutant:` stand before the definition they vary: each is a
plausible bug of that code, and `mutants` pairs it with the property that
notices it.

### Observations

What the models show of the code, apart from the two findings. No sentence of the
documents forbids these, or the property that would show them is not run.

* A callback that is stamped before `closes_at` and committed after the drain
  check of `finalize_atomic` is refused as closed (`polls.py:333`).
* A press of the button that holds already leaves no trace; if its event runs
  again after the other button was pressed, it votes (`domain/polls/models.py:167`).
* An edit that has to be retried is carried out after a newer one
  (`delivery.py:90` supersedes only what is pending), and the message ends stale.
* One update that is refused holds up its batch, and every later one
  (`polling.py:27`).
* A photo or a message added to an initiative that is collecting blocks its
  decision and its revision for ever (`initiative_followup.py:243`); one answer
  between the plan of a reminder job and its transaction, and the job reminds
  nobody.
* A wording whose poll has ended can still be replaced while the decision is on
  its way; the decision then raises until its event is dead.
* A crash between content and metadata of a file, or between their deletions,
  leaves content that no purge finds. A file that cannot be read ends the
  maintenance of that hour before anything is redacted.
* An error while a photo is recorded, whose commit has nevertheless happened,
  would delete the recorded file; the model takes a commit that fails as one
  that has not happened.
* A code that was redeemed, and whose event is repeated after the code has
  expired, is answered with a refusal. `bot_started` that is retried after
  `bot_stopped` makes the resident reachable again.
* A run of the agent that is completed sends no reply when its event is
  repeated. A message that the agent has linked to two cases gets no reply at all.
* `/confirm` that is repeated confirms another case of its author, if one waits.
* A report that names entrance and object but no floor is attached to the open case of
  some floor, without a question (`case_candidates.py:68`), where the lock of
  `create_case` would hold the two for different places and
  `04-agent-and-tools.md:135` says that a missing floor does not mean any floor.
* The search of cases never filters by kind, and filters by entrance only if the report
  names one: a report with no entrance joins a case of any entrance whose words match,
  and a report of a problem an open emergency or initiative that matches.
* Two reports of one place whose words do not match, without an entrance, do not find
  each other; the second is refused by the lock at each attempt and given up.
* Each process that calls MAX has a limiter of its own (`entrypoints/processes.py:203`,
  `:311`, `:369`) for the one token, whose 30 calls a second are those of all.

## 5. Proofs

All theorems are about every value of the constants that satisfies the named
assumptions: `InboxAssumption`, `PolicyAssumption`, `PollAssumption` (audiences are finite sets of
residents, the empty one among them),
`SchedulerAssumption`, `WorkAssumption` (workers are not `Nobody`, limits are
numbers), `CaseAssumption` (a report does not differ
from its own place), `IntakeAssumption` (reports, presses and domain events
are different events), `InvitationAssumption` (a code names one resident, an
update with a code its user and invitation), `IngressAssumption` (the bound of the feed
is a number), `OutboxAssumption` (finitely many
deliveries, an edit is of a message and not of an edit), `FulfilmentAssumption`
(each call has its key and actor, the kinds of events differ),
`InitiativeAssumption` (the end of a poll is another event than its opening, a job
is one of the two that `followup.py` plans) and `DocumentAssumption` (a document is
not a command). TLC evaluates each of them on the instance of a run. The pattern is the same for each component: `Init => IInv`,
`IInv /\ [Next]_vars => IInv'` with a step per action, then the invariants as
conjuncts or consequences of `IInv`, and the action properties from `IInv` and
the step.

* **Inbox.** `AttemptsBounded` is not inductive: it needs to know that a row
  that waits has attempts left and that a row in processing either has some or
  is held by a live worker (`AttemptLedger`, `Live`), that jobs stem from claims
  (`JobsAreClaims`), and that without disruption every worker holds its row
  (`HeldUnlessDisrupted`). The refinement `InboxImplementsWorkQueue` uses the
  same invariant: `finish` maps to `Complete` only because a handled event is
  applied, `fail` to `GiveUp` only because of the attempts of the row.
* **Poll.** The properties are inductive together with `WorkIsStored`,
  `CommittedIsCounted` and `OutcomeWithClosing`. The rules are compared with
  exact fractions through lemmas about the ceiling, an audience without members in
  a case of its own; the tally changes by one with a vote through the theorems on cardinalities. `ExpiryIsDrained`
  needs `CommittedIsCounted`: a committed callback in time has left an answer
  while the poll is open.
* **Scheduler.** `EffectOnce` holds because an effect moves the version past
  `expected` (`JobsKnowTheirEntity`) and the consumer looks again under its
  lock; the workers' private state is tied to it by `RunsAreClaims`.
* **Outbox.** `CopiesArePaidFor` is an account (`Account`): what a delivery has
  sent, the workers that have it and may yet send or hand it back to be sent, and
  the claim it is open to are together at most one and the disruptions. A claim
  moves the last into the second, a call the second into the first, and a retry
  the second into the last; only a lost lease or a crash opens the row beside a
  worker that may send. A file has an account of its own, closed once its token is
  saved, to which an upload that failed and left a copy adds nothing but that copy
  (`hidden`). `VerdictIsHonest` needs that undisturbed workers hold their row (`Held`) and that a
  delivery that took effect is settled so or about to be (`Reported`);
  `EditsAreCoalesced` that edits are ranked as they were stored (`Ranked`) and
  that no untried one is older than another of its message (`InOrder`).
  The refinement of `WorkQueue` needs two facts about each worker (`Witnessed`): it
  will settle a delivery as sent only if MAX has carried it out, and its attempt is
  not beyond those of the row, so that the verdict `dead` is a
  `GiveUp`. Enqueueing an edit is one step that stores it and drops the older.
* **Fulfilment.** From the approval on nothing but the status of the request
  moves (`Approval`), so the draft the executor takes is the one that was approved
  (`Taken`), although `reserve_submit` and the call are in different sessions. The
  operation only grows, begins with the registration and ends with done
  (`History`); an event in the inbox names one of its changes for ever
  (`Inboxed`), so an answer that a worker has read before still holds when it is
  written (`Duties`), and `ExternalIsTrue` follows with `External`. Done is the last change,
  so the check belongs to the event that brought it (`Checked`), and the case
  follows the rows (`CaseFollowsRows`) though the check is started and the status
  recorded by different workers.
* **The life of a case.** `FulfilmentImplementsCaseLife` takes `IInv` and
  `NothingIsUndone`, and one fact that only the mapping needs: a call that has
  reserved a submission did so under its own key (`Keyed`), so that the order the
  executor takes is the one that was sealed. Then each action is one step of
  `CaseLife` or none: `ReserveCall` seals unless the reservation is a repeated
  one, `SendCall` takes unless the executor has the operation, the operator tells,
  `HandleRegistration` and `RecordStatus` learn or find what is known, `StartCheck` asks, and
  `DecideCheck` decides only after the answer.
* **Initiatives.** An open poll is the current one of an initiative that is
  collecting (`OnlyCurrentPollIsOpen`), a poll that a worker decides by is over and
  stays as it is (`Ended`, `Duties`), and a case that nobody has dealt with has
  had no poll (`Fresh`). A worker that read the initiative before a revision
  therefore finds it changed when it holds the lock. Reminders are counted
  (`Spared`): a resident has had at most as many as jobs were done for that poll.
  For `InitiativesImplementProposal` it is enough to know besides that an initiative in
  its vote has a wording whose poll was opened and not cancelled (`Tabled`): the row that
  `save_decision_once` and `cancel_atomic` lock then is the table, and every action is
  one step of the assembly or none.
* **Documents.** Each attempt has a file of its own, so what is on disk follows
  from its stage while it is at work (`OnDisk`), what expires belongs to attempts
  that are over and is all a purge deletes (`Terms`), and what is recorded belongs to one
  that is done (`RecordedIsDone`), on whose file no step is left. Attempts that a
  document has not come to have not begun (`Counted`), so a claim never returns to
  an old file. That these rows are a `WorkQueue` follows, once it is known that only
  photos are deleted before their term (`PhotosGo`): what was stored whole for a
  document stays or expires, so its work is never undone, and a row is ready only after it.
* **Intake.** `OneOpenCase` is inductive with the shape of the rows alone
  (`Unrivalled`), whatever a handler remembers: only `Create` opens a case, and it
  looks at the place under its lock. `PolledByConsent` and `LinkedOnce` need to know
  which event a worker is at in each step of its handler (`Duties`), that an
  event in work is stored and keeps what it carries (`Inboxed`), and that what a
  message has been linked to is what the operation of that message did
  (`Linking`). `Asked` names the press that a case in its vote goes back to.
  `IntakeImplementsCaseOpening` adds what ties the rows of one case to its chapter
  of the book (`Told`): no poll before the vote, a result only of an ended poll
  (`Chapter`), links only to cases that exist, and a found case that exists and matches
  the report although others have written since the search (`Found`). `OneOpenCase`,
  `PolledByConsent` and `LinkedOnce` are theorems too; the last two, which the
  guards of the book contain, are in no run of their own.
* **Enrollment.** A link is never changed (`Steady`), since between the two halves
  of `redeem_invitation` a worker alone holds the lock of its resident and has
  seen it without another user (`OneLock`, `Knows`); the index makes links
  injective (`Linked`). What was accepted therefore stays so, and what was denied
  for another reason than a lapse stays denied (`Lost`), so a verdict that a
  worker carries to `SendAnswer` is still true when it is sent. The types of both modules
  (`EnrollmentTypeCorrect`) follow from this invariant and the rows of the feed.

Some theorems state invariants that no run lists, since those of the runs say
more about the code: `AttemptsBounded`, `EmittedWithEffects`,
`VersionCountsChanges`, `ClosedIsFrozen`, `VerdictMeansMoved`, `VerdictIsFinal`, and
`NothingIsUndone`, which the refinement of `CaseLife` says again in its own terms; so
are `PolledByConsent` and `LinkedOnce` by that of `CaseOpening`, and
`OnlyCurrentPollIsOpen` by that of `Proposal`. `NoStaleEffect` is the reason why
`EffectOnce` holds, and is stated for every entity and version.

Only model-checked: liveness (the prover has no rules for fairness and
`ENABLED` here): `EveryEventSettles`, `EveryJobSettles`, `DeadlineSettles`,
`EveryDeliverySettles`, `UntouchedCheckIsDecided`, `UntouchedCaseIsDecided`,
`UntouchedIsDecided`, `CardShowsCurrentWording`, `PayloadsAreRedacted`,
`EveryDocumentSettles` and `EveryUpdateEnters`. That an implementation of
`WorkQueue`, `CaseLife`, `CaseOpening` or `Proposal` makes progress is left to the
liveness property of its run: the abstract specifications are safety only. All four
work tables of the system (`Inbox`, `Scheduler`, `Outbox`, `Documents`) implement
`WorkQueue`.

## 6. Assumptions

* Workers of one queue have distinct ids. The Compose profile runs one process
  per queue and passes no `WORKER_ID`; two processes with the default of
  `config.py` would pass each other's lease checks.
* The clocks of the processes and of the database differ by less than a lease.
* The database keeps what it has committed.
* A handler is one step where `Inbox` speaks of handlers in general; the modules of
  the use cases split it into its transactions, each atomic by the locks it takes.
* `Intake`, `Initiatives` and `Enrollment` see the inbox through `EventWork`, which
  has no clocks: a lease is lost whenever a disruption is left. `Inbox` has the times.

## 7. Not modelled

* Rendering, cards and texts: pure formatting. Knowledge search and house
  context: queries. Language models: to a worker, a handler that returns, raises
  or calls tools with any arguments. Operator tools, migrations, settings.
* The rate limiter: while a delivery waits for it, its heartbeat goes on renewing the
  lease; that calls are spaced is a matter of one lock and one clock per process.
* `application/cases/problem.py`: a workflow that no entry point builds.
* In `Enrollment`: the chat of a house (`bind_house_chat`), a single guarded
  write of the operator, and the text a resident is greeted with.
* In `Intake`: the life of a case of another kind, to which a report may be attached;
  initiatives have `Initiatives`, emergencies share the request and the check of
  `Fulfilment`.
* In `Intake` and `Initiatives`: signing of action tokens, acknowledgements of
  callbacks, invitations to a poll, and the questions that a message of unclear
  kind is answered with, which change no case.
* In `Outbox`: the status `waiting_attachment`, which needs a worker built
  without media or files; redaction of delivered texts; a key reused with
  another text, which raises and changes nothing.
* In `Poll`: the deliveries and cards that a transition stores.
* In `Fulfilment`: facts, texts and rules of a draft (its revision stands for
  them), registration numbers, the rendering of the appeal (only its event; the
  rest is `Documents`), and what becomes of a case after its verdict.

## 8. Plan

All modules of the table in section 2 are written and checked, and every safety
property of a passing run is a theorem, each refinement included. What could be
added:

1. The deliveries and cards that a transition of a poll stores, as items of `Outbox`.
2. The review of sources and the rules made from them, which `Requests` takes as given.

A module of the rate limiter was considered and left out: within a process one
lock and one clock space the calls, which is what such a module would assume.

Runs stay few: a question that is proved need not be checked on a second
instance, and a new module joins the run of a neighbour where the two can share one.
