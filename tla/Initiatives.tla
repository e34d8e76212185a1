------------------------------ MODULE Initiatives ------------------------------
(***************************************************************************)
(* One initiative: its wording and the poll on it, which the author may    *)
(* replace while neighbours vote, reminders to those who are silent, and   *)
(* the decision.  What a handler has read it compares again under the lock *)
(* of the row it writes, for a revision, a vote or the end of the poll may *)
(* have come between.  A poll is named after the event that opens it.      *)
(* (application/initiatives/, infrastructure/postgres/initiatives.py,      *)
(* initiative_followup.py, application/resolution/production.py)           *)
(***************************************************************************)
EXTENDS EventWork, FiniteSets

CONSTANTS Detected,    \* the event of the creation of the case
          Revision,    \* commands of the author to change the wording
          Member,    \* whose position is asked
          Job,         \* reminder jobs: a poll and a number of 1 and 2
          MaxTouched   \* bound on what others write to the case

Poll == {Detected} \cup Revision
Expired(p)    == <<"expired", p>>
Remind(p, n)  == <<"remind", p, n>>

Event == Poll \cup {Expired(p) : p \in Poll} \cup {Remind(j[1], j[2]) : j \in Job}

ASSUME InitiativeAssumption ==
  /\ Nobody \notin Poll
  /\ Job \subseteq Poll \X {1, 2}
  /\ {Expired(p) : p \in Poll} \cap Poll = {}
  /\ MaxTouched \in Nat

VARIABLES case,        \* the row of the case
          initiative,  \* its current revision, and the version it gave the case
          poll,        \* the poll of each revision
          decision,    \* the decision on each poll
          position,    \* polls whose position is queued as a document
          card,        \* the poll that the public card shows
          announced,   \* revisions whose event has not been handled yet
          reminded,    \* how often each resident was reminded of each poll
          recent,      \* pairs of those to whom that happened just now
          batches,     \* reminder jobs that have been carried out
          touched      \* counts what others wrote to the case

tableVars == <<case, initiative, poll, decision, position, card, announced>>
reminderVars == <<reminded, recent, batches>>
vars == <<tableVars, reminderVars, touched, workVars, disruptions>>

Unopened == [status |-> "none", outcome |-> "none", version |-> 0, answered |-> {}]
Opened == [Unopened EXCEPT !.status = "open", !.version = 1]
\* Nobody reads the single answers of a poll that is over, nor its version.
Over(status, outcome) == [Unopened EXCEPT !.status = status, !.outcome = outcome]

Outcomes == {"supported", "not_supported"}

TypeOK ==
  /\ case.status \in {"detected", "collecting", "request_ready", "not_supported"}
  /\ case.version \in Nat
  /\ initiative \in [poll : Poll \cup {Nobody}, revision : Nat, version : Nat]
  /\ poll \in [Poll -> [status : {"none", "open", "closed", "cancelled"},
                        outcome : Outcomes \cup {"none"}, version : Nat,
                        answered : SUBSET Member]]
  /\ decision \in [Poll -> Outcomes \cup {"none"}]
  /\ position \subseteq Poll
  /\ card \in Poll \cup {Nobody} /\ announced \subseteq Revision
  /\ reminded \in [Poll \X Member -> Nat]
  /\ recent \subseteq Poll \X Member
  /\ batches \subseteq Job

\* The case is created with its event, in one transaction.
Init ==
  /\ case = [status |-> "detected", version |-> 1]
  /\ initiative = [poll |-> Nobody, revision |-> 0, version |-> 0]
  /\ poll = [p \in Poll |-> Unopened]
  /\ decision = [p \in Poll |-> "none"]
  /\ position = {} /\ card = Nobody /\ announced = {}
  /\ reminded = [d \in Poll \X Member |-> 0] /\ recent = {} /\ batches = {}
  /\ touched = 0
  /\ worker = [w \in Worker |-> Idle]
  /\ event = [e \in Event |-> IF e = Detected THEN [Absent EXCEPT !.status = "pending", !.about = 1]
                              ELSE Absent]
  /\ disruptions = 0

Unfinished == {"detected", "collecting"}

-----------------------------------------------------------------------------
(* Residents, time, and what other modules have *)

\* Poll has the answers, the drain and the outcome.
Answer(p, r) ==
  /\ poll[p].status = "open" /\ r \notin poll[p].answered
  /\ poll' = [poll EXCEPT ![p].answered = @ \cup {r}, ![p].version = @ + 1]
  /\ UNCHANGED <<case, initiative, decision, position, card, announced,
                 reminderVars, touched, workVars, disruptions>>

PollEnds(p, outcome) ==
  /\ poll[p].status = "open"
  /\ outcome = "supported" => poll[p].answered # {}
  /\ poll' = [poll EXCEPT ![p] = Over("closed", outcome)]
  /\ event' = Stored(Expired(p), Nobody)
  /\ UNCHANGED <<case, initiative, decision, position, card, announced,
                 reminderVars, touched, worker, disruptions>>

\* The author names the revision that is to be replaced, which is shown to him.
SendRevision(k) ==
  /\ initiative.poll # Nobody
  /\ event' = Stored(k, initiative.revision)
  /\ UNCHANGED <<tableVars, reminderVars, touched, worker, disruptions>>

\* A reminder job falls due while its poll is open, as Scheduler has it.
ReminderDue(j) ==
  /\ poll[j[1]].status = "open"
  /\ event' = Stored(Remind(j[1], j[2]), Nobody)
  /\ UNCHANGED <<tableVars, reminderVars, touched, worker, disruptions>>

\* Half an hour, after which a resident may be reminded again.
Rest ==
  /\ recent # {} /\ recent' = {}
  /\ UNCHANGED <<tableVars, reminded, batches, touched, workVars, disruptions>>

\* A message or a photo is added to the case, which moves its version on; when
\* the initiative is decided nothing here looks at it any more.
Touch ==
  /\ case.status \in Unfinished
  /\ touched < MaxTouched /\ touched' = touched + 1
  /\ case' = [case EXCEPT !.version = @ + 1]
  /\ UNCHANGED <<initiative, poll, decision, position, card, announced,
                 reminderVars, workVars, disruptions>>

Environment ==
  \/ \E p \in Poll, r \in Member : Answer(p, r)
  \/ \E k \in Revision : event[k].status = "absent" /\ SendRevision(k)
  \/ \E j \in Job : event[Remind(j[1], j[2])].status = "absent" /\ ReminderDue(j)
  \/ Rest
  \/ Touch

-----------------------------------------------------------------------------
(* initiative.detected *)

\* The public card shows the current poll of an initiative, if that is not over.
ShowCurrent == card' = IF case.status = "collecting" THEN initiative.poll ELSE card

\* Audience, first revision, poll, jobs and card, unless there is nobody to ask.
OpenInitiative ==
  LET version == case.version + 1 IN
  \/ /\ case' = [status |-> "collecting", version |-> version]
     /\ initiative' = [poll |-> Detected, revision |-> 1, version |-> version]
     /\ poll' = [poll EXCEPT ![Detected] = Opened]
     /\ card' = Detected
  \/ /\ case' = [status |-> "not_supported", version |-> version]
     /\ UNCHANGED <<initiative, poll, card>>

\* The first event opens the poll of an untouched new case,
HandleDetected(w) ==
  /\ At(w, "start") /\ Subject(w) = Detected
  /\ IF case.status = "detected"
     THEN Transaction(w, case.version = About(w), OpenInitiative /\ UNCHANGED event,
                      UNCHANGED <<case, initiative, poll, card>>, "finish")
     ELSE ShowCurrent /\ Proceed(w, "finish") /\ UNCHANGED <<case, initiative, poll>>
  /\ UNCHANGED <<decision, position, announced, reminderVars, touched, disruptions>>

\* and that of a revision only shows it.  The one transaction of its handler may
\* be repeated like any other, to no other effect, so the worker is left out.
HandleRevised(k) ==
  /\ k \in announced /\ announced' = announced \ {k}
  /\ ShowCurrent
  /\ UNCHANGED <<case, initiative, poll, decision, position,
                 reminderVars, touched, workVars, disruptions>>

-----------------------------------------------------------------------------
(* /revise *)

\* A command that has opened its poll is known by the operation it has left.
Known(k) == poll[k].status # "none"

\* Several short reads, before and after the audience is resolved; what one of
\* them finds changed by the next would be found under the lock as well.  Whoever
\* finds a conflict is told so, and the command is done.
ReadInitiative(w) ==
  /\ At(w, "start") /\ Subject(w) \in Revision
  /\ IF /\ ~ Known(Subject(w))
        /\ initiative.revision = About(w)
        /\ initiative.version = case.version
     THEN Read(w, "replace", initiative) ELSE Goto(w, "finish")
  /\ UNCHANGED <<tableVars, reminderVars, touched, event, disruptions>>

MayReplace(k, seen) ==
  /\ ~ Known(k)
  /\ case.status = "collecting"
  /\ case.version = seen.version
  /\ initiative = seen

\* Mutant: the old poll goes on.
ReplacedBesideOld(k, seen) == [poll EXCEPT ![k] = Opened]

\* cancel_atomic, which leaves a poll that has ended, and open_once.
Replaced(k, seen) ==
  [poll EXCEPT ![seen.poll] = IF @.status = "open" THEN Over("cancelled", "none") ELSE @,
               ![k] = Opened]

\* Mutant: the new revision is not announced.
AnnouncedNever(k) == announced

Announced(k) == announced \cup {k}

ReplacePoll(w) ==
  LET k == Subject(w)  seen == View(w) IN
  /\ At(w, "replace")
  /\ IF MayReplace(k, seen)
     THEN /\ poll' = Replaced(k, seen)
          /\ initiative' = [poll |-> k, revision |-> seen.revision + 1,
                            version |-> seen.version + 1]
          /\ case' = [case EXCEPT !.version = seen.version + 1]
          /\ announced' = Announced(k)
     ELSE UNCHANGED <<case, initiative, poll, announced>>
  /\ Proceed(w, "finish")
  /\ UNCHANGED <<decision, position, card, reminderVars, touched, disruptions>>

-----------------------------------------------------------------------------
(* initiative.reminder_due *)

\* plan_reminders reads a poll and the initiative it should belong to.  Near the
\* end of the poll it does nothing.  What the second read finds is read again.
PlanReminders(w) ==
  /\ At(w, "start")
  /\ \E j \in Job :
       LET p == j[1] IN
       /\ Subject(w) = Remind(p, j[2])
       /\ \/ /\ initiative.poll = p /\ poll[p].status = "open"
             /\ Read(w, "remind", [poll |-> p, job |-> j, version |-> poll[p].version,
                                   silent |-> Member \ poll[p].answered])
          \/ Goto(w, "finish")
  /\ UNCHANGED <<tableVars, reminderVars, touched, event, disruptions>>

\* Mutant: residents are reminded as it was planned.
StillSilentAsPlanned(plan) == plan.silent

\* Under the lock of the poll, which must be as it was.  A conflict is no error:
\* one answer in between, and no neighbour is reminded by this job.
StillSilent(plan) ==
  IF /\ poll[plan.poll].status = "open"
     /\ poll[plan.poll].version = plan.version
     /\ initiative.poll = plan.poll
  THEN plan.silent \ poll[plan.poll].answered ELSE {}

CarriedOut(plan) == plan.job \in batches

\* Those who can be reached, who have a reminder left and had none just now.
EnqueueReminders(w) ==
  LET plan == View(w) IN
  /\ At(w, "remind")
  /\ IF CarriedOut(plan) THEN UNCHANGED reminderVars
     ELSE \E reachable \in SUBSET StillSilent(plan) :
            LET told == {d \in {plan.poll} \X reachable : reminded[d] < 2 /\ d \notin recent} IN
            /\ reminded' = [d \in DOMAIN reminded |->
                              IF d \in told THEN reminded[d] + 1 ELSE reminded[d]]
            /\ recent' = recent \cup told
            /\ batches' = IF StillSilent(plan) = {} THEN batches
                          ELSE batches \cup {plan.job}
  /\ Proceed(w, "finish")
  /\ UNCHANGED <<tableVars, touched, disruptions>>

-----------------------------------------------------------------------------
(* poll.expired *)

\* finalize_position: a poll that has ended does not change any more, so only
\* what is read of the initiative matters.
ReadState(w) ==
  /\ At(w, "start")
  /\ \E p \in Poll :
       /\ Subject(w) = Expired(p)
       /\ IF initiative.poll = p THEN Read(w, "decide", p) /\ UNCHANGED event ELSE Raise(w)
  /\ UNCHANGED <<tableVars, reminderVars, touched, disruptions>>

\* Mutant: the revision that was read is not compared again.
MayDecideOld(p) == case.status = "collecting" /\ case.version = initiative.version

\* save_decision_once: the initiative is as it was, and nobody has written to it.
MayDecide(p) ==
  /\ initiative.poll = p
  /\ case.status = "collecting"
  /\ case.version = initiative.version

SaveDecision(w) ==
  LET p == View(w) IN
  /\ At(w, "decide")
  /\ Transaction(w, decision[p] # "none" \/ MayDecide(p),
       /\ IF decision[p] # "none" THEN UNCHANGED <<case, decision>>
          ELSE /\ decision' = [decision EXCEPT ![p] = poll[p].outcome]
               /\ case' = [status |-> IF poll[p].outcome = "supported" THEN "request_ready"
                                      ELSE "not_supported",
                           version |-> case.version + 1]
       /\ UNCHANGED event,
       UNCHANGED <<case, decision>>, "position")
  /\ UNCHANGED <<initiative, poll, position, card, announced,
                 reminderVars, touched, disruptions>>

\* Mutant: the document follows only if the decision has just been made.
PositionOfFirst(p) ==
  IF event[Expired(p)].attempts = 1 THEN position \cup {p} ELSE position

PositionOf(p) == position \cup {p}

\* The position of the residents is prepared as a document, once.
PreparePosition(w) ==
  /\ At(w, "position")
  /\ position' = PositionOf(initiative.poll)
  /\ Proceed(w, "finish")
  /\ UNCHANGED <<case, initiative, poll, decision, card, announced,
                 reminderVars, touched, disruptions>>

-----------------------------------------------------------------------------

FinishEvent(w) ==
  /\ At(w, "finish")
  /\ Finish(w)
  /\ UNCHANGED <<tableVars, reminderVars, touched, disruptions>>

Work(w) ==
  \/ HandleDetected(w)
  \/ ReadInitiative(w) \/ ReplacePoll(w)
  \/ PlanReminders(w) \/ EnqueueReminders(w)
  \/ ReadState(w) \/ SaveDecision(w) \/ PreparePosition(w)
  \/ FinishEvent(w)

ClaimEvent == \E w \in Worker, e \in Event :
                Claim(w, e) /\ UNCHANGED <<tableVars, reminderVars, touched>>
PollIsOver(p) == \E outcome \in Outcomes : PollEnds(p, outcome)

Next ==
  \/ Environment
  \/ \E p \in Poll : PollIsOver(p)
  \/ \E w \in Worker : Work(w)
  \/ ClaimEvent
  \/ \E k \in Revision : HandleRevised(k)
  \/ Disturb /\ UNCHANGED <<tableVars, reminderVars, touched>>

Spec == Init /\ [][Next]_vars

\* Workers run for ever and polls have an end; as there is an end to what is
\* tried, it is enough that the workers go on with something.
Fairness ==
  /\ WF_vars(\E w \in Worker : Work(w))
  /\ WF_vars(ClaimEvent)
  /\ WF_vars(\E k \in Revision : HandleRevised(k))
  /\ WF_vars(\E p \in Poll : PollIsOver(p))

FairSpec == Spec /\ Fairness

-----------------------------------------------------------------------------
(* What the rows mean to the author and to the residents *)

VoteOf(p) == IF poll[p].status = "closed" THEN poll[p].outcome ELSE poll[p].status

Assembly == INSTANCE Proposal WITH
  First <- Detected, Later <- Revision, Resident <- Member, None <- Nobody,
  stage <- case.status, wording <- initiative.poll, vote <- [p \in Poll |-> VoteOf(p)],
  answered <- IF initiative.poll = Nobody THEN {} ELSE poll[initiative.poll].answered,
  written <- position

-----------------------------------------------------------------------------
(* Properties *)

\* Only the wording that is shown can be voted on, and only while it is not
\* decided, whichever revisions and results compete.
OnlyCurrentPollIsOpen ==
  \A p \in Poll : poll[p].status = "open" => initiative.poll = p /\ case.status = "collecting"

\* A decision is that of the residents on the current wording: votes for an old
\* one decide nothing, though its poll may have ended before it was replaced.
DecidedByCurrentWording ==
  \A p \in Poll : decision[p] # "none" =>
    /\ initiative.poll = p
    /\ poll[p].status = "closed" /\ poll[p].outcome = decision[p]
    /\ case.status = (IF decision[p] = "supported" THEN "request_ready" ELSE "not_supported")

\* Rows, events, jobs and workers together are one assembly: only the wording on
\* the table is voted on, what was said of another counts for nothing, only the
\* silent are asked again, and one result decides for good, however revisions,
\* reminders and results overtake or repeat each other.
ImplementsProposal == Assembly!Spec

\* Nobody is reminded of a poll that he has answered, or that is over or replaced,
\* and one job reminds a resident once, though its event may be handled again.
OnlySilentAreReminded ==
  [][\A p \in Poll, r \in Member :
       reminded'[<<p, r>>] > reminded[<<p, r>>] =>
         /\ poll[p].status = "open" /\ r \notin poll[p].answered /\ initiative.poll = p
         /\ reminded'[<<p, r>>] <= Cardinality({j \in batches' : j[1] = p})]_vars

\* An initiative is decided, and its position becomes a document, through
\* revisions, crashes and lost leases, unless others have written to its case.
UntouchedIsDecided ==
  []<>(\/ touched > 0
       \/ case.status = "not_supported" /\ initiative.poll = Nobody
       \/ initiative.poll \in position)

\* The public card comes to show the current wording, or the vote is over: again
\* and again it does.
CardShowsCurrentWording ==
  []<>(case.status = "collecting" => card = initiative.poll)
=============================================================================
