--------------------------- MODULE HandlerProofs ---------------------------
(***************************************************************************)
(* The two modules whose handlers run on EventWork: Initiatives first, and *)
(* Enrollment in the second half.                                          *)
(*                                                                         *)
(* What is decided on an initiative is what the residents said of its      *)
(* current wording, for any revisions, residents, reminders and workers.   *)
(*                                                                         *)
(* An open poll is the current one of an initiative that is collecting, so *)
(* the lock of the row lets one handler move the initiative on and all the *)
(* others, that have read it before, find it changed.  A poll that a       *)
(* worker decides by is over, and what is over does not change any more.   *)
(* So each of their steps is one of the assembly that Proposal describes.  *)
(***************************************************************************)
EXTENDS Initiatives, Enrollment, FiniteSetTheorems, TLAPS

EventRow == [status : {"absent", "pending", "processing", "settled"}, attempts : Nat,
             owner : Worker \cup {Nobody}, about : Nat \cup {Nobody}]
InitiativeRow == [poll : Poll \cup {Nobody}, revision : Nat, version : Nat]
Plan == [poll : Poll, job : Job, version : Nat, silent : SUBSET Member]
WorkerRow == [event : Event \cup {Nobody},
              step : {"start", "replace", "remind", "decide", "position", "finish"},
              view : {Nobody} \cup Poll \cup InitiativeRow \cup Plan]

WorkTypeOK ==
  /\ event \in [Event -> EventRow]
  /\ worker \in [Worker -> WorkerRow]
  /\ disruptions \in 0..MaxDisruptions /\ touched \in 0..MaxTouched

\* A poll that is closed has an outcome, and the event of its end says that it is.
Ended ==
  \A p \in Poll :
    /\ poll[p].status = "closed" => poll[p].outcome \in Outcomes
    /\ event[Expired(p)].status # "absent" => poll[p].status = "closed"

\* What a worker knows in each step of a handler.
Fits(w) ==
  LET e == worker[w].event  step == worker[w].step  view == worker[w].view IN
  worker[w] # Idle =>
    /\ e \in Event /\ event[e].status # "absent"
    /\ step = "replace" => e \in Revision
    /\ step = "remind" => view \in Plan /\ view.job[1] = view.poll
    /\ step = "decide" => view \in Poll /\ poll[view].status = "closed"
    /\ step = "position" => \E p \in Poll : decision[p] # "none"

Duties == \A w \in Worker : Fits(w)

\* A resident has been reminded of a poll by at most as many jobs as were done.
JobsOf(p) == {j \in batches : j[1] = p}

Spared ==
  /\ IsFiniteSet(batches)
  /\ \A p \in Poll, r \in Member : reminded[<<p, r>>] <= Cardinality(JobsOf(p))

\* A new case has had no poll.
Fresh == case.status = "detected" => \A p \in Poll : poll[p].status = "none"

IInv ==
  /\ TypeOK /\ WorkTypeOK /\ Fresh /\ Ended /\ Duties /\ Spared
  /\ OnlyCurrentPollIsOpen /\ DecidedByCurrentWording

-----------------------------------------------------------------------------
(* What a step leaves as it was *)

\* A poll that is over stays as it is, and a decision is not taken back.
Lasting ==
  \A p \in Poll : /\ poll[p].status = "closed" => poll'[p] = poll[p]
                  /\ decision[p] # "none" => decision'[p] # "none"

\* A row that is there stays.
Kept == \A e \in Event : event[e].status # "absent" => event'[e].status # "absent"

\* No row is added for the end of a poll but of one that is over.
Honest ==
  \A p \in Poll : event'[Expired(p)].status # "absent" =>
    event[Expired(p)].status # "absent" \/ poll'[p].status = "closed"

LEMMA Events ==
  /\ Detected \in Event /\ Revision \subseteq Event /\ Poll \subseteq Event
  /\ \A p \in Poll : Expired(p) \in Event
  /\ \A j \in Job : Remind(j[1], j[2]) \in Event
BY DEF Event, Poll

LEMMA FitsStays ==
  ASSUME NEW w \in Worker, Fits(w), worker'[w] = worker[w], Lasting, Kept
  PROVE  Fits(w)'
BY DEF Fits, Lasting, Kept

LEMMA Together ==
  ASSUME IInv, TypeOK', WorkTypeOK', Fresh', Spared', OnlyCurrentPollIsOpen',
         DecidedByCurrentWording', Lasting, Kept, Honest,
         \A p \in Poll : poll'[p].status = "closed" =>
           poll'[p] = poll[p] \/ poll'[p].outcome \in Outcomes,
         \A w \in Worker : worker'[w] = worker[w] \/ Fits(w)'
  PROVE  IInv'
<1> USE DEF IInv
<1>1. Duties'
  BY FitsStays DEF Duties
<1>2. Ended'
  BY DEF Ended, Honest, Lasting
<1> QED
  BY <1>1, <1>2

LEMMA TablesStay ==
  ASSUME IInv, UNCHANGED <<case, initiative, poll, decision>>
  PROVE  Lasting /\ Fresh' /\ OnlyCurrentPollIsOpen' /\ DecidedByCurrentWording'
BY DEF IInv, Lasting, Fresh, OnlyCurrentPollIsOpen, DecidedByCurrentWording

LEMMA RemindersStay ==
  ASSUME IInv, UNCHANGED <<reminded, batches>>
  PROVE  Spared'
BY DEF IInv, Spared, JobsOf

LEMMA EventsStay ==
  ASSUME UNCHANGED event
  PROVE  Kept /\ Honest
BY DEF Kept, Honest

\* What is stored is added, and adds no end of a poll unless it is one.
LEMMA StoredKeeps ==
  ASSUME WorkTypeOK, NEW e \in Event, NEW about \in Nat \cup {Nobody}, event' = Stored(e, about)
  PROVE  /\ event' \in [Event -> EventRow] /\ Kept
         /\ \A f \in Event : f # e => event'[f] = event[f]
BY DEF WorkTypeOK, Stored, Kept, EventRow

-----------------------------------------------------------------------------
(* What a worker does with its event *)

Step == {"start", "replace", "remind", "decide", "position", "finish"}
Views == {Nobody} \cup Poll \cup InitiativeRow \cup Plan

Others(w) == \A v \in Worker \ {w} : worker'[v] = worker[v]

LEMMA ReadGoes ==
  ASSUME WorkTypeOK, NEW w \in Worker, NEW step \in Step, NEW view \in Views,
         Read(w, step, view)
  PROVE  /\ worker' \in [Worker -> WorkerRow] /\ Others(w)
         /\ worker'[w].event = worker[w].event
         /\ worker'[w].step = step /\ worker'[w].view = view
<1> DEFINE row == [worker[w] EXCEPT !.step = step, !.view = view]
<1>1. worker \in [Worker -> WorkerRow]
  BY DEF WorkTypeOK
<1>2. row \in WorkerRow /\ row.event = worker[w].event /\ row.step = step /\ row.view = view
  BY <1>1 DEF WorkerRow, Step, Views
<1>3. worker' = [worker EXCEPT ![w] = row]
  BY <1>1 DEF Read
<1> HIDE DEF row
<1> QED
  BY <1>1, <1>2, <1>3 DEF Others

\* The worker has reported: it is free, and the row of its event is still there.
Reported(w) ==
  /\ event' \in [Event -> EventRow] /\ worker' \in [Worker -> WorkerRow]
  /\ Kept /\ Honest /\ Others(w) /\ worker'[w] = Idle

LEMMA IdleIsRow == Idle \in WorkerRow
BY DEF Idle, WorkerRow

LEMMA ConcludeReports ==
  ASSUME IInv, NEW w \in Worker, worker[w] # Idle,
         NEW row \in EventRow, row.status # "absent", Conclude(w, row)
  PROVE  Reported(w)
<1>1. worker[w].event \in Event /\ event[worker[w].event].status # "absent"
  BY DEF IInv, Duties, Fits
<1>2. event' = event \/ event' = [event EXCEPT ![worker[w].event] = row]
  BY DEF Conclude, Subject
<1>3. event \in [Event -> EventRow]
  BY DEF IInv, WorkTypeOK
<1>4. event' \in [Event -> EventRow] /\ Kept
  BY <1>1, <1>2, <1>3 DEF Kept
<1>5. Honest
  BY <1>1, <1>2, <1>3, Events DEF Honest
<1>6. worker' = [worker EXCEPT ![w] = Idle] /\ worker \in [Worker -> WorkerRow]
  BY DEF Conclude, IInv, WorkTypeOK
<1> QED
  BY <1>4, <1>5, <1>6, IdleIsRow DEF Reported, Others

LEMMA FinishReports ==
  ASSUME IInv, NEW w \in Worker, worker[w] # Idle, Finish(w) \/ Raise(w)
  PROVE  Reported(w)
<1> DEFINE row == event[worker[w].event]
           again == [row EXCEPT !.status = "pending", !.owner = Nobody]
<1>1. row \in EventRow
  BY DEF IInv, WorkTypeOK, Duties, Fits
<1>2. Settled(row) \in EventRow /\ Settled(row).status = "settled"
  BY <1>1 DEF Settled, EventRow
<1>3. again \in EventRow /\ again.status = "pending"
  BY <1>1 DEF EventRow
<1>4. Conclude(w, Settled(row)) \/ Conclude(w, again)
  BY DEF Finish, Raise, Subject
<1> QED
  BY <1>2, <1>3, <1>4, ConcludeReports

-----------------------------------------------------------------------------
(* Residents, time, and what other modules have *)

LEMMA AnswerKeeps ==
  ASSUME IInv, NEW p \in Poll, NEW r \in Member, Answer(p, r)
  PROVE  IInv'
<1> USE DEF IInv
<1>1. /\ poll' \in [Poll -> [status : {"none", "open", "closed", "cancelled"},
                            outcome : Outcomes \cup {"none"}, version : Nat,
                            answered : SUBSET Member]]
      /\ poll'[p].status = "open" /\ \A q \in Poll \ {p} : poll'[q] = poll[q]
  BY DEF Answer, TypeOK
<1>2. TypeOK'
  BY <1>1 DEF Answer, TypeOK, reminderVars
<1>3. WorkTypeOK' /\ Kept /\ Honest
  BY EventsStay DEF Answer, WorkTypeOK, workVars
<1>4. Lasting /\ Fresh' /\ OnlyCurrentPollIsOpen' /\ DecidedByCurrentWording'
  BY <1>1 DEF Answer, Lasting, Fresh, OnlyCurrentPollIsOpen, DecidedByCurrentWording
<1>5. Spared'
  BY RemindersStay DEF Answer, reminderVars
<1>6. \A q \in Poll : poll'[q].status = "closed" => poll'[q] = poll[q]
  BY <1>1
<1> QED
  BY <1>2, <1>3, <1>4, <1>5, <1>6, Together DEF Answer, workVars

LEMMA PollEndsKeeps ==
  ASSUME IInv, NEW p \in Poll, NEW outcome \in Outcomes, PollEnds(p, outcome)
  PROVE  IInv'
<1> USE DEF IInv
<1>1. Over("closed", outcome) \in [status : {"none", "open", "closed", "cancelled"},
                                   outcome : Outcomes \cup {"none"}, version : Nat,
                                   answered : SUBSET Member]
      /\ Over("closed", outcome).status = "closed" /\ Over("closed", outcome).outcome = outcome
  BY DEF Over, Unopened
<1>2. /\ poll' \in [Poll -> [status : {"none", "open", "closed", "cancelled"},
                            outcome : Outcomes \cup {"none"}, version : Nat,
                            answered : SUBSET Member]]
      /\ poll'[p].status = "closed" /\ poll'[p].outcome \in Outcomes
      /\ \A q \in Poll \ {p} : poll'[q] = poll[q]
  BY <1>1 DEF PollEnds, TypeOK
<1>3. TypeOK'
  BY <1>2 DEF PollEnds, TypeOK, reminderVars
<1>4. /\ event' \in [Event -> EventRow] /\ Kept
      /\ \A f \in Event : f # Expired(p) => event'[f] = event[f]
  BY Events, StoredKeeps DEF PollEnds
<1>5. \A q \in Poll : q # p => Expired(q) # Expired(p)
  BY DEF Expired
<1>6. WorkTypeOK' /\ Honest
  BY <1>2, <1>4, <1>5, Events DEF PollEnds, WorkTypeOK, Honest
<1>7. poll[p].status = "open"
  BY DEF PollEnds
<1>8. Lasting /\ Fresh' /\ OnlyCurrentPollIsOpen' /\ DecidedByCurrentWording'
  BY <1>2, <1>7 DEF PollEnds, Lasting, Fresh, OnlyCurrentPollIsOpen, DecidedByCurrentWording
<1>9. Spared'
  BY RemindersStay DEF PollEnds, reminderVars
<1> QED
  BY <1>2, <1>3, <1>4, <1>6, <1>8, <1>9, Together DEF PollEnds

\* An event that is stored, and is not the end of a poll.
LEMMA StoringKeeps ==
  ASSUME IInv, NEW e \in Event, NEW about \in Nat \cup {Nobody},
         \A p \in Poll : e # Expired(p),
         event' = Stored(e, about),
         UNCHANGED <<tableVars, reminderVars, touched, worker, disruptions>>
  PROVE  IInv'
<1> USE DEF IInv
<1>1. /\ event' \in [Event -> EventRow] /\ Kept
      /\ \A f \in Event : f # e => event'[f] = event[f]
  BY StoredKeeps
<1>2. WorkTypeOK' /\ Honest
  BY <1>1, Events DEF WorkTypeOK, Honest
<1>3. TypeOK' /\ UNCHANGED <<case, initiative, poll, decision, reminded, batches>>
  BY DEF TypeOK, tableVars, reminderVars
<1>4. /\ Lasting /\ Fresh' /\ OnlyCurrentPollIsOpen' /\ DecidedByCurrentWording' /\ Spared'
  BY <1>3, TablesStay, RemindersStay
<1>5. UNCHANGED <<poll, worker>>
  BY <1>3
<1> QED
  BY <1>1, <1>2, <1>3, <1>4, <1>5, Together

LEMMA EnvironmentKeeps ==
  ASSUME IInv, Environment
  PROVE  IInv'
<1> USE DEF IInv
<1>1. ASSUME NEW p \in Poll, NEW r \in Member, Answer(p, r) PROVE IInv'
  BY <1>1, AnswerKeeps
<1>2. ASSUME NEW k \in Revision, SendRevision(k) PROVE IInv'
  <2>1. k \in Event /\ \A p \in Poll : k # Expired(p)
    BY Events, InitiativeAssumption DEF Poll
  <2>2. initiative.revision \in Nat \cup {Nobody}
    BY DEF TypeOK
  <2> QED
    BY <1>2, <2>1, <2>2, StoringKeeps DEF SendRevision
<1>3. ASSUME NEW j \in Job, ReminderDue(j) PROVE IInv'
  <2>1. Remind(j[1], j[2]) \in Event
    BY Events
  <2>2. \A p \in Poll : Remind(j[1], j[2]) # Expired(p)
    BY DEF Remind, Expired
  <2> QED
    BY <1>3, <2>1, <2>2, StoringKeeps DEF ReminderDue
<1>4. CASE Rest
  <2>1. TypeOK' /\ WorkTypeOK'
    BY <1>4 DEF Rest, TypeOK, WorkTypeOK, tableVars, workVars
  <2>2. UNCHANGED <<case, initiative, poll, decision, reminded, batches, event, worker>>
    BY <1>4 DEF Rest, tableVars, workVars
  <2> QED
    BY <2>1, <2>2, TablesStay, RemindersStay, EventsStay, Together
<1>5. CASE Touch
  <2>1. TypeOK' /\ WorkTypeOK'
    BY <1>5, InitiativeAssumption DEF Touch, TypeOK, WorkTypeOK, reminderVars, workVars
  <2>2. UNCHANGED <<initiative, poll, decision, reminded, batches, event, worker>>
        /\ case'.status = case.status
    BY <1>5 DEF Touch, TypeOK, reminderVars, workVars
  <2>3. Lasting /\ Fresh' /\ OnlyCurrentPollIsOpen' /\ DecidedByCurrentWording'
    BY <2>2 DEF Lasting, Fresh, OnlyCurrentPollIsOpen, DecidedByCurrentWording
  <2> QED
    BY <2>1, <2>2, <2>3, RemindersStay, EventsStay, Together
<1> QED
  BY <1>1, <1>2, <1>3, <1>4, <1>5 DEF Environment

-----------------------------------------------------------------------------
(* Claims, crashes and lost leases *)

LEMMA TakeKeeps ==
  ASSUME IInv, NEW w \in Worker, NEW e \in Event, Take(w, e), event[e].status # "absent",
         disruptions' \in 0..MaxDisruptions, UNCHANGED <<tableVars, reminderVars, touched>>
  PROVE  IInv'
<1> USE DEF IInv
<1> DEFINE tries == IF event[e].attempts < MaxAttempts THEN event[e].attempts + 1
                    ELSE event[e].attempts
           row == [event[e] EXCEPT !.status = "processing", !.owner = w, !.attempts = tries]
           taken == [worker[w] EXCEPT !.event = e]
<1>1. event[e] \in EventRow /\ event \in [Event -> EventRow] /\ worker \in [Worker -> WorkerRow]
  BY DEF WorkTypeOK
<1>2. tries \in Nat
  BY <1>1 DEF EventRow
<1>3. row \in EventRow /\ row.status = "processing"
  BY <1>1, <1>2 DEF EventRow
<1>4. event' = [event EXCEPT ![e] = row]
  BY <1>1 DEF Take
<1>5. event' \in [Event -> EventRow] /\ Kept /\ Honest
  <2> HIDE DEF row
  <2>1. event' \in [Event -> EventRow] /\ Kept
    BY <1>1, <1>3, <1>4 DEF Kept
  <2> QED
    BY <1>1, <1>4, <2>1, Events DEF Honest
<1>6. taken \in WorkerRow /\ taken.event = e /\ taken.step = "start"
  BY <1>1 DEF Take, Idle, WorkerRow
<1>7. worker' = [worker EXCEPT ![w] = taken]
  BY DEF Take
<1>8. worker' \in [Worker -> WorkerRow] /\ Others(w) /\ Fits(w)'
  <2> HIDE DEF taken
  <2>1. worker' \in [Worker -> WorkerRow] /\ Others(w) /\ worker'[w] = taken
    BY <1>1, <1>6, <1>7 DEF Others
  <2> QED
    BY <1>5, <1>6, <2>1 DEF Fits, Kept
<1>9. TypeOK' /\ WorkTypeOK'
  BY <1>5, <1>8 DEF TypeOK, WorkTypeOK, tableVars, reminderVars
<1>10. UNCHANGED <<case, initiative, poll, decision, reminded, batches>>
  BY DEF tableVars, reminderVars
<1> QED
  BY <1>5, <1>8, <1>9, <1>10, TablesStay, RemindersStay, Together DEF Others

LEMMA ClaimKeeps ==
  ASSUME IInv, ClaimEvent
  PROVE  IInv'
<1>1. PICK w \in Worker, e \in Event :
        Claim(w, e) /\ UNCHANGED <<tableVars, reminderVars, touched>>
  BY DEF ClaimEvent
<1> QED
  BY <1>1, TakeKeeps DEF Claim, IInv, WorkTypeOK

LEMMA DisturbKeeps ==
  ASSUME IInv, Disturb, UNCHANGED <<tableVars, reminderVars, touched>>
  PROVE  IInv'
<1> USE DEF IInv
<1>1. disruptions < MaxDisruptions /\ disruptions' = disruptions + 1 =>
        disruptions' \in 0..MaxDisruptions
  BY WorkAssumption DEF WorkTypeOK
<1>2. ASSUME NEW w \in Worker, NEW e \in DOMAIN event, TakeOver(w, e) PROVE IInv'
  <2>1. e \in Event
    BY DEF WorkTypeOK
  <2> QED
    BY <1>1, <1>2, <2>1, TakeKeeps DEF TakeOver
<1>3. ASSUME NEW w \in Worker, Crash(w) PROVE IInv'
  <2> DEFINE e == worker[w].event
             row == [event[e] EXCEPT !.status = "pending", !.owner = Nobody]
  <2>1. /\ event \in [Event -> EventRow] /\ worker \in [Worker -> WorkerRow]
        /\ e \in Event /\ event[e].status # "absent"
    BY <1>3 DEF Crash, WorkTypeOK, Duties, Fits
  <2>2. row \in EventRow /\ row.status = "pending"
    BY <2>1 DEF EventRow
  <2>3. event' = event \/ event' = [event EXCEPT ![e] = row]
    BY <1>3, <2>1 DEF Crash, Left
  <2>4. event' \in [Event -> EventRow] /\ Kept /\ Honest
    <3> HIDE DEF row
    <3>1. event' \in [Event -> EventRow] /\ Kept
      BY <2>1, <2>2, <2>3 DEF Kept
    <3> QED
      BY <2>1, <2>3, <3>1, Events DEF Honest
  <2>5. worker' \in [Worker -> WorkerRow] /\ Others(w) /\ Fits(w)'
    BY <1>3, <2>1, IdleIsRow DEF Crash, Others, Fits
  <2>6. TypeOK' /\ WorkTypeOK'
    BY <1>1, <1>3, <2>4, <2>5 DEF Crash, TypeOK, WorkTypeOK, tableVars, reminderVars
  <2>7. UNCHANGED <<case, initiative, poll, decision, reminded, batches>>
    BY DEF tableVars, reminderVars
  <2> QED
    BY <2>4, <2>5, <2>6, <2>7, TablesStay, RemindersStay, Together DEF Others
<1> QED
  BY <1>2, <1>3 DEF Disturb

-----------------------------------------------------------------------------
(* The steps of a handler *)

\* A worker that has reported, or has gone on with what fits its next step.
Moved(w) ==
  /\ event' \in [Event -> EventRow] /\ worker' \in [Worker -> WorkerRow]
  /\ Kept /\ Honest /\ Others(w) /\ Fits(w)'

LEMMA ReportedIsMoved ==
  ASSUME IInv, NEW w \in Worker, Reported(w)
  PROVE  Moved(w)
BY DEF Reported, Moved, Fits

LEMMA EndsNext ==
  ASSUME IInv, NEW w \in Worker, worker[w] # Idle, Goto(w, "finish"), UNCHANGED event
  PROVE  Moved(w)
<1>1. "finish" \in Step /\ Nobody \in Views
  BY DEF Step, Views
<1>2. /\ worker' \in [Worker -> WorkerRow] /\ Others(w)
      /\ worker'[w].event = worker[w].event /\ worker'[w].step = "finish"
  BY <1>1, ReadGoes DEF Goto, IInv
<1>3. worker[w].event \in Event /\ event[worker[w].event].status # "absent"
  BY DEF IInv, Duties, Fits
<1> QED
  BY <1>2, <1>3, EventsStay DEF Moved, Fits, IInv, WorkTypeOK

LEMMA WorkerKeeps ==
  ASSUME IInv, NEW w \in Worker, Moved(w), TypeOK', Fresh', Spared',
         OnlyCurrentPollIsOpen', DecidedByCurrentWording', Lasting,
         UNCHANGED <<touched, disruptions>>,
         \A p \in Poll : poll'[p].status = "closed" => poll'[p] = poll[p]
  PROVE  IInv'
<1>1. WorkTypeOK'
  BY DEF IInv, WorkTypeOK, Moved
<1> QED
  BY <1>1, Together DEF Moved, Others

LEMMA WorkerGoes ==
  ASSUME IInv, NEW w \in Worker, Moved(w), TypeOK',
         UNCHANGED <<case, initiative, poll, decision, reminded, batches, touched, disruptions>>
  PROVE  IInv'
BY TablesStay, RemindersStay, WorkerKeeps

LEMMA HandleDetectedKeeps ==
  ASSUME IInv, NEW w \in Worker, HandleDetected(w)
  PROVE  IInv'
<1> USE DEF IInv
<1>1. worker[w] # Idle
  BY DEF HandleDetected, At
<1>2. UNCHANGED <<decision, position, announced, reminded, recent, batches, touched, disruptions>>
  BY DEF HandleDetected, reminderVars
<1>3. CASE Raise(w) /\ UNCHANGED <<case, initiative, poll, card>>
  <2>1. Moved(w)
    BY <1>1, <1>3, FinishReports, ReportedIsMoved
  <2>2. TypeOK'
    BY <1>2, <1>3 DEF TypeOK
  <2> QED
    BY <1>2, <1>3, <2>1, <2>2, WorkerGoes
<1>4. CASE ShowCurrent /\ Proceed(w, "finish") /\ UNCHANGED <<case, initiative, poll>>
  <2>1. Moved(w)
    BY <1>1, <1>4, EndsNext DEF Proceed
  <2>2. TypeOK'
    BY <1>2, <1>4 DEF TypeOK, ShowCurrent
  <2> QED
    BY <1>2, <1>4, <2>1, <2>2, WorkerGoes
<1>5. CASE case.status = "detected" /\ OpenInitiative /\ UNCHANGED event /\ Goto(w, "finish")
  <2>1. Moved(w)
    BY <1>1, <1>5, EndsNext
  <2>2. /\ \A p \in Poll : decision[p] = "none" /\ poll[p].status = "none"
        /\ Detected \in Poll
    BY <1>5 DEF Fresh, DecidedByCurrentWording, TypeOK, Poll
  <2>3. CASE case' = [status |-> "not_supported", version |-> case.version + 1]
             /\ UNCHANGED <<initiative, poll, card>>
    <3>1. TypeOK'
      BY <1>2, <2>3 DEF TypeOK
    <3>2. Lasting /\ Fresh' /\ OnlyCurrentPollIsOpen' /\ DecidedByCurrentWording'
      BY <1>2, <2>2, <2>3 DEF Lasting, Fresh, OnlyCurrentPollIsOpen, DecidedByCurrentWording
    <3> QED
      BY <1>2, <2>1, <2>3, <3>1, <3>2, RemindersStay, WorkerKeeps
  <2>4. CASE /\ case' = [status |-> "collecting", version |-> case.version + 1]
             /\ initiative' = [poll |-> Detected, revision |-> 1, version |-> case.version + 1]
             /\ poll' = [poll EXCEPT ![Detected] = Opened]
             /\ card' = Detected
    <3>1. Opened \in [status : {"none", "open", "closed", "cancelled"},
                      outcome : Outcomes \cup {"none"}, version : Nat,
                      answered : SUBSET Member] /\ Opened.status = "open"
      BY DEF Opened, Unopened
    <3>2. /\ poll' \in [Poll -> [status : {"none", "open", "closed", "cancelled"},
                                outcome : Outcomes \cup {"none"}, version : Nat,
                                answered : SUBSET Member]]
          /\ poll'[Detected].status = "open" /\ \A q \in Poll \ {Detected} : poll'[q] = poll[q]
      BY <2>2, <2>4, <3>1 DEF TypeOK
    <3>3. case.version + 1 \in Nat /\ initiative' \in InitiativeRow
      BY <2>2, <2>4 DEF TypeOK, InitiativeRow
    <3>4. TypeOK'
      BY <1>2, <2>2, <2>4, <3>2, <3>3 DEF TypeOK, InitiativeRow
    <3>5. Lasting /\ Fresh' /\ OnlyCurrentPollIsOpen' /\ DecidedByCurrentWording'
      BY <1>2, <2>2, <2>4, <3>2 DEF Lasting, Fresh, OnlyCurrentPollIsOpen, DecidedByCurrentWording
    <3> QED
      BY <1>2, <2>1, <3>2, <3>4, <3>5, RemindersStay, WorkerKeeps
  <2> QED
    BY <1>5, <2>3, <2>4 DEF OpenInitiative
<1> QED
  BY <1>3, <1>4, <1>5 DEF HandleDetected, Transaction

LEMMA HandleRevisedKeeps ==
  ASSUME IInv, NEW k \in Revision, HandleRevised(k)
  PROVE  IInv'
<1>1. TypeOK' /\ WorkTypeOK'
  BY DEF HandleRevised, ShowCurrent, IInv, TypeOK, WorkTypeOK, reminderVars, workVars
<1>2. UNCHANGED <<case, initiative, poll, decision, reminded, batches, event, worker>>
  BY DEF HandleRevised, reminderVars, workVars
<1> QED
  BY <1>1, <1>2, TablesStay, RemindersStay, EventsStay, Together

LEMMA ReadInitiativeKeeps ==
  ASSUME IInv, NEW w \in Worker, ReadInitiative(w)
  PROVE  IInv'
<1> USE DEF IInv
<1>1. /\ worker[w] # Idle /\ worker[w].event \in Revision
      /\ worker[w].event \in Event /\ event[worker[w].event].status # "absent"
  BY DEF ReadInitiative, At, Subject, Duties, Fits
<1>2. Moved(w)
  <2>1. CASE Goto(w, "finish")
    BY <1>1, <2>1, EndsNext DEF ReadInitiative
  <2>2. CASE Read(w, "replace", initiative)
    <3>1. "replace" \in Step /\ initiative \in Views
      BY DEF Step, Views, TypeOK, InitiativeRow
    <3>2. /\ worker' \in [Worker -> WorkerRow] /\ Others(w)
          /\ worker'[w].event = worker[w].event /\ worker'[w].step = "replace"
      BY <2>2, <3>1, ReadGoes
    <3> QED
      BY <1>1, <3>2, EventsStay DEF Moved, Fits, WorkTypeOK, ReadInitiative
  <2> QED
    BY <2>1, <2>2 DEF ReadInitiative
<1>3. TypeOK' /\ UNCHANGED <<case, initiative, poll, decision, reminded, batches,
                             touched, disruptions>>
  BY DEF ReadInitiative, TypeOK, tableVars, reminderVars
<1> QED
  BY <1>2, <1>3, WorkerGoes

\* Whoever replaces the poll has the initiative as it stands.
LEMMA ReplacePollKeeps ==
  ASSUME IInv, NEW w \in Worker, ReplacePoll(w)
  PROVE  IInv'
<1> USE DEF IInv
<1> DEFINE k == worker[w].event
<1>1. worker[w] # Idle /\ k \in Revision
  BY DEF ReplacePoll, At, Duties, Fits
<1>2. Moved(w)
  BY <1>1, EndsNext DEF ReplacePoll, Proceed
<1>3. UNCHANGED <<decision, position, card, reminded, recent, batches, touched, disruptions>>
  BY DEF ReplacePoll, reminderVars
<1>4. CASE UNCHANGED <<case, initiative, poll, announced>>
  BY <1>2, <1>3, <1>4, WorkerGoes DEF TypeOK
<1>5. CASE /\ poll[k].status = "none" /\ case.status = "collecting"
           /\ poll' = [poll EXCEPT ![initiative.poll] =
                         IF @.status = "open" THEN Over("cancelled", "none") ELSE @,
                                   ![k] = Opened]
           /\ initiative' = [poll |-> k, revision |-> initiative.revision + 1,
                             version |-> initiative.version + 1]
           /\ case' = [case EXCEPT !.version = initiative.version + 1]
           /\ announced' = announced \cup {k}
  <2> DEFINE PollRow == [status : {"none", "open", "closed", "cancelled"},
                         outcome : Outcomes \cup {"none"}, version : Nat,
                         answered : SUBSET Member]
             old == initiative.poll
             ended == IF poll[old].status = "open" THEN Over("cancelled", "none") ELSE poll[old]
  <2>1. k \in Poll /\ poll \in [Poll -> PollRow]
    BY <1>1 DEF Poll, TypeOK
  <2>2. Opened \in PollRow /\ Opened.status = "open"
    BY DEF Opened, Unopened
  <2>3. Over("cancelled", "none") \in PollRow /\ Over("cancelled", "none").status = "cancelled"
    BY DEF Over, Unopened
  <2>4. poll' = [[poll EXCEPT ![old] = ended] EXCEPT ![k] = Opened]
    BY <1>5
  <2>5. old \in Poll => ended \in PollRow /\ ended.status # "open"
    BY <2>1, <2>3
  <2>6. /\ poll' \in [Poll -> PollRow] /\ poll'[k].status = "open"
        /\ \A q \in Poll : q # k => poll'[q] = poll[q] \/ (q = old /\ poll'[q] = ended)
    <3> HIDE DEF ended, PollRow
    <3> QED
      BY <2>1, <2>2, <2>4, <2>5
  <2>7. \A q \in Poll : q # k => /\ poll'[q].status # "open"
                                 /\ poll[q].status = "closed" \/ poll'[q].status = "closed"
                                      => poll'[q] = poll[q]
    <3> SUFFICES ASSUME NEW q \in Poll, q # k
                 PROVE  /\ poll'[q].status # "open"
                        /\ poll[q].status = "closed" \/ poll'[q].status = "closed"
                             => poll'[q] = poll[q]
      OBVIOUS
    <3>1. CASE q = old
      <4>1. poll'[q] = ended
        <5> HIDE DEF ended, PollRow
        <5> QED
          BY <2>1, <2>4, <3>1
      <4> QED
        BY <2>3, <2>5, <3>1, <4>1
    <3>2. CASE q # old
      BY <2>6, <3>2 DEF OnlyCurrentPollIsOpen
    <3> QED
      BY <3>1, <3>2
  <2> HIDE DEF ended
  <2>8. /\ initiative'.poll = k /\ case'.status = "collecting"
        /\ initiative' \in InitiativeRow /\ case'.version \in Nat
    BY <1>5, <2>1 DEF TypeOK, InitiativeRow
  <2>9. TypeOK'
    BY <1>1, <1>3, <1>5, <2>6, <2>8 DEF TypeOK, InitiativeRow
  <2>10. \A p \in Poll : decision[p] = "none"
    BY <1>5 DEF DecidedByCurrentWording
  <2>11. Lasting /\ Fresh' /\ OnlyCurrentPollIsOpen' /\ DecidedByCurrentWording'
    BY <1>3, <1>5, <2>6, <2>7, <2>8, <2>10
    DEF Lasting, Fresh, OnlyCurrentPollIsOpen, DecidedByCurrentWording
  <2>12. \A p \in Poll : poll'[p].status = "closed" => poll'[p] = poll[p]
    BY <2>6, <2>7
  <2> QED
    BY <1>2, <1>3, <2>9, <2>11, <2>12, RemindersStay, WorkerKeeps
<1> QED
  BY <1>4, <1>5 DEF ReplacePoll, MayReplace, Known, Replaced, Announced, Subject

LEMMA PlanRemindersKeeps ==
  ASSUME IInv, NEW w \in Worker, PlanReminders(w)
  PROVE  IInv'
<1> USE DEF IInv
<1>1. worker[w] # Idle /\ worker[w].event \in Event /\ event[worker[w].event].status # "absent"
  BY DEF PlanReminders, At, Duties, Fits
<1>2. Moved(w)
  <2>1. CASE Goto(w, "finish")
    BY <1>1, <2>1, EndsNext DEF PlanReminders
  <2>2. ASSUME NEW j \in Job,
               Read(w, "remind", [poll |-> j[1], job |-> j, version |-> poll[j[1]].version,
                                  silent |-> Member \ poll[j[1]].answered])
        PROVE  Moved(w)
    <3> DEFINE plan == [poll |-> j[1], job |-> j, version |-> poll[j[1]].version,
                        silent |-> Member \ poll[j[1]].answered]
    <3>1. plan \in Plan /\ plan.job[1] = plan.poll
      BY InitiativeAssumption DEF Plan, TypeOK
    <3> HIDE DEF plan
    <3>2. "remind" \in Step /\ plan \in Views
      BY <3>1 DEF Step, Views
    <3>3. /\ worker' \in [Worker -> WorkerRow] /\ Others(w)
          /\ worker'[w].event = worker[w].event /\ worker'[w].step = "remind"
          /\ worker'[w].view = plan
      BY <2>2, <3>2, ReadGoes DEF plan
    <3> QED
      BY <1>1, <3>1, <3>3, EventsStay DEF Moved, Fits, WorkTypeOK, PlanReminders
  <2> QED
    BY <2>1, <2>2 DEF PlanReminders
<1>3. TypeOK' /\ UNCHANGED <<case, initiative, poll, decision, reminded, batches,
                             touched, disruptions>>
  BY DEF PlanReminders, TypeOK, tableVars, reminderVars
<1> QED
  BY <1>2, <1>3, WorkerGoes

\* Each job reminds a resident once at most, and only one who is silent still.
Fair ==
  /\ reminded' \in [Poll \X Member -> Nat]
  /\ recent' \subseteq Poll \X Member /\ batches' \subseteq Job
  /\ Spared'
  /\ \A p \in Poll, r \in Member :
       reminded'[<<p, r>>] > reminded[<<p, r>>] =>
         poll[p].status = "open" /\ r \notin poll[p].answered /\ initiative.poll = p

LEMMA EnqueueIsFair ==
  ASSUME IInv, NEW w \in Worker, EnqueueReminders(w)
  PROVE  Fair
<1> USE DEF IInv
<1> DEFINE plan == worker[w].view
<1>1. plan \in Plan /\ plan.job[1] = plan.poll
  BY DEF EnqueueReminders, At, Duties, Fits
<1>2. plan.poll \in Poll /\ plan.job \in Job /\ plan.silent \subseteq Member
  BY <1>1 DEF Plan
<1>3. CASE UNCHANGED reminderVars
  <2>1. Spared'
    BY <1>3, RemindersStay DEF reminderVars
  <2> QED
    BY <1>3, <2>1 DEF Fair, reminderVars, TypeOK
<1>4. ASSUME NEW listed \in SUBSET StillSilent(plan), ~ CarriedOut(plan),
             LET told == {d \in {plan.poll} \X listed : reminded[d] < 2 /\ d \notin recent} IN
             /\ reminded' = [d \in DOMAIN reminded |->
                               IF d \in told THEN reminded[d] + 1 ELSE reminded[d]]
             /\ recent' = recent \cup told
             /\ batches' = IF StillSilent(plan) = {} THEN batches ELSE batches \cup {plan.job}
      PROVE  Fair
  <2> DEFINE told == {d \in {plan.poll} \X listed : reminded[d] < 2 /\ d \notin recent}
  <2>0. /\ reminded' = [d \in DOMAIN reminded |->
                          IF d \in told THEN reminded[d] + 1 ELSE reminded[d]]
        /\ recent' = recent \cup told
        /\ batches' = IF StillSilent(plan) = {} THEN batches ELSE batches \cup {plan.job}
    BY <1>4
  <2> HIDE DEF plan
  <2>1. \A r \in StillSilent(plan) : /\ r \in Member /\ r \notin poll[plan.poll].answered
                                     /\ poll[plan.poll].status = "open"
                                     /\ initiative.poll = plan.poll
    BY <1>2 DEF StillSilent
  <2>2. told \subseteq {plan.poll} \X StillSilent(plan) /\ told \subseteq Poll \X Member
    BY <1>2, <2>1 DEF told
  <2> HIDE DEF told
  <2>3. reminded \in [Poll \X Member -> Nat] /\ batches \subseteq Job /\ IsFiniteSet(batches)
    BY DEF TypeOK, Spared
  <2>4. reminded' \in [Poll \X Member -> Nat]
    BY <2>0, <2>3
  <2>5. recent' \subseteq Poll \X Member /\ batches' \subseteq Job
    BY <1>2, <2>0, <2>2, <2>3 DEF TypeOK
  <2>6. \A p \in Poll, r \in Member :
          IF <<p, r>> \in told THEN reminded'[<<p, r>>] = reminded[<<p, r>>] + 1
          ELSE reminded'[<<p, r>>] = reminded[<<p, r>>]
    BY <2>0, <2>3
  <2>7. \A p \in Poll, r \in Member :
          reminded'[<<p, r>>] > reminded[<<p, r>>] => p = plan.poll /\ r \in StillSilent(plan)
    <3> SUFFICES ASSUME NEW p \in Poll, NEW r \in Member,
                        reminded'[<<p, r>>] > reminded[<<p, r>>]
                 PROVE  p = plan.poll /\ r \in StillSilent(plan)
      OBVIOUS
    <3>1. reminded[<<p, r>>] \in Nat
      BY <2>3
    <3>2. <<p, r>> \in told
      BY <2>6, <3>1
    <3> QED
      BY <2>2, <3>2
  <2>8. Spared'
    <3>1. CASE StillSilent(plan) = {}
      <4>1. told = {}
        BY <2>2, <3>1
      <4>2. reminded' = reminded
        BY <2>0, <2>3, <2>4, <2>6, <4>1
      <4> QED
        BY <2>0, <3>1, <4>2, RemindersStay
    <3>2. CASE StillSilent(plan) # {}
      <4>1. batches' = batches \cup {plan.job} /\ plan.job \notin batches
        BY <1>4, <2>0, <3>2 DEF CarriedOut
      <4>2. IsFiniteSet(batches')
        BY <2>3, <4>1, FS_AddElement
      <4>3. ASSUME NEW p \in Poll, NEW r \in Member
            PROVE  reminded'[<<p, r>>] <= Cardinality(JobsOf(p)')
        <5>1. IsFiniteSet(JobsOf(p))
          BY <2>3, FS_Subset DEF JobsOf
        <5>2. Cardinality(JobsOf(p)) \in Nat /\ reminded[<<p, r>>] \in Nat
              /\ reminded[<<p, r>>] <= Cardinality(JobsOf(p))
          BY <2>3, <5>1, FS_CardinalityType DEF Spared
        <5>3. CASE p = plan.poll
          <6>1. JobsOf(p)' = JobsOf(p) \cup {plan.job} /\ plan.job \notin JobsOf(p)
            BY <1>1, <4>1, <5>3 DEF JobsOf, plan
          <6>2. Cardinality(JobsOf(p)') = Cardinality(JobsOf(p)) + 1
            BY <5>1, <6>1, FS_AddElement
          <6> QED
            BY <2>6, <5>2, <6>2
        <5>4. CASE p # plan.poll
          <6>1. JobsOf(p)' = JobsOf(p)
            BY <1>1, <4>1, <5>4 DEF JobsOf, plan
          <6>2. <<p, r>> \notin told
            BY <2>2, <5>4
          <6> QED
            BY <2>6, <5>2, <6>1, <6>2
        <5> QED
          BY <5>3, <5>4
      <4> QED
        BY <4>2, <4>3 DEF Spared
    <3> QED
      BY <3>1, <3>2
  <2> QED
    BY <2>1, <2>4, <2>5, <2>7, <2>8 DEF Fair
<1> QED
  BY <1>3, <1>4 DEF EnqueueReminders, View

LEMMA EnqueueRemindersKeeps ==
  ASSUME IInv, NEW w \in Worker, EnqueueReminders(w)
  PROVE  IInv'
<1> USE DEF IInv
<1>1. Moved(w)
  BY EndsNext DEF EnqueueReminders, At, Proceed
<1>2. UNCHANGED <<case, initiative, poll, decision, position, card, announced,
                  touched, disruptions>>
  BY DEF EnqueueReminders, tableVars
<1>3. TypeOK' /\ Spared'
  BY <1>2, EnqueueIsFair DEF Fair, TypeOK
<1> QED
  BY <1>1, <1>2, <1>3, TablesStay, WorkerKeeps

\* A worker that goes on to decide has read that its poll is the current one.
LEMMA ReadStateKeeps ==
  ASSUME IInv, NEW w \in Worker, ReadState(w)
  PROVE  IInv'
<1> USE DEF IInv
<1>1. worker[w] # Idle /\ worker[w].event \in Event /\ event[worker[w].event].status # "absent"
  BY DEF ReadState, At, Duties, Fits
<1>2. UNCHANGED <<case, initiative, poll, decision, reminded, batches, touched, disruptions>>
      /\ TypeOK'
  BY DEF ReadState, TypeOK, tableVars, reminderVars
<1>3. Moved(w)
  <2>1. CASE Raise(w)
    BY <1>1, <2>1, FinishReports, ReportedIsMoved
  <2>2. ASSUME NEW p \in Poll, worker[w].event = Expired(p), Read(w, "decide", p),
               UNCHANGED event
        PROVE  Moved(w)
    <3>1. poll[p].status = "closed"
      BY <1>1, <2>2 DEF Ended
    <3>2. "decide" \in Step /\ p \in Views
      BY DEF Step, Views
    <3>3. /\ worker' \in [Worker -> WorkerRow] /\ Others(w)
          /\ worker'[w].event = worker[w].event /\ worker'[w].step = "decide"
          /\ worker'[w].view = p
      BY <2>2, <3>2, ReadGoes
    <3> QED
      BY <1>1, <1>2, <2>2, <3>1, <3>3, EventsStay DEF Moved, Fits, WorkTypeOK
  <2> QED
    BY <2>1, <2>2 DEF ReadState, Subject
<1> QED
  BY <1>2, <1>3, WorkerGoes

\* The one who decides finds the initiative as it was, under the lock of its row.
LEMMA SaveDecisionKeeps ==
  ASSUME IInv, NEW w \in Worker, SaveDecision(w)
  PROVE  IInv'
<1> USE DEF IInv
<1> DEFINE p == worker[w].view
<1>1. /\ worker[w] # Idle /\ worker[w].event \in Event
      /\ event[worker[w].event].status # "absent"
      /\ p \in Poll /\ poll[p].status = "closed" /\ poll[p].outcome \in Outcomes
  BY DEF SaveDecision, At, Duties, Fits, Ended
<1>2. UNCHANGED <<initiative, poll, position, card, announced, reminded, recent, batches,
                  touched, disruptions>>
  BY DEF SaveDecision, reminderVars
<1>3. CASE Raise(w) /\ UNCHANGED <<case, decision>>
  <2>1. Moved(w)
    BY <1>1, <1>3, FinishReports, ReportedIsMoved
  <2> QED
    BY <1>2, <1>3, <2>1, WorkerGoes DEF TypeOK
<1>4. CASE /\ Goto(w, "position") /\ UNCHANGED event
           /\ \/ decision[p] # "none" /\ UNCHANGED <<case, decision>>
              \/ /\ decision[p] = "none" /\ MayDecide(p)
                 /\ decision' = [decision EXCEPT ![p] = poll[p].outcome]
                 /\ case' = [status |-> IF poll[p].outcome = "supported" THEN "request_ready"
                                        ELSE "not_supported",
                             version |-> case.version + 1]
  <2> HIDE DEF p
  <2>1. decision' \in [Poll -> Outcomes \cup {"none"}] /\ decision'[p] # "none"
    BY <1>1, <1>4 DEF TypeOK, Outcomes
  <2>2. TypeOK'
    BY <1>2, <1>4, <2>1 DEF TypeOK
  <2>3. Moved(w)
    <3>1. "position" \in Step /\ Nobody \in Views
      BY DEF Step, Views
    <3>2. /\ worker' \in [Worker -> WorkerRow] /\ Others(w)
          /\ worker'[w].event = worker[w].event /\ worker'[w].step = "position"
      BY <1>4, <3>1, ReadGoes DEF Goto
    <3> QED
      BY <1>1, <1>4, <2>1, <3>2, EventsStay DEF Moved, Fits, WorkTypeOK
  <2>4. CASE UNCHANGED <<case, decision>>
    BY <1>2, <2>2, <2>3, <2>4, WorkerGoes
  <2>5. CASE /\ decision[p] = "none" /\ MayDecide(p)
             /\ decision' = [decision EXCEPT ![p] = poll[p].outcome]
             /\ case' = [status |-> IF poll[p].outcome = "supported" THEN "request_ready"
                                    ELSE "not_supported",
                         version |-> case.version + 1]
    <3>1. initiative.poll = p /\ case.status = "collecting"
      BY <2>5 DEF MayDecide
    <3>2. \A q \in Poll : decision[q] = "none" /\ poll[q].status # "open"
      BY <1>1, <3>1 DEF OnlyCurrentPollIsOpen, DecidedByCurrentWording
    <3>3. /\ \A q \in Poll : q # p => decision'[q] = "none"
          /\ decision'[p] = poll[p].outcome
          /\ case'.status = IF decision'[p] = "supported" THEN "request_ready" ELSE "not_supported"
      BY <1>1, <2>5, <3>2 DEF TypeOK
    <3>4. Lasting /\ Fresh' /\ OnlyCurrentPollIsOpen' /\ DecidedByCurrentWording'
      BY <1>1, <1>2, <3>1, <3>2, <3>3
      DEF Lasting, Fresh, OnlyCurrentPollIsOpen, DecidedByCurrentWording
    <3> QED
      BY <1>2, <2>2, <2>3, <3>4, RemindersStay, WorkerKeeps
  <2> QED
    BY <1>4, <2>4, <2>5
<1> QED
  BY <1>3, <1>4 DEF SaveDecision, Transaction, View

LEMMA LastStepsKeep ==
  ASSUME IInv, NEW w \in Worker, PreparePosition(w) \/ FinishEvent(w)
  PROVE  IInv'
<1> USE DEF IInv
<1>1. worker[w] # Idle
  BY DEF PreparePosition, FinishEvent, At
<1>2. CASE PreparePosition(w)
  <2>1. Moved(w)
    BY <1>1, <1>2, EndsNext DEF PreparePosition, Proceed
  <2>2. initiative.poll \in Poll
    BY <1>2 DEF PreparePosition, At, Duties, Fits, DecidedByCurrentWording
  <2>3. TypeOK' /\ UNCHANGED <<case, initiative, poll, decision, reminded, batches,
                               touched, disruptions>>
    BY <1>2, <2>2 DEF PreparePosition, PositionOf, TypeOK, reminderVars
  <2> QED
    BY <2>1, <2>3, WorkerGoes
<1>3. CASE FinishEvent(w)
  <2>1. Moved(w)
    BY <1>1, <1>3, FinishReports, ReportedIsMoved DEF FinishEvent
  <2>2. TypeOK' /\ UNCHANGED <<case, initiative, poll, decision, reminded, batches,
                               touched, disruptions>>
    BY <1>3 DEF FinishEvent, TypeOK, tableVars, reminderVars
  <2> QED
    BY <2>1, <2>2, WorkerGoes
<1> QED
  BY <1>2, <1>3

-----------------------------------------------------------------------------
(* The invariant *)

LEMMA InitKeeps ==
  ASSUME Init
  PROVE  IInv
<1>1. Unopened.status = "none" /\ Unopened \in
        [status : {"none", "open", "closed", "cancelled"}, outcome : Outcomes \cup {"none"},
         version : Nat, answered : SUBSET Member]
  BY DEF Unopened
<1>2. TypeOK
  BY <1>1 DEF Init, TypeOK
<1>3. Absent \in EventRow /\ [Absent EXCEPT !.status = "pending", !.about = 1] \in EventRow
  BY DEF Absent, EventRow
<1>4. WorkTypeOK
  BY <1>3, IdleIsRow, WorkAssumption, InitiativeAssumption DEF Init, WorkTypeOK
<1>5. \A p \in Poll : event[Expired(p)].status = "absent"
  BY Events, InitiativeAssumption DEF Init, Absent, Poll
<1>6. Fresh /\ Ended /\ OnlyCurrentPollIsOpen /\ DecidedByCurrentWording
  BY <1>1, <1>5 DEF Init, Fresh, Ended, OnlyCurrentPollIsOpen, DecidedByCurrentWording
<1>7. Duties
  BY DEF Init, Duties, Fits
<1>8. Spared
  <2>1. IsFiniteSet({}) /\ Cardinality({}) = 0
    BY FS_EmptySet
  <2>2. batches = {} /\ \A p \in Poll : JobsOf(p) = {}
    BY DEF Init, JobsOf
  <2>3. \A p \in Poll, r \in Member : reminded[<<p, r>>] = 0
    BY DEF Init
  <2>4. \A p \in Poll : Cardinality(JobsOf(p)) = 0
    BY <2>1, <2>2
  <2> QED
    BY <2>1, <2>2, <2>3, <2>4 DEF Spared
<1> QED
  BY <1>2, <1>4, <1>6, <1>7, <1>8 DEF IInv

LEMMA WorkKeeps ==
  ASSUME IInv, NEW w \in Worker, Work(w)
  PROVE  IInv'
BY HandleDetectedKeeps, ReadInitiativeKeeps, ReplacePollKeeps, PlanRemindersKeeps,
   EnqueueRemindersKeeps, ReadStateKeeps, SaveDecisionKeeps, LastStepsKeep DEF Work

LEMMA NextKeeps ==
  ASSUME IInv, [Next]_vars
  PROVE  IInv'
<1>1. CASE Environment
  BY <1>1, EnvironmentKeeps
<1>2. ASSUME NEW p \in Poll, PollIsOver(p) PROVE IInv'
  BY <1>2, PollEndsKeeps DEF PollIsOver
<1>3. ASSUME NEW w \in Worker, Work(w) PROVE IInv'
  BY <1>3, WorkKeeps
<1>4. CASE ClaimEvent
  BY <1>4, ClaimKeeps
<1>5. ASSUME NEW k \in Revision, HandleRevised(k) PROVE IInv'
  BY <1>5, HandleRevisedKeeps
<1>6. CASE Disturb /\ UNCHANGED <<tableVars, reminderVars, touched>>
  BY <1>6, DisturbKeeps
<1>7. CASE UNCHANGED vars
  <2>1. TypeOK' /\ WorkTypeOK'
    BY <1>7 DEF IInv, TypeOK, WorkTypeOK, vars, tableVars, reminderVars, workVars
  <2>2. UNCHANGED <<case, initiative, poll, decision, reminded, batches, event, worker>>
    BY <1>7 DEF vars, tableVars, reminderVars, workVars
  <2> QED
    BY <2>1, <2>2, TablesStay, RemindersStay, EventsStay, Together
<1> QED
  BY <1>1, <1>2, <1>3, <1>4, <1>5, <1>6, <1>7 DEF Next

\* The rows of an initiative, and what each worker has read of them, agree.
THEOREM InitiativeInvariant == Spec => []IInv
BY InitKeeps, NextKeeps, PTL DEF Spec

\* Every row is well formed, with a position only for a poll the initiative had.
THEOREM TypeCorrect == Spec => []TypeOK
<1>1. IInv => TypeOK
  BY DEF IInv
<1> QED
  BY <1>1, InitiativeInvariant, PTL

\* Only the wording that is shown can be voted on, and only while it is not
\* decided: cancel_atomic and save_decision_once compare under the lock.
THEOREM OneWordingIsVotedOn == Spec => []OnlyCurrentPollIsOpen
<1>1. IInv => OnlyCurrentPollIsOpen
  BY DEF IInv
<1> QED
  BY <1>1, InitiativeInvariant, PTL

\* A decision is the outcome of the poll on the wording that stands.
THEOREM WordingIsDecided == Spec => []DecidedByCurrentWording
<1>1. IInv => DecidedByCurrentWording
  BY DEF IInv
<1> QED
  BY <1>1, InitiativeInvariant, PTL

\* Nobody is reminded of a poll he has answered, or that is over or replaced,
\* and no job reminds a resident twice, though its event is handled again.
THEOREM RemindersAreFair == Spec => OnlySilentAreReminded
<1>1. IInv /\ [Next]_vars =>
        [\A p \in Poll, r \in Member :
           reminded'[<<p, r>>] > reminded[<<p, r>>] =>
             /\ poll[p].status = "open" /\ r \notin poll[p].answered /\ initiative.poll = p
             /\ reminded'[<<p, r>>] <= Cardinality({j \in batches' : j[1] = p})]_vars
  <2> SUFFICES ASSUME IInv, Next, NEW p \in Poll, NEW r \in Member,
                      reminded'[<<p, r>>] > reminded[<<p, r>>]
               PROVE  /\ poll[p].status = "open" /\ r \notin poll[p].answered
                      /\ initiative.poll = p
                      /\ reminded'[<<p, r>>] <= Cardinality({j \in batches' : j[1] = p})
    OBVIOUS
  <2>1. CASE \E w \in Worker : EnqueueReminders(w)
    BY <2>1, EnqueueIsFair DEF Fair, Spared, JobsOf
  <2>2. CASE UNCHANGED reminded
    BY <2>2 DEF IInv, TypeOK
  <2>3. Next => (\E w \in Worker : EnqueueReminders(w)) \/ UNCHANGED reminded
    BY DEF Next, Environment, Answer, SendRevision, ReminderDue, Rest, Touch, PollIsOver,
           PollEnds, Work, HandleDetected, ReadInitiative, ReplacePoll, PlanReminders,
           ReadState, SaveDecision, PreparePosition, FinishEvent, ClaimEvent, HandleRevised,
           reminderVars
  <2> QED
    BY <2>1, <2>2, <2>3
<1> QED
  BY <1>1, InitiativeInvariant, PTL DEF Spec, OnlySilentAreReminded

-----------------------------------------------------------------------------
(* One assembly *)

\* An initiative that is collecting has a wording on the table, and its poll has
\* been opened and not been cancelled.
Tabled ==
  case.status = "collecting" =>
    initiative.poll \in Poll /\ poll[initiative.poll].status \in {"open", "closed"}

\* A step of the assembly, or one that it does not see.
Sitting == Assembly!Next \/ UNCHANGED Assembly!vars

LEMMA NothingHappens ==
  ASSUME UNCHANGED <<initiative, poll, reminded, position>>, case'.status = case.status
  PROVE  Sitting /\ (Tabled => Tabled')
BY DEF Sitting, Assembly!vars, VoteOf, Tabled

\* What becomes of the votes when the row of one poll is written.
LEMMA VoteChanges ==
  ASSUME IInv, NEW p \in Poll, NEW row, poll' = [poll EXCEPT ![p] = row],
         NEW result, result = IF row.status = "closed" THEN row.outcome ELSE row.status
  PROVE  /\ poll'[p] = row
         /\ [q \in Poll |-> VoteOf(q)]' = [[q \in Poll |-> VoteOf(q)] EXCEPT ![p] = result]
<1>1. poll'[p] = row /\ \A q \in Poll : q # p => poll'[q] = poll[q]
  BY DEF IInv, TypeOK
<1>2. /\ VoteOf(p)' = result
      /\ \A q \in Poll : q # p => VoteOf(q)' = VoteOf(q)
  BY <1>1 DEF VoteOf
<1> QED
  BY <1>1, <1>2

LEMMA AnswerSits ==
  ASSUME IInv, Tabled, NEW p \in Poll, NEW r \in Member, Answer(p, r)
  PROVE  Sitting /\ Tabled'
<1> DEFINE row == [poll[p] EXCEPT !.answered = @ \cup {r}, !.version = @ + 1]
<1>1. initiative.poll = p /\ case.status = "collecting" /\ poll[p].status = "open"
  BY DEF IInv, OnlyCurrentPollIsOpen, Answer
<1>2. poll' = [poll EXCEPT ![p] = row]
  BY DEF Answer, IInv, TypeOK
<1>3. row.status = "open" /\ row.answered = poll[p].answered \cup {r}
  BY <1>1 DEF IInv, TypeOK
<1> HIDE DEF row
<1>4. /\ poll'[p] = row
      /\ [q \in Poll |-> VoteOf(q)]' = [[q \in Poll |-> VoteOf(q)] EXCEPT ![p] = "open"]
  BY <1>2, <1>3, VoteChanges
<1>5. VoteOf(p) = "open" /\ [q \in Poll |-> VoteOf(q)]' = [q \in Poll |-> VoteOf(q)]
  BY <1>1, <1>4 DEF VoteOf
<1>6. p # Nobody /\ initiative' = initiative /\ UNCHANGED <<case, reminded, position>>
      /\ r \notin poll[p].answered
  BY InitiativeAssumption DEF Answer, reminderVars
<1>7. Assembly!Answer(r)
  BY <1>1, <1>3, <1>4, <1>5, <1>6 DEF Assembly!Answer, Assembly!Voting
<1>8. Tabled'
  BY <1>1, <1>3, <1>4, <1>6 DEF Tabled
<1> QED
  BY <1>7, <1>8 DEF Sitting, Assembly!Next

LEMMA EndSits ==
  ASSUME IInv, Tabled, NEW p \in Poll, NEW outcome \in Outcomes, PollEnds(p, outcome)
  PROVE  Sitting /\ Tabled'
<1>1. initiative.poll = p /\ case.status = "collecting" /\ poll[p].status = "open"
  BY DEF IInv, OnlyCurrentPollIsOpen, PollEnds
<1>2. /\ Over("closed", outcome).status = "closed" /\ Over("closed", outcome).outcome = outcome
      /\ Over("closed", outcome).answered = {}
  BY DEF Over, Unopened
<1>3. /\ poll'[p] = Over("closed", outcome)
      /\ [q \in Poll |-> VoteOf(q)]' = [[q \in Poll |-> VoteOf(q)] EXCEPT ![p] = outcome]
  BY <1>2, VoteChanges DEF PollEnds
<1>4. p # Nobody /\ UNCHANGED <<initiative, case, reminded, position>>
      /\ (outcome = "supported" => poll[p].answered # {}) /\ VoteOf(p) = "open"
  BY <1>1, InitiativeAssumption DEF PollEnds, reminderVars, VoteOf
<1>5. Assembly!End(outcome)
  BY <1>1, <1>2, <1>3, <1>4 DEF Assembly!End, Assembly!Voting
<1>6. Tabled'
  BY <1>1, <1>2, <1>3, <1>4 DEF Tabled
<1> QED
  BY <1>5, <1>6 DEF Sitting, Assembly!Next, Assembly!Outcome, Outcomes

LEMMA OpeningSits ==
  ASSUME IInv, Tabled, NEW w \in Worker, HandleDetected(w)
  PROVE  Sitting /\ Tabled'
<1>1. UNCHANGED <<reminded, position>>
  BY DEF HandleDetected, reminderVars
<1>2. CASE UNCHANGED <<case, initiative, poll>>
  BY <1>1, <1>2, NothingHappens
<1>3. CASE case.status = "detected" /\ case' = [status |-> "not_supported", version |-> case.version + 1]
           /\ UNCHANGED <<initiative, poll>>
  <2>1. Assembly!AskNobody
    BY <1>1, <1>3 DEF Assembly!AskNobody, VoteOf
  <2> QED
    BY <1>3, <2>1 DEF Sitting, Assembly!Next, Tabled
<1>4. CASE /\ case.status = "detected"
           /\ case' = [status |-> "collecting", version |-> case.version + 1]
           /\ initiative' = [poll |-> Detected, revision |-> 1, version |-> case.version + 1]
           /\ poll' = [poll EXCEPT ![Detected] = Opened]
  <2>1. Detected \in Poll /\ Detected # Nobody
    BY InitiativeAssumption DEF Poll
  <2>2. Opened.status = "open" /\ Opened.answered = {}
    BY DEF Opened, Unopened
  <2>3. /\ poll'[Detected] = Opened
        /\ [q \in Poll |-> VoteOf(q)]' = [[q \in Poll |-> VoteOf(q)] EXCEPT ![Detected] = "open"]
    <3>1. "open" = IF Opened.status = "closed" THEN Opened.outcome ELSE Opened.status
      BY <2>2
    <3>2. poll' = [poll EXCEPT ![Detected] = Opened]
      BY <1>4
    <3> QED
      BY <2>1, <3>1, <3>2, VoteChanges
  <2>4. VoteOf(Detected) = "none"
    BY <1>4, <2>1 DEF VoteOf, IInv, Fresh
  <2>5. case'.status = "collecting" /\ initiative'.poll = Detected
    BY <1>4
  <2>6. Assembly!Begin
    BY <1>1, <1>4, <2>1, <2>2, <2>3, <2>4, <2>5 DEF Assembly!Begin, Assembly!Table
  <2> QED
    BY <2>1, <2>2, <2>3, <2>5, <2>6 DEF Sitting, Assembly!Next, Tabled
<1> QED
  BY <1>2, <1>3, <1>4 DEF HandleDetected, Transaction, OpenInitiative

LEMMA VotesRevised ==
  ASSUME IInv, NEW k \in Poll, NEW old \in Poll, k # old, poll[k].status = "none",
         poll[old].status \in {"open", "closed"},
         poll' = [poll EXCEPT ![old] = IF @.status = "open" THEN Over("cancelled", "none") ELSE @,
                              ![k] = Opened]
  PROVE  /\ poll'[k] = Opened /\ VoteOf(k) = "none"
         /\ [q \in Poll |-> VoteOf(q)]' =
              [[q \in Poll |-> VoteOf(q)] EXCEPT ![old] = IF @ = "open" THEN "cancelled" ELSE @,
                                                 ![k] = "open"]
<1> DEFINE row == IF poll[old].status = "open" THEN Over("cancelled", "none") ELSE poll[old]
<1>1. poll'[k] = Opened /\ poll'[old] = row /\ \A q \in Poll : q \notin {k, old} => poll'[q] = poll[q]
  <2>1. poll' = [[poll EXCEPT ![old] = row] EXCEPT ![k] = Opened] /\ DOMAIN poll = Poll
    BY DEF IInv, TypeOK
  <2> HIDE DEF row
  <2> QED
    BY <2>1
<1>2. VoteOf(old)' = IF VoteOf(old) = "open" THEN "cancelled" ELSE VoteOf(old)
  <2>1. CASE poll[old].status = "open"
    <3>1. Over("cancelled", "none").status = "cancelled"
      BY DEF Over, Unopened
    <3>2. poll'[old].status = "cancelled"
      BY <1>1, <2>1, <3>1
    <3> QED
      BY <2>1, <3>2 DEF VoteOf
  <2>2. CASE poll[old].status = "closed"
    <3>1. poll'[old] = poll[old] /\ poll[old].outcome # "open"
      BY <1>1, <2>2 DEF IInv, Ended, Outcomes
    <3> QED
      BY <2>2, <3>1 DEF VoteOf
  <2> QED
    BY <2>1, <2>2
<1>3. /\ VoteOf(k)' = "open" /\ VoteOf(k) = "none"
      /\ \A q \in Poll : q \notin {k, old} => VoteOf(q)' = VoteOf(q)
  <2>1. Opened.status = "open"
    BY DEF Opened, Unopened
  <2>2. poll'[k].status = "open"
    BY <1>1, <2>1
  <2>3. ASSUME NEW q \in Poll, q \notin {k, old}
        PROVE  VoteOf(q)' = VoteOf(q)
    <3>1. poll'[q] = poll[q]
      BY <1>1, <2>3
    <3> QED
      BY <3>1 DEF VoteOf
  <2>4. VoteOf(k)' = "open" /\ VoteOf(k) = "none"
    BY <2>2 DEF VoteOf
  <2> QED
    BY <2>3, <2>4
<1> QED
  BY <1>1, <1>2, <1>3

LEMMA RevisionSits ==
  ASSUME IInv, Tabled, NEW w \in Worker, ReplacePoll(w)
  PROVE  Sitting /\ Tabled'
<1>1. worker[w].event \in Revision
  BY DEF ReplacePoll, At, IInv, Duties, Fits
<1>2. PICK k \in Revision : k = worker[w].event
  BY <1>1
<1>3. UNCHANGED <<reminded, position>>
  BY DEF ReplacePoll, reminderVars
<1>4. CASE UNCHANGED <<case, initiative, poll>>
  BY <1>3, <1>4, NothingHappens
<1>5. CASE /\ poll[k].status = "none" /\ case.status = "collecting"
           /\ poll' = [poll EXCEPT ![initiative.poll] =
                         IF @.status = "open" THEN Over("cancelled", "none") ELSE @,
                                   ![k] = Opened]
           /\ initiative' = [poll |-> k, revision |-> initiative.revision + 1,
                             version |-> initiative.version + 1]
           /\ case' = [case EXCEPT !.version = initiative.version + 1]
  <2>1. PICK old \in Poll : old = initiative.poll /\ poll[old].status \in {"open", "closed"}
    BY <1>5 DEF Tabled
  <2>2. k \in Poll /\ k # Nobody /\ k # old
    BY <1>5, <2>1, InitiativeAssumption DEF Poll
  <2>3. Opened.status = "open" /\ Opened.answered = {}
    BY DEF Opened, Unopened
  <2>4. /\ poll'[k] = Opened /\ VoteOf(k) = "none"
        /\ [q \in Poll |-> VoteOf(q)]' =
             [[q \in Poll |-> VoteOf(q)] EXCEPT ![old] = IF @ = "open" THEN "cancelled" ELSE @,
                                                ![k] = "open"]
    <3>1. poll' = [poll EXCEPT ![old] = IF @.status = "open" THEN Over("cancelled", "none") ELSE @,
                               ![k] = Opened]
      BY <1>5, <2>1
    <3> QED
      BY <1>5, <2>1, <2>2, <3>1, VotesRevised
  <2>5. initiative'.poll = k /\ case'.status = case.status
    BY <1>5 DEF IInv, TypeOK
  <2>6. Assembly!Revise(k)
    BY <1>3, <1>5, <2>1, <2>2, <2>3, <2>4, <2>5 DEF Assembly!Revise, Assembly!Table
  <2>7. Tabled'
    BY <2>2, <2>3, <2>4, <2>5 DEF Tabled
  <2> QED
    BY <2>6, <2>7 DEF Sitting, Assembly!Next
<1> QED
  BY <1>2, <1>4, <1>5 DEF ReplacePoll, MayReplace, Known, Replaced, Announced, Subject

LEMMA ReminderSits ==
  ASSUME IInv, Tabled, NEW w \in Worker, EnqueueReminders(w)
  PROVE  Sitting /\ Tabled'
<1> DEFINE plan == worker[w].view
<1>1. UNCHANGED <<case, initiative, poll, position>>
  BY DEF EnqueueReminders, tableVars
<1>2. CASE UNCHANGED reminded
  BY <1>1, <1>2, NothingHappens
<1>3. ASSUME NEW chosen \in SUBSET StillSilent(plan), StillSilent(plan) # {},
             reminded' = [d \in DOMAIN reminded |->
               IF d \in {d2 \in {plan.poll} \X chosen : reminded[d2] < 2 /\ d2 \notin recent}
               THEN reminded[d] + 1 ELSE reminded[d]]
      PROVE  Assembly!Next
  <2> DEFINE silent == {r \in chosen : reminded[<<plan.poll, r>>] < 2
                                          /\ <<plan.poll, r>> \notin recent}
  <2>1. plan \in Plan
    BY DEF EnqueueReminders, At, IInv, Duties, Fits
  <2>2. /\ poll[plan.poll].status = "open" /\ initiative.poll = plan.poll /\ plan.poll \in Poll
        /\ plan.poll # Nobody
        /\ chosen \subseteq Member /\ \A r \in chosen : r \notin poll[plan.poll].answered
    BY <1>3, <2>1, InitiativeAssumption DEF StillSilent, Plan
  <2>3. case.status = "collecting" /\ VoteOf(plan.poll) = "open"
    BY <2>2 DEF IInv, OnlyCurrentPollIsOpen, VoteOf
  <2>4. silent \in SUBSET Member /\ Assembly!Wording = Poll
    BY <2>2 DEF Assembly!Wording, Poll
  <2>5. DOMAIN reminded = Poll \X Member
    BY DEF IInv, TypeOK
  <2> HIDE DEF plan
  <2>6. \A d \in Poll \X Member :
          d \in {d2 \in {plan.poll} \X chosen : reminded[d2] < 2 /\ d2 \notin recent}
            <=> d \in {plan.poll} \X silent
    OBVIOUS
  <2>7. reminded' = [d \in Poll \X Member |->
                       IF d \in {plan.poll} \X silent THEN reminded[d] + 1 ELSE reminded[d]]
    <3> HIDE DEF silent
    <3> QED
      BY <1>3, <2>5, <2>6
  <2>8. \A r \in silent : r \notin poll[plan.poll].answered /\ reminded[<<plan.poll, r>>] < 2
    BY <2>2
  <2> HIDE DEF silent
  <2>9. UNCHANGED [q \in Poll |-> VoteOf(q)]
    BY <1>1 DEF VoteOf
  <2>10. Assembly!Remind(silent)
    BY <1>1, <2>2, <2>3, <2>4, <2>7, <2>8, <2>9 DEF Assembly!Remind, Assembly!Voting
  <2> QED
    BY <2>4, <2>10 DEF Assembly!Next
<1>4. CASE ~ UNCHANGED reminded
  <2>1. PICK chosen \in SUBSET StillSilent(plan) :
          reminded' = [d \in DOMAIN reminded |->
            IF d \in {d2 \in {plan.poll} \X chosen : reminded[d2] < 2 /\ d2 \notin recent}
            THEN reminded[d] + 1 ELSE reminded[d]]
    BY <1>4 DEF EnqueueReminders, View, reminderVars
  <2>2. StillSilent(plan) # {}
    <3> SUFFICES ASSUME StillSilent(plan) = {} PROVE FALSE
      OBVIOUS
    <3>1. chosen = {}
      OBVIOUS
    <3>2. reminded' = [d \in DOMAIN reminded |-> reminded[d]]
      <4> HIDE DEF plan
      <4> QED
        BY <2>1, <3>1
    <3>3. reminded \in [Poll \X Member -> Nat]
      BY DEF IInv, TypeOK
    <3> QED
      BY <1>4, <3>2, <3>3
  <2> QED
    BY <1>1, <1>3, <2>1, <2>2 DEF Sitting, Tabled
<1> QED
  BY <1>2, <1>4

LEMMA DecisionSits ==
  ASSUME IInv, Tabled, NEW w \in Worker, SaveDecision(w)
  PROVE  Sitting /\ Tabled'
<1> DEFINE p == worker[w].view
<1>1. UNCHANGED <<initiative, poll, reminded, position>>
  BY DEF SaveDecision, reminderVars
<1>2. p \in Poll /\ poll[p].status = "closed" /\ poll[p].outcome \in Outcomes
  BY DEF SaveDecision, At, IInv, Duties, Fits, Ended
<1>3. CASE UNCHANGED case
  BY <1>1, <1>3, NothingHappens
<1>4. CASE /\ MayDecide(p)
           /\ case' = [status |-> IF poll[p].outcome = "supported" THEN "request_ready"
                                  ELSE "not_supported",
                       version |-> case.version + 1]
  <2> HIDE DEF p
  <2>1. VoteOf(p) = poll[p].outcome /\ UNCHANGED [q \in Poll |-> VoteOf(q)]
    BY <1>1, <1>2 DEF VoteOf
  <2>2. Assembly!Decide
    BY <1>1, <1>2, <1>4, <2>1 DEF Assembly!Decide, Assembly!Outcome, Outcomes, MayDecide
  <2> QED
    BY <1>4, <2>2 DEF Sitting, Assembly!Next, Tabled
<1> QED
  BY <1>3, <1>4 DEF SaveDecision, Transaction, View

LEMMA PositionSits ==
  ASSUME IInv, Tabled, NEW w \in Worker, PreparePosition(w)
  PROVE  Sitting /\ Tabled'
<1>1. /\ UNCHANGED <<case, initiative, poll, reminded>>
      /\ position' = position \cup {initiative.poll}
  BY DEF PreparePosition, PositionOf, reminderVars
<1>2. PICK p \in Poll : decision[p] # "none"
  BY DEF PreparePosition, At, IInv, Duties, Fits
<1>3. /\ initiative.poll = p /\ poll[p].status = "closed" /\ poll[p].outcome \in Outcomes
      /\ case.status # "collecting"
  BY <1>2 DEF IInv, DecidedByCurrentWording, TypeOK
<1>4. VoteOf(p) = poll[p].outcome /\ UNCHANGED [q \in Poll |-> VoteOf(q)]
  BY <1>1, <1>3 DEF VoteOf
<1>5. Assembly!WriteDown
  BY <1>1, <1>2, <1>3, <1>4
  DEF Assembly!WriteDown, Assembly!Wording, Assembly!Outcome, Outcomes, Poll
<1> QED
  BY <1>1, <1>3, <1>5 DEF Sitting, Assembly!Next, Tabled

LEMMA NextSits ==
  ASSUME IInv, Tabled, [Next]_vars
  PROVE  Sitting /\ Tabled'
<1>1. ASSUME NEW p \in Poll, PollIsOver(p) PROVE Sitting /\ Tabled'
  BY <1>1, EndSits DEF PollIsOver
<1>2. ASSUME NEW w \in Worker, Work(w) PROVE Sitting /\ Tabled'
  <2>1. CASE ReadInitiative(w) \/ PlanReminders(w) \/ ReadState(w) \/ FinishEvent(w)
    BY <2>1, NothingHappens DEF ReadInitiative, PlanReminders, ReadState, FinishEvent,
       tableVars, reminderVars
  <2> QED
    BY <1>2, <2>1, OpeningSits, RevisionSits, ReminderSits, DecisionSits, PositionSits DEF Work
<1>3. CASE Environment
  <2>1. ASSUME Touch PROVE case'.status = case.status
    BY <2>1 DEF Touch, IInv, TypeOK
  <2>2. CASE ~ \E p \in Poll, r \in Member : Answer(p, r)
    BY <1>3, <2>1, <2>2, NothingHappens DEF Environment, SendRevision, ReminderDue, Rest, Touch,
       tableVars, reminderVars
  <2> QED
    BY <2>2, AnswerSits
<1>4. CASE \/ ClaimEvent \/ \E k \in Revision : HandleRevised(k)
           \/ Disturb /\ UNCHANGED <<tableVars, reminderVars, touched>>
           \/ UNCHANGED vars
  BY <1>4, NothingHappens DEF ClaimEvent, HandleRevised, vars, tableVars, reminderVars
<1> QED
  BY <1>1, <1>2, <1>3, <1>4 DEF Next

\* Every step of residents, author, jobs, polls and workers is one step of the
\* assembly or none, for any revisions, residents, reminders, retries and workers.
THEOREM InitiativesImplementProposal == Spec => ImplementsProposal
<1>1. Init => Assembly!Init /\ Tabled
  <2> SUFFICES ASSUME Init PROVE Assembly!Init /\ Tabled
    OBVIOUS
  <2>1. \A p \in Poll : VoteOf(p) = "none"
    BY DEF Init, VoteOf, Unopened
  <2> QED
    BY <2>1 DEF Init, Assembly!Init, Assembly!Wording, Poll, Tabled
<1>2. IInv /\ Tabled /\ [Next]_vars => [Assembly!Next]_(Assembly!vars) /\ Tabled'
  BY NextSits DEF Sitting
<1> QED
  BY <1>1, <1>2, InitiativeInvariant, PTL DEF Spec, Assembly!Spec, ImplementsProposal

-----------------------------------------------------------------------------
(***************************************************************************)
(* A user of MAX is one resident, and the answers to a code are true, for  *)
(* any users, residents, invitations, updates, workers and faults.         *)
(*                                                                         *)
(* The index makes the links injective, and a link is never changed: a     *)
(* worker writes one only while it holds the lock of its resident, under   *)
(* which it has seen that nobody else is linked.  So what was accepted     *)
(* stays so, and what was denied is denied for ever.                       *)
(***************************************************************************)

(* The invariant *)

\* Residents have at most one user each, and users one resident.
Linked ==
  /\ link \in [Resident -> User \cup {None}]
  /\ \A r, s \in Resident : link[r] = link[s] /\ link[r] # None => r = s
  /\ \A i \in used : i \in Invitation /\ link[ResidentOf[i]] # None

\* The poller holds a stretch of the feed, in which codes were issued.
Fed ==
  /\ feed \in Seq(Update)
  /\ \A n \in 1..Len(feed) : feed[n].kind = "code" => feed[n].invitation \in issued
  /\ confirmed \in Nat
  /\ poller \in [step : {"idle", "fetched", "saved"}, marker : Nat, batch : SUBSET Nat]
  /\ poller.step # "idle" =>
       \E a, b \in Nat : a < b /\ b <= Len(feed) /\ poller.batch = (a + 1)..b

UpdateRow == [status : {"absent", "pending", "processing", "settled"}, attempts : Nat,
             owner : Worker \cup {Nobody}, about : {Nobody} \cup Update]

\* An event carries the update it is named after.
Inboxed ==
  /\ event \in [Key -> UpdateRow]
  /\ \A n \in Key : event[n].status # "absent" =>
       n \in 1..Len(feed) /\ event[n].about = feed[n]

\* A code that links nobody to its user any more.
Lost(x) ==
  \/ Lapsed(x.invitation)
  \/ link[ResidentOf[x.invitation]] \notin {None, x.user}
  \/ \E s \in Resident \ {ResidentOf[x.invitation]} : link[s] = x.user

Accepted(x) == x.invitation \in used /\ link[ResidentOf[x.invitation]] = x.user

Verdict(x, answer) ==
  /\ x.kind = "code"
  /\ \/ answer = "accepted" /\ Accepted(x)
     \/ answer = "denied" /\ Lost(x)

Answered ==
  \A a \in answers : a[1] \in 1..Len(feed) /\ Verdict(feed[a[1]], a[2])

HandlerRow == [event : Key \cup {Nobody}, step : {"start", "linking", "send", "end"},
              view : {Nobody, "accepted", "denied"}]

\* Between the two halves of redeem_invitation a worker has the lock of the
\* resident and has seen it without a user, or with this one.
Holding(w) == worker[w] # Idle /\ worker[w].step = "linking"

\* What a worker knows of the update it is at.
Knows(w) ==
  /\ worker[w] # Idle =>
       worker[w].event \in Key /\ event[worker[w].event].status # "absent"
  /\ Holding(w) =>
       /\ event[worker[w].event].about.kind = "code"
       /\ link[ResidentOf[event[worker[w].event].about.invitation]]
            \in {None, event[worker[w].event].about.user}
  /\ worker[w] # Idle /\ worker[w].step = "send" /\ worker[w].view # Nobody =>
       Verdict(event[worker[w].event].about, worker[w].view)

OneLock ==
  \A v, w \in Worker :
    /\ Holding(v) /\ Holding(w)
    /\ ResidentOf[event[worker[v].event].about.invitation] =
         ResidentOf[event[worker[w].event].about.invitation]
    => v = w

Handling ==
  /\ worker \in [Worker -> HandlerRow]
  /\ \A w \in Worker : Knows(w)
  /\ OneLock

EnrollmentInv == Linked /\ Fed /\ Inboxed /\ Answered /\ Handling

-----------------------------------------------------------------------------
(* What every step leaves as it was *)

\* Links are never changed, and what was used, over, left or fed stays so.
Steady ==
  /\ \A r \in Resident : link[r] # None => link'[r] = link[r]
  /\ used \subseteq used' /\ over \subseteq over' /\ left \subseteq left'

Remembered ==
  /\ Len(feed) <= Len(feed') /\ \A n \in 1..Len(feed) : feed'[n] = feed[n]
  /\ \A n \in Key : event[n].status # "absent" =>
       event'[n].status # "absent" /\ event'[n].about = event[n].about

LEMMA VerdictsStay ==
  ASSUME Linked, Steady, NEW x \in Update, NEW answer, Verdict(x, answer)
  PROVE  Verdict(x, answer)'
<1>1. /\ x.user \in User /\ x.user # None
      /\ x.invitation \in Invitation /\ ResidentOf[x.invitation] \in Resident
  BY InvitationAssumption DEF Verdict
<1>2. Accepted(x) => Accepted(x)'
  BY <1>1 DEF Accepted, Steady
<1>3. Lost(x) => Lost(x)'
  <2>1. CASE Lapsed(x.invitation)
    BY <2>1 DEF Lost, Lapsed, Steady
  <2>2. CASE link[ResidentOf[x.invitation]] \notin {None, x.user}
    BY <1>1, <2>2 DEF Lost, Steady
  <2>3. CASE \E s \in Resident \ {ResidentOf[x.invitation]} : link[s] = x.user
    BY <1>1, <2>3 DEF Lost, Steady
  <2> QED
    BY <2>1, <2>2, <2>3 DEF Lost
<1> QED
  BY <1>2, <1>3 DEF Verdict

LEMMA AnswersStay ==
  ASSUME EnrollmentInv, Steady, Remembered, Fed', UNCHANGED answers
  PROVE  Answered'
<1> SUFFICES ASSUME NEW a \in answers
             PROVE  a[1] \in 1..Len(feed') /\ Verdict(feed[a[1]], a[2])'
  BY DEF Answered
<1>1. a[1] \in 1..Len(feed) /\ Verdict(feed[a[1]], a[2])
  BY DEF EnrollmentInv, Answered
<1>2. a[1] \in 1..Len(feed') /\ feed'[a[1]] = feed[a[1]]
  BY <1>1 DEF Remembered, EnrollmentInv, Fed
<1>3. PICK x \in Update : x = feed[a[1]]
  BY <1>1 DEF EnrollmentInv, Fed
<1>4. Verdict(x, a[2])'
  BY <1>1, <1>3, VerdictsStay DEF EnrollmentInv
<1> QED
  BY <1>2, <1>3, <1>4 DEF Verdict, Accepted, Lost

\* A worker that takes no part in a step knows what it knew.
LEMMA KnowsStays ==
  ASSUME EnrollmentInv, Steady, Remembered, NEW v \in Worker, worker'[v] = worker[v],
         Holding(v) =>
           LET x == event[worker[v].event].about IN
           link'[ResidentOf[x.invitation]] \in {None, x.user}
  PROVE  Knows(v)'
<1>1. Knows(v) /\ worker[v] \in HandlerRow
  BY DEF EnrollmentInv, Handling
<1>2. CASE worker[v] = Idle
  BY <1>2 DEF Knows, Holding, Idle
<1>3. CASE worker[v] # Idle
  <2> DEFINE n == worker[v].event
  <2>1. n \in Key /\ event[n].status # "absent"
    BY <1>1, <1>3 DEF Knows
  <2>2. event'[n].status # "absent" /\ event'[n].about = event[n].about
    BY <2>1 DEF Remembered
  <2>3. PICK x \in Update : x = event[n].about
    BY <2>1 DEF EnrollmentInv, Inboxed, Fed
  <2>4. worker[v].step = "send" /\ worker[v].view # Nobody => Verdict(x, worker[v].view)'
    BY <1>1, <1>3, <2>3, VerdictsStay DEF Knows, EnrollmentInv
  <2> QED
    BY <1>1, <1>3, <2>1, <2>2, <2>3, <2>4 DEF Knows, Holding, Verdict, Accepted, Lost
<1> QED
  BY <1>2, <1>3

\* Locks stay apart unless another worker comes to hold one.
LEMMA LockStays ==
  ASSUME EnrollmentInv, Remembered, \A v \in Worker : Holding(v)' => worker'[v] = worker[v]
  PROVE  OneLock'
<1>1. ASSUME NEW v \in Worker, Holding(v)'
      PROVE  /\ Holding(v)
             /\ (event[worker[v].event].about)' = event[worker[v].event].about
  <2>1. Holding(v) /\ worker'[v] = worker[v]
    BY <1>1 DEF Holding
  <2>2. worker[v].event \in Key /\ event[worker[v].event].status # "absent"
    BY <2>1 DEF Holding, EnrollmentInv, Handling, Knows
  <2> QED
    BY <2>1, <2>2 DEF Remembered
<1> QED
  BY <1>1 DEF OneLock, EnrollmentInv, Handling

\* A step in which nobody is linked and all workers stay where they are.
LEMMA StayPut ==
  ASSUME EnrollmentInv, Steady, Remembered, UNCHANGED <<worker, link>>
  PROVE  Handling'
<1>1. \A v \in Worker : Holding(v) =>
           LET x == event[worker[v].event].about IN
           link'[ResidentOf[x.invitation]] \in {None, x.user}
  BY DEF EnrollmentInv, Handling, Knows
<1>2. \A v \in Worker : Knows(v)'
  BY <1>1, KnowsStays
<1>3. OneLock'
  BY LockStays
<1> QED
  BY <1>2, <1>3 DEF Handling, EnrollmentInv

\* A step of one worker, in which nobody is linked, to where it holds no lock.
LEMMA OneMoves ==
  ASSUME EnrollmentInv, Steady, Remembered, UNCHANGED link, NEW w \in Worker, NEW job \in HandlerRow,
         worker' = [worker EXCEPT ![w] = job], job.step # "linking",
         job # Idle => job.event \in Key /\ event'[job.event].status # "absent",
         job # Idle /\ job.step = "send" /\ job.view # Nobody =>
           Verdict(event[job.event].about, job.view)'
  PROVE  Handling'
<1>1. worker' \in [Worker -> HandlerRow] /\ worker'[w] = job
  BY DEF EnrollmentInv, Handling
<1>2. \A v \in Worker \ {w} : worker'[v] = worker[v]
  BY DEF EnrollmentInv, Handling
<1>3. \A v \in Worker : Holding(v) =>
           LET x == event[worker[v].event].about IN
           link'[ResidentOf[x.invitation]] \in {None, x.user}
  BY DEF EnrollmentInv, Handling, Knows
<1>4. \A v \in Worker \ {w} : Knows(v)'
  BY <1>2, <1>3, KnowsStays
<1>5. Knows(w)'
  BY <1>1 DEF Knows, Holding, Verdict, Accepted, Lost
<1>6. OneLock'
  <2>1. \A v \in Worker : Holding(v)' => worker'[v] = worker[v]
    BY <1>1, <1>2 DEF Holding
  <2> QED
    BY <2>1, LockStays
<1> QED
  BY <1>1, <1>4, <1>5, <1>6 DEF Handling

LEMMA SameHomes ==
  ASSUME EnrollmentInv, UNCHANGED <<link, used, over, left>>
  PROVE  Linked' /\ Steady
BY DEF EnrollmentInv, Linked, Steady

LEMMA SameFeed ==
  ASSUME EnrollmentInv, UNCHANGED <<feed, confirmed, poller, issued>>
  PROVE  Fed'
BY DEF EnrollmentInv, Fed

LEMMA SameEvents ==
  ASSUME EnrollmentInv, UNCHANGED <<feed, event>>
  PROVE  Inboxed' /\ Remembered
BY DEF EnrollmentInv, Inboxed, Remembered, Fed

\* A row that keeps its content.
LEMMA RowKeeps ==
  ASSUME EnrollmentInv, UNCHANGED feed, NEW n \in Key, NEW row \in UpdateRow,
         event[n].status # "absent", row.status # "absent", row.about = event[n].about,
         event' = [event EXCEPT ![n] = row]
  PROVE  Inboxed' /\ Remembered
BY DEF EnrollmentInv, Inboxed, Remembered, Fed

LEMMA ConcludeKeeps ==
  ASSUME EnrollmentInv, NEW w \in Worker, worker[w] # Idle, Finish(w) \/ Raise(w),
         UNCHANGED <<feed, link>>, Steady
  PROVE  Inboxed' /\ Remembered /\ Handling'
<1> DEFINE n == Subject(w)
           row == event[n]
           done == Settled(row)
           again == [row EXCEPT !.status = "pending", !.owner = Nobody]
<1>1. n \in Key /\ row \in UpdateRow /\ row.status # "absent"
  BY DEF EnrollmentInv, Inboxed, Handling, Knows, Subject
<1>2. /\ done \in UpdateRow /\ done.status = "settled" /\ done.about = row.about
      /\ again \in UpdateRow /\ again.status = "pending" /\ again.about = row.about
  BY <1>1 DEF UpdateRow, Settled
<1>3. PICK new \in {done, again} :
        /\ event' = IF event[n].owner = w THEN [event EXCEPT ![n] = new] ELSE event
        /\ worker' = [worker EXCEPT ![w] = Idle]
  BY DEF Finish, Raise, Conclude
<1>4. Inboxed' /\ Remembered
  <2>1. CASE event[n].owner = w
    BY <1>1, <1>2, <1>3, <2>1, RowKeeps
  <2>2. CASE event[n].owner # w
    BY <1>3, <2>2, SameEvents
  <2> QED
    BY <2>1, <2>2
<1>5. Idle \in HandlerRow /\ Idle.step = "start"
  BY DEF Idle, HandlerRow
<1>6. Handling'
  BY <1>3, <1>4, <1>5, OneMoves
<1> QED
  BY <1>4, <1>6

LEMMA TakingKeeps ==
  ASSUME EnrollmentInv, NEW w \in Worker, NEW n \in Key, event[n].status # "absent", Take(w, n),
         UNCHANGED <<feed, link>>, Steady
  PROVE  Inboxed' /\ Remembered /\ Handling'
<1> DEFINE attempts == IF event[n].attempts < MaxAttempts THEN event[n].attempts + 1
                       ELSE event[n].attempts
           row == [event[n] EXCEPT !.status = "processing", !.owner = w,
                                   !.attempts = attempts]
           job == [event |-> n, step |-> "start", view |-> Nobody]
<1>1. row \in UpdateRow /\ row.status = "processing" /\ row.about = event[n].about
  <2>1. event[n] \in UpdateRow
    BY DEF EnrollmentInv, Inboxed
  <2>2. attempts \in Nat
    BY <2>1, WorkAssumption DEF UpdateRow
  <2> HIDE DEF attempts
  <2> QED
    BY <2>1, <2>2 DEF UpdateRow
<1>2. event' = [event EXCEPT ![n] = row]
  BY DEF Take, EnrollmentInv, Inboxed
<1>3. Inboxed' /\ Remembered
  <2> HIDE DEF row
  <2> QED
    BY <1>1, <1>2, RowKeeps
<1>4. worker' = [worker EXCEPT ![w] = job]
  <2>1. worker' = [worker EXCEPT ![w] = [worker[w] EXCEPT !.event = n]]
    BY DEF Take, EnrollmentInv, Handling
  <2>2. [worker[w] EXCEPT !.event = n] = job
    BY DEF Take, Idle
  <2> QED
    BY <2>1, <2>2
<1>5. job \in HandlerRow /\ job.step = "start" /\ job.event = n
  BY DEF HandlerRow
<1>6. Handling'
  <2> HIDE DEF job
  <2> QED
    BY <1>3, <1>4, <1>5, OneMoves DEF Remembered
<1> QED
  BY <1>3, <1>6

LEMMA CrashKeeps ==
  ASSUME EnrollmentInv, NEW w \in Worker, Crash(w), UNCHANGED <<feed, link>>, Steady
  PROVE  Inboxed' /\ Remembered /\ Handling'
<1> DEFINE n == worker[w].event
           row == [event[n] EXCEPT !.status = "pending", !.owner = Nobody]
<1>1. n \in Key /\ event[n] \in UpdateRow /\ event[n].status # "absent"
  BY DEF EnrollmentInv, Inboxed, Handling, Knows, Crash
<1>2. row \in UpdateRow /\ row.status = "pending" /\ row.about = event[n].about
  BY <1>1 DEF UpdateRow
<1>3. Inboxed' /\ Remembered
  <2>1. CASE event[n].owner = w
    <3>1. event' = [event EXCEPT ![n] = row]
      BY <1>1, <2>1 DEF Crash, Left, EnrollmentInv, Inboxed
    <3> QED
      BY <1>1, <1>2, <3>1, RowKeeps
  <2>2. CASE event[n].owner # w
    BY <2>2, SameEvents DEF Crash
  <2> QED
    BY <2>1, <2>2
<1>4. Idle \in HandlerRow /\ Idle.step = "start"
  BY DEF Idle, HandlerRow
<1>5. Handling'
  BY <1>3, <1>4, OneMoves DEF Crash
<1> QED
  BY <1>3, <1>5

\* A step to another part of the handler, without a verdict.
LEMMA ProceedKeeps ==
  ASSUME EnrollmentInv, NEW w \in Worker, worker[w] # Idle, NEW step \in {"send", "end"},
         Proceed(w, step), UNCHANGED <<feed, link>>, Steady
  PROVE  Inboxed' /\ Remembered /\ Handling'
<1> DEFINE job == [worker[w] EXCEPT !.step = step, !.view = Nobody]
<1>1. Inboxed' /\ Remembered
  BY SameEvents DEF Proceed
<1>2. worker' = [worker EXCEPT ![w] = job]
  BY DEF Proceed, Goto, Read, EnrollmentInv, Handling
<1>3. /\ job \in HandlerRow /\ job.step # "linking" /\ job.view = Nobody
      /\ job.event = worker[w].event
  BY DEF EnrollmentInv, Handling, HandlerRow
<1>4. job.event \in Key /\ event'[job.event].status # "absent"
  BY <1>1, <1>3 DEF Remembered, EnrollmentInv, Handling, Knows
<1>5. Handling'
  <2> HIDE DEF job
  <2> QED
    BY <1>1, <1>2, <1>3, <1>4, OneMoves
<1> QED
  BY <1>1, <1>5

-----------------------------------------------------------------------------
(* The feed and the poller *)

\* Steps by which nothing happens to residents and their invitations.
LEMMA HomesApart ==
  ASSUME EnrollmentInv, UNCHANGED <<homeVars, answers>>, Remembered, Fed', Inboxed', Handling'
  PROVE  EnrollmentInv'
<1>1. Linked' /\ Steady
  BY SameHomes DEF homeVars
<1>2. Answered'
  BY <1>1, AnswersStay
<1> QED
  BY <1>1, <1>2 DEF EnrollmentInv

\* Workers and residents have no part in a step of the poller.
LEMMA PollerApart ==
  ASSUME EnrollmentInv, UNCHANGED <<worker, homeVars, answers>>, Remembered, Fed', Inboxed'
  PROVE  EnrollmentInv'
<1>1. Steady /\ UNCHANGED <<worker, link>>
  BY SameHomes DEF homeVars
<1>2. Handling'
  BY <1>1, StayPut
<1> QED
  BY <1>2, HomesApart

LEMMA HappensKeeps ==
  ASSUME EnrollmentInv, NEW x \in Update, HappensNow(x)
  PROVE  EnrollmentInv'
<1>1. feed \in Seq(Update) /\ feed' = Append(feed, x)
  BY DEF HappensNow, Happens, EnrollmentInv, Fed
<1>2. /\ feed' \in Seq(Update) /\ Len(feed') = Len(feed) + 1 /\ Len(feed) \in Nat
      /\ \A n \in 1..Len(feed) : feed'[n] = feed[n]
      /\ feed'[Len(feed) + 1] = x
  BY <1>1
<1>3. UNCHANGED <<worker, homeVars, answers, confirmed, poller, event>>
  BY DEF HappensNow, Happens, workVars
<1>4. Remembered
  BY <1>2, <1>3 DEF Remembered
<1>5. Fed'
  <2>1. \A n \in 1..Len(feed') : feed'[n].kind = "code" => feed'[n].invitation \in issued
    BY <1>2 DEF HappensNow, EnrollmentInv, Fed
  <2> QED
    BY <1>2, <1>3, <2>1 DEF EnrollmentInv, Fed, homeVars
<1>6. Inboxed'
  BY <1>2, <1>3 DEF EnrollmentInv, Inboxed
<1> QED
  BY <1>3, <1>4, <1>5, <1>6, PollerApart

LEMMA FetchKeeps ==
  ASSUME EnrollmentInv, UNCHANGED <<homeVars, answers>>, Fetch
  PROVE  EnrollmentInv'
<1>1. Since \in Nat /\ Since < Len(feed) /\ Len(feed) \in Nat
  BY DEF Fetch, Since, EnrollmentInv, Fed
<1>2. (Since + 1)..Len(feed) \in SUBSET Nat
  BY <1>1
<1>3. /\ confirmed' = Since
      /\ poller' = [poller EXCEPT !.step = "fetched", !.batch = (Since + 1)..Len(feed)]
      /\ UNCHANGED <<feed, worker, event, issued>>
  BY DEF Fetch, Handed, workVars, homeVars
<1>4. Fed'
  <2>1. poller' \in [step : {"idle", "fetched", "saved"}, marker : Nat, batch : SUBSET Nat]
    BY <1>2, <1>3 DEF EnrollmentInv, Fed
  <2>2. \E a, b \in Nat : a < b /\ b <= Len(feed) /\ poller'.batch = (a + 1)..b
    BY <1>1, <1>3 DEF EnrollmentInv, Fed
  <2> QED
    BY <1>1, <1>3, <2>1, <2>2 DEF EnrollmentInv, Fed
<1> QED
  BY <1>3, <1>4, SameEvents, PollerApart

\* What is saved is of the feed.
LEMMA SaveKeeps ==
  ASSUME EnrollmentInv, UNCHANGED <<homeVars, answers>>, Save
  PROVE  EnrollmentInv'
<1>1. UNCHANGED <<worker, feed, confirmed, issued>>
  BY DEF Save, homeVars
<1>2. poller' = [poller EXCEPT !.step = "saved"] /\ poller.step = "fetched"
  BY DEF Save
<1>3. Fed'
  BY <1>1, <1>2 DEF EnrollmentInv, Fed
<1>4. \A n \in Key : n \in poller.batch => n \in 1..Len(feed) /\ feed[n] \in Update
  <2>1. PICK a, b \in Nat : a < b /\ b <= Len(feed) /\ poller.batch = (a + 1)..b
    BY <1>2 DEF EnrollmentInv, Fed
  <2> QED
    BY <2>1 DEF EnrollmentInv, Fed
<1>5. ASSUME NEW n \in Key
      PROVE  /\ event'[n] \in UpdateRow
             /\ event[n].status # "absent" => event'[n] = event[n]
             /\ event'[n].status # "absent" =>
                  n \in 1..Len(feed) /\ event'[n].about = feed[n]
  <2>1. event'[n] = IF n \in poller.batch THEN Stored(n, feed[n])[n] ELSE event[n]
    BY DEF Save
  <2>2. event[n] \in UpdateRow
    BY DEF EnrollmentInv, Inboxed
  <2>3. Stored(n, feed[n])[n] = IF event[n].status # "absent" THEN event[n]
                                ELSE [event[n] EXCEPT !.status = "pending", !.about = feed[n]]
    BY DEF Stored, EnrollmentInv, Inboxed
  <2>4. CASE event'[n] = event[n]
    BY <2>2, <2>4 DEF EnrollmentInv, Inboxed
  <2>5. CASE /\ n \in poller.batch /\ event[n].status = "absent"
             /\ event'[n] = [event[n] EXCEPT !.status = "pending", !.about = feed[n]]
    BY <1>4, <2>2, <2>5 DEF UpdateRow
  <2> QED
    BY <2>1, <2>3, <2>4, <2>5
<1>6. event' \in [Key -> UpdateRow]
  BY <1>5 DEF Save
<1>7. Inboxed' /\ Remembered
  BY <1>1, <1>5, <1>6 DEF Inboxed, Remembered, EnrollmentInv, Fed
<1> QED
  BY <1>1, <1>3, <1>7, PollerApart

LEMMA AdvanceKeeps ==
  ASSUME EnrollmentInv, UNCHANGED <<homeVars, answers>>, Advance
  PROVE  EnrollmentInv'
<1> DEFINE marker == CHOOSE n \in poller.batch : \A m \in poller.batch : m <= n
<1>1. PICK a, b \in Nat : a < b /\ b <= Len(feed) /\ poller.batch = (a + 1)..b
  BY DEF Advance, EnrollmentInv, Fed
<1>2. b \in poller.batch /\ \A m \in poller.batch : m <= b
  BY <1>1
<1>3. marker \in poller.batch
  BY <1>2
<1>4. marker \in Nat
  BY <1>3 DEF EnrollmentInv, Fed
<1>5. poller' = [step |-> "idle", batch |-> {}, marker |-> marker]
  BY DEF Advance
<1>6. UNCHANGED <<feed, confirmed, worker, event, issued>>
  BY DEF Advance, workVars, homeVars
<1>7. Fed'
  <2> HIDE DEF marker
  <2> QED
    BY <1>4, <1>5, <1>6 DEF EnrollmentInv, Fed
<1> QED
  BY <1>6, <1>7, SameEvents, PollerApart

LEMMA DropKeeps ==
  ASSUME EnrollmentInv, UNCHANGED <<homeVars, answers>>, SaveRefused \/ SaveFails \/ Restart
  PROVE  EnrollmentInv'
<1>1. UNCHANGED <<feed, confirmed, worker, event, issued>>
  BY DEF SaveRefused, SaveFails, Restart, workVars, homeVars
<1>2. /\ poller' \in [step : {"idle", "fetched", "saved"}, marker : Nat, batch : SUBSET Nat]
      /\ poller'.step = "idle"
  <2>1. poller \in [step : {"idle", "fetched", "saved"}, marker : Nat, batch : SUBSET Nat]
    BY DEF EnrollmentInv, Fed
  <2>2. CASE Drop
    BY <2>1, <2>2 DEF Drop
  <2>3. CASE poller' = Started
    BY <2>3 DEF Started
  <2> QED
    BY <2>2, <2>3 DEF SaveRefused, SaveFails, Restart
<1>3. Fed'
  BY <1>1, <1>2 DEF EnrollmentInv, Fed
<1> QED
  BY <1>1, <1>3, SameEvents, PollerApart

LEMMA DeliverKeeps ==
  ASSUME EnrollmentInv, UNCHANGED <<homeVars, answers>>, NEW n \in Key, Deliver(n)
  PROVE  EnrollmentInv'
<1>1. UNCHANGED <<feed, confirmed, poller, worker, issued>>
  BY DEF Deliver, ingressVars, homeVars
<1>2. n \in 1..Len(feed) /\ feed[n] \in Update
  BY DEF Deliver, Key, EnrollmentInv, Fed
<1>3. event' \in [Key -> UpdateRow]
  BY <1>2 DEF Deliver, Stored, UpdateRow, EnrollmentInv, Inboxed
<1>4. \A m \in Key \ {n} : event'[m] = event[m]
  BY DEF Deliver, Stored, EnrollmentInv, Inboxed
<1>5. \/ event'[n] = event[n] /\ event[n].status # "absent"
      \/ event[n].status = "absent" /\ event'[n].about = feed[n]
  BY <1>2 DEF Deliver, Stored, UpdateRow, EnrollmentInv, Inboxed
<1>6. Inboxed' /\ Remembered
  BY <1>1, <1>2, <1>3, <1>4, <1>5 DEF Inboxed, Remembered, EnrollmentInv, Fed
<1> QED
  BY <1>1, <1>6, SameFeed, PollerApart

LEMMA EnterKeeps ==
  ASSUME EnrollmentInv, Enter, UNCHANGED <<homeVars, answers>>
  PROVE  EnrollmentInv'
BY FetchKeeps, SaveKeeps, AdvanceKeeps, DropKeeps, DeliverKeeps DEF Enter, Polling

\* The operator issues invitations, which expire, and residencies end.
LEMMA OperatorKeeps ==
  ASSUME EnrollmentInv, NEW i \in Invitation, Issue(i) \/ Expires(i) \/ Ends(i)
  PROVE  EnrollmentInv'
<1>1. UNCHANGED <<feed, confirmed, poller, event, worker, link, used, answers>>
  BY DEF Issue, Expires, Ends, ingressVars, workVars
<1>2. issued \subseteq issued' /\ over \subseteq over' /\ left \subseteq left'
  BY DEF Issue, Expires, Ends
<1>3. Linked' /\ Steady
  BY <1>1, <1>2 DEF EnrollmentInv, Linked, Steady
<1>4. Fed'
  BY <1>1, <1>2 DEF EnrollmentInv, Fed
<1>5. Inboxed' /\ Remembered
  BY <1>1, SameEvents
<1>6. Handling'
  BY <1>1, <1>3, <1>5, StayPut
<1>7. Answered'
  BY <1>1, <1>3, <1>4, <1>5, AnswersStay
<1> QED
  BY <1>3, <1>4, <1>5, <1>6, <1>7 DEF EnrollmentInv

-----------------------------------------------------------------------------
(* The handlers *)

\* A step of a worker that links nobody and answers nobody.
LEMMA QuietWork ==
  ASSUME EnrollmentInv, UNCHANGED <<ingressVars, issued, used, over, left, link, answers>>,
         Inboxed' /\ Remembered /\ Handling'
  PROVE  EnrollmentInv'
<1>1. Linked' /\ Steady /\ Fed'
  BY SameHomes, SameFeed DEF ingressVars
<1> QED
  BY <1>1, AnswersStay DEF EnrollmentInv

LEMMA SteadyWork ==
  ASSUME EnrollmentInv, UNCHANGED <<ingressVars, homeVars>>
  PROVE  Steady /\ UNCHANGED <<feed, link>>
BY SameHomes DEF ingressVars, homeVars

LEMMA ClaimsKeep ==
  ASSUME EnrollmentInv, NEW w \in Worker, ClaimUpdate(w)
  PROVE  EnrollmentInv'
<1>1. PICK n \in Key : Claim(w, n)
  BY DEF ClaimUpdate
<1>2. UNCHANGED <<ingressVars, homeVars, answers>>
  BY DEF ClaimUpdate
<1>3. Steady /\ UNCHANGED <<feed, link>>
  BY <1>2, SteadyWork
<1>4. Inboxed' /\ Remembered /\ Handling'
  BY <1>1, <1>3, TakingKeeps DEF Claim
<1> QED
  BY <1>2, <1>4, QuietWork DEF homeVars

LEMMA FaultsKeep ==
  ASSUME EnrollmentInv, Disturb, UNCHANGED <<ingressVars, homeVars, answers>>
  PROVE  EnrollmentInv'
<1>1. Steady /\ UNCHANGED <<feed, link>>
  BY SteadyWork
<1>2. CASE \E w \in Worker : Crash(w)
  BY <1>1, <1>2, CrashKeeps, QuietWork DEF homeVars
<1>3. CASE \E w \in Worker, n \in DOMAIN event : TakeOver(w, n)
  <2>1. PICK w \in Worker, n \in DOMAIN event : TakeOver(w, n)
    BY <1>3
  <2>2. n \in Key
    BY DEF EnrollmentInv, Inboxed
  <2>3. Inboxed' /\ Remembered /\ Handling'
    BY <1>1, <2>1, <2>2, TakingKeeps DEF TakeOver
  <2> QED
    BY <2>3, QuietWork DEF homeVars
<1> QED
  BY <1>2, <1>3 DEF Disturb

LEMMA LifecycleKeeps ==
  ASSUME EnrollmentInv, NEW w \in Worker, HandleLifecycle(w) \/ HandleHouse(w)
  PROVE  EnrollmentInv'
<1>1. UNCHANGED <<ingressVars, issued, used, over, left, link, answers>>
  BY DEF HandleLifecycle, HandleHouse
<1>2. Steady /\ UNCHANGED feed
  BY <1>1, SameHomes DEF ingressVars
<1>3. PICK step \in {"send", "end"} : worker[w] # Idle /\ Proceed(w, step)
  BY DEF HandleLifecycle, HandleHouse, Handles, At
<1>4. Inboxed' /\ Remembered /\ Handling'
  BY <1>1, <1>2, <1>3, ProceedKeeps
<1> QED
  BY <1>1, <1>4, QuietWork

\* Who finds the code of no use is told so; who does not takes the lock, which
\* nobody has.
LEMMA ReadCodeKeeps ==
  ASSUME EnrollmentInv, NEW w \in Worker, ReadCode(w)
  PROVE  EnrollmentInv'
<1> DEFINE n == worker[w].event
           x == event[n].about
<1>1. /\ worker[w] # Idle /\ x.kind = "code"
      /\ x.invitation \in issued => ~ Locked(ResidentOf[x.invitation])
      /\ IF Denied(x.invitation, x.user) THEN Read(w, "send", "denied") ELSE Goto(w, "linking")
  BY DEF ReadCode, Handles, At, About, Subject
<1>2. UNCHANGED <<ingressVars, event, homeVars, answers>>
  BY DEF ReadCode
<1>3. Inboxed' /\ Remembered /\ Steady /\ UNCHANGED <<feed, link>>
  BY <1>2, SteadyWork, SameEvents DEF ingressVars
<1>4. n \in Key /\ event[n].status # "absent"
  BY <1>1 DEF EnrollmentInv, Handling, Knows
<1>5. /\ x \in Update /\ x.invitation \in issued
      /\ x.user \in User /\ x.user # None
      /\ x.invitation \in Invitation /\ ResidentOf[x.invitation] \in Resident
  BY <1>1, <1>4, InvitationAssumption DEF EnrollmentInv, Inboxed, Fed
<1>6. CASE Denied(x.invitation, x.user)
  <2>1. PICK job : job = [worker[w] EXCEPT !.step = "send", !.view = "denied"]
    OBVIOUS
  <2>2. worker' = [worker EXCEPT ![w] = job]
    BY <1>1, <1>6, <2>1 DEF Read, EnrollmentInv, Handling
  <2>3. job \in HandlerRow /\ job.step = "send" /\ job.view = "denied" /\ job.event = n
    BY <2>1 DEF EnrollmentInv, Handling, HandlerRow
  <2>4. Lost(x)
    <3>1. x.invitation \in used => link[ResidentOf[x.invitation]] # None
      BY DEF EnrollmentInv, Linked
    <3> QED
      BY <1>5, <1>6, <3>1 DEF Denied, UsedByAnother, LinkedTo, Lost
  <2>5. Verdict(event[job.event].about, job.view)
    BY <1>1, <2>3, <2>4 DEF Verdict
  <2>6. Verdict(event[job.event].about, job.view)'
    BY <1>2, <2>5 DEF Verdict, Accepted, Lost, Lapsed, homeVars
  <2>7. Handling'
    BY <1>2, <1>3, <1>4, <2>2, <2>3, <2>6, OneMoves
  <2> QED
    BY <1>2, <1>3, <2>7, QuietWork DEF homeVars
<1>7. CASE ~ Denied(x.invitation, x.user)
  <2> DEFINE job == [worker[w] EXCEPT !.step = "linking", !.view = Nobody]
  <2>1. worker' = [worker EXCEPT ![w] = job]
    BY <1>1, <1>7 DEF Goto, Read, EnrollmentInv, Handling
  <2>2. job \in HandlerRow /\ job.step = "linking" /\ job.event = n
    BY DEF EnrollmentInv, Handling, HandlerRow
  <2> HIDE DEF job
  <2>3. worker' \in [Worker -> HandlerRow] /\ worker'[w] = job
    BY <2>1, <2>2 DEF EnrollmentInv, Handling
  <2>4. \A v \in Worker \ {w} : worker'[v] = worker[v]
    BY <2>1 DEF EnrollmentInv, Handling
  <2>5. \A v \in Worker : Holding(v) =>
             LET y == event[worker[v].event].about IN
             link'[ResidentOf[y.invitation]] \in {None, y.user}
    BY <1>3 DEF EnrollmentInv, Handling, Knows
  <2>6. \A v \in Worker \ {w} : Knows(v)'
    BY <1>3, <2>4, <2>5, KnowsStays
  <2>7. link[ResidentOf[x.invitation]] \in {None, x.user}
    BY <1>5, <1>7 DEF Denied
  <2>8. Knows(w)'
    BY <1>1, <1>2, <1>3, <1>4, <2>2, <2>3, <2>7 DEF Knows, Holding
  <2>9. \A v \in Worker : Holding(v) =>
             ResidentOf[event[worker[v].event].about.invitation] # ResidentOf[x.invitation]
    BY <1>1, <1>5 DEF Locked, Handles, At, About, Subject, Holding, EnrollmentInv, Handling, Knows
  <2>10. OneLock'
    BY <1>2, <2>2, <2>3, <2>4, <2>9 DEF OneLock, Holding, EnrollmentInv, Handling
  <2>11. Handling'
    BY <2>3, <2>6, <2>8, <2>10 DEF Handling
  <2> QED
    BY <1>2, <1>3, <2>11, QuietWork DEF homeVars
<1> QED
  BY <1>6, <1>7

\* The lock is what makes the link last: nobody else can be about to link the
\* same resident, and the index keeps the user apart from all the others.
LEMMA LinkKeeps ==
  ASSUME EnrollmentInv, NEW w \in Worker, Link(w)
  PROVE  EnrollmentInv'
<1> DEFINE n == worker[w].event
           x == event[n].about
           r == ResidentOf[x.invitation]
<1>1. worker[w] # Idle /\ Holding(w) /\ UNCHANGED <<ingressVars, answers>>
  BY DEF Link, Handles, At, Holding
<1>2. n \in Key /\ event[n].status # "absent" /\ x.kind = "code" /\ link[r] \in {None, x.user}
  BY <1>1 DEF EnrollmentInv, Handling, Knows
<1>3. /\ x \in Update /\ n \in 1..Len(feed)
      /\ x.user \in User /\ x.user # None
      /\ x.invitation \in Invitation /\ r \in Resident
  BY <1>2, InvitationAssumption DEF EnrollmentInv, Inboxed, Fed
<1>4. CASE Raise(w) /\ UNCHANGED homeVars
  <2>1. Steady /\ UNCHANGED <<feed, link>>
    BY <1>1, <1>4, SteadyWork
  <2>2. Inboxed' /\ Remembered /\ Handling'
    BY <1>1, <1>4, <2>1, ConcludeKeeps
  <2> QED
    BY <1>1, <1>4, <2>2, QuietWork DEF homeVars
<1>5. CASE /\ ~ Taken(r, x.user)
           /\ Read(w, "send", "accepted") /\ UNCHANGED <<event, issued, over, left>>
           /\ link' = [link EXCEPT ![r] = x.user]
           /\ used' = used \cup {x.invitation}
  <2>1. Linked'
    <3>1. \A s \in Resident \ {r} : link[s] # x.user
      BY <1>5 DEF Taken, LinkedTo
    <3> HIDE DEF x, r
    <3>2. link' \in [Resident -> User \cup {None}]
      BY <1>3, <1>5 DEF EnrollmentInv, Linked
    <3>3. \A s, t \in Resident : link'[s] = link'[t] /\ link'[s] # None => s = t
      BY <1>3, <1>5, <3>1 DEF EnrollmentInv, Linked
    <3>4. \A i \in used : i \in Invitation /\ link'[ResidentOf[i]] # None
      BY <1>3, <1>5, InvitationAssumption DEF EnrollmentInv, Linked
    <3>5. link'[ResidentOf[x.invitation]] # None
      BY <1>3, <1>5 DEF EnrollmentInv, Linked, r
    <3> QED
      BY <1>3, <1>5, <3>2, <3>3, <3>4, <3>5 DEF Linked
  <2>2. Steady
    BY <1>2, <1>3, <1>5 DEF Steady, EnrollmentInv, Linked
  <2>3. Inboxed' /\ Remembered
    BY <1>1, <1>5, SameEvents DEF ingressVars
  <2>4. Fed'
    BY <1>1, <1>5, SameFeed DEF ingressVars
  <2>5. Answered'
    BY <1>1, <2>2, <2>3, <2>4, AnswersStay
  <2>6. PICK job : job = [worker[w] EXCEPT !.step = "send", !.view = "accepted"]
    OBVIOUS
  <2>7. worker' = [worker EXCEPT ![w] = job]
    BY <1>5, <2>6 DEF Read, EnrollmentInv, Handling
  <2>8. job \in HandlerRow /\ job.step = "send" /\ job.view = "accepted" /\ job.event = n
    BY <2>6 DEF EnrollmentInv, Handling, HandlerRow
  <2>9. worker' \in [Worker -> HandlerRow] /\ worker'[w] = job
    BY <2>7, <2>8 DEF EnrollmentInv, Handling
  <2>10. \A v \in Worker \ {w} : worker'[v] = worker[v]
    BY <2>7 DEF EnrollmentInv, Handling
  <2>11. ASSUME NEW v \in Worker \ {w}, Holding(v)
         PROVE  LET y == event[worker[v].event].about IN
                link'[ResidentOf[y.invitation]] \in {None, y.user}
    <3>1. ResidentOf[event[worker[v].event].about.invitation] # r
      BY <1>1, <2>11 DEF EnrollmentInv, Handling, OneLock
    <3>2. worker[v].event \in Key /\ event[worker[v].event].status # "absent"
      BY <2>11 DEF Holding, EnrollmentInv, Handling, Knows
    <3>3. ResidentOf[event[worker[v].event].about.invitation] \in Resident
      BY <2>11, <3>2, InvitationAssumption DEF EnrollmentInv, Handling, Knows, Inboxed, Fed
    <3> QED
      BY <1>5, <2>11, <3>1, <3>3 DEF EnrollmentInv, Handling, Knows, Linked
  <2>12. \A v \in Worker \ {w} : Knows(v)'
    BY <2>2, <2>3, <2>10, <2>11, KnowsStays
  <2>13. Knows(w)'
    <3>1. link'[r] = x.user /\ x.invitation \in used'
      BY <1>3, <1>5 DEF EnrollmentInv, Linked
    <3> QED
      BY <1>2, <1>5, <2>8, <2>9, <3>1 DEF Knows, Holding, Verdict, Accepted
  <2>14. OneLock'
    <3>1. \A v \in Worker : Holding(v)' => worker'[v] = worker[v]
      BY <2>8, <2>9, <2>10 DEF Holding
    <3> QED
      BY <2>3, <3>1, LockStays
  <2> QED
    BY <2>1, <2>3, <2>4, <2>5, <2>9, <2>12, <2>13, <2>14 DEF EnrollmentInv, Handling
<1> QED
  BY <1>4, <1>5 DEF Link, About, Subject

LEMMA AnswersKeep ==
  ASSUME EnrollmentInv, NEW w \in Worker, SendAnswer(w) \/ AnswerFails(w) \/ End(w)
  PROVE  EnrollmentInv'
<1>1. /\ worker[w] # Idle /\ (Finish(w) \/ Raise(w))
      /\ UNCHANGED <<ingressVars, homeVars>>
  BY DEF SendAnswer, AnswerFails, End, At
<1>2. Steady /\ UNCHANGED <<feed, link>>
  BY <1>1, SteadyWork
<1>3. Inboxed' /\ Remembered /\ Handling'
  BY <1>1, <1>2, ConcludeKeeps
<1>4. Linked' /\ Fed'
  BY <1>1, SameHomes, SameFeed DEF ingressVars, homeVars
<1>5. CASE UNCHANGED answers
  BY <1>2, <1>3, <1>4, <1>5, AnswersStay DEF EnrollmentInv
<1>6. CASE /\ At(w, "send") /\ View(w) # Nobody
           /\ answers' = answers \cup {<<Subject(w), View(w)>>}
  <2>1. Subject(w) \in 1..Len(feed) /\ event[Subject(w)].about = feed[Subject(w)]
    BY <1>1 DEF EnrollmentInv, Handling, Knows, Inboxed, Subject
  <2>2. Verdict(feed[Subject(w)], View(w))
    BY <1>6, <2>1 DEF At, EnrollmentInv, Handling, Knows, Subject, View
  <2>3. \A a \in answers' : a[1] \in 1..Len(feed) /\ Verdict(feed[a[1]], a[2])
    BY <1>6, <2>1, <2>2 DEF EnrollmentInv, Answered
  <2>4. Answered'
    BY <1>1, <2>3 DEF Answered, Verdict, Accepted, Lost, Lapsed, ingressVars, homeVars
  <2> QED
    BY <1>3, <1>4, <2>4 DEF EnrollmentInv
<1> QED
  BY <1>5, <1>6 DEF SendAnswer, AnswerFails, End

-----------------------------------------------------------------------------

LEMMA EnrollmentInitInv ==
  EnrollmentInit => EnrollmentInv
<1> SUFFICES ASSUME EnrollmentInit
             PROVE  EnrollmentInv
  OBVIOUS
<1>1. Linked
  BY DEF EnrollmentInit, Linked
<1>2. Fed
  BY DEF EnrollmentInit, IngressInit, Started, Fed
<1>3. Absent \in UpdateRow /\ Absent.status = "absent"
  BY DEF Absent, UpdateRow
<1>4. Inboxed
  BY <1>3 DEF EnrollmentInit, IngressInit, WorkInit, Inboxed
<1>5. Answered
  BY DEF EnrollmentInit, Answered
<1>6. Idle \in HandlerRow
  BY DEF Idle, HandlerRow
<1>7. Handling
  BY <1>6 DEF EnrollmentInit, IngressInit, WorkInit, Handling, Knows, Holding, OneLock
<1> QED
  BY <1>1, <1>2, <1>4, <1>5, <1>7 DEF EnrollmentInv

LEMMA EnrollmentNextInv ==
  EnrollmentInv /\ [EnrollmentNext]_enrollmentVars => EnrollmentInv'
<1> SUFFICES ASSUME EnrollmentInv, [EnrollmentNext]_enrollmentVars
             PROVE  EnrollmentInv'
  OBVIOUS
<1>1. CASE \E x \in Update : HappensNow(x)
  BY <1>1, HappensKeeps
<1>2. CASE Enter /\ UNCHANGED <<homeVars, answers>>
  BY <1>2, EnterKeeps
<1>3. CASE \E i \in Invitation : Issue(i) \/ Expires(i) \/ Ends(i)
  BY <1>3, OperatorKeeps
<1>4. CASE \E w \in Worker : Handle(w)
  BY <1>4, ClaimsKeep, LifecycleKeeps, ReadCodeKeeps, LinkKeeps, AnswersKeep DEF Handle
<1>5. CASE Disturb /\ UNCHANGED <<ingressVars, homeVars, answers>>
  BY <1>5, FaultsKeep
<1>6. CASE UNCHANGED enrollmentVars
  <2>1. UNCHANGED <<feed, confirmed, poller, event, worker, homeVars, answers, issued>>
    BY <1>6 DEF enrollmentVars, ingressVars, workVars, homeVars
  <2> QED
    BY <2>1, SameFeed, SameEvents, PollerApart
<1> QED
  BY <1>1, <1>2, <1>3, <1>4, <1>5, <1>6 DEF EnrollmentNext

LEMMA EnrollmentInvariant ==
  EnrollmentSpec => []EnrollmentInv
BY EnrollmentInitInv, EnrollmentNextInv, PTL DEF EnrollmentSpec

\* A user of MAX is one resident, however many codes they redeem at once and
\* however often their events are repeated: the index refuses the second link.
THEOREM EnrollmentOneResidentPerUser ==
  EnrollmentSpec => []OneResidentPerUser
<1>1. EnrollmentInv => OneResidentPerUser
  <2> SUFFICES ASSUME EnrollmentInv, NEW u \in User
               PROVE  Cardinality(LinkedTo(u)) <= 1
    BY DEF OneResidentPerUser
  <2>1. u # None
    BY InvitationAssumption
  <2>2. LinkedTo(u) = {} \/ \E r \in Resident : LinkedTo(u) = {r}
    BY <2>1 DEF LinkedTo, EnrollmentInv, Linked
  <2>3. Cardinality({}) = 0 /\ \A r \in Resident : Cardinality({r}) = 1
    BY FS_EmptySet, FS_Singleton
  <2> QED
    BY <2>2, <2>3
<1> QED
  BY <1>1, EnrollmentInvariant, PTL

\* The answers to a code stay true after they were given: a link is never taken
\* away, and a code that was refused links nobody later.
THEOREM EnrollmentAnswersAreTrue ==
  EnrollmentSpec => []AnswersAreTrue
<1>1. EnrollmentInv => AnswersAreTrue
  <2> SUFFICES ASSUME EnrollmentInv, NEW a \in answers
               PROVE  LET x == feed[a[1]] IN
                      /\ a[2] = "accepted" => Accepted(x)
                      /\ a[2] = "denied" /\ Accepted(x) => Lapsed(x.invitation)
    BY DEF AnswersAreTrue, Accepted
  <2> DEFINE x == feed[a[1]]
  <2>1. Verdict(x, a[2]) /\ x \in Update
    BY DEF EnrollmentInv, Answered, Fed
  <2>2. x.user \in User /\ x.user # None /\ ResidentOf[x.invitation] \in Resident
    BY <2>1, InvitationAssumption DEF Verdict
  <2>3. Lost(x) /\ Accepted(x) => Lapsed(x.invitation)
    BY <2>2 DEF Lost, Accepted, EnrollmentInv, Linked
  <2> QED
    BY <2>1, <2>3 DEF Verdict
<1> QED
  BY <1>1, EnrollmentInvariant, PTL
-----------------------------------------------------------------------------
(* Types *)

\* What the poller and the platform hold is of the feed.
LEMMA IngressTypesStay ==
  ASSUME EnrollmentInv, IngressTypeOK, Inboxed', UNCHANGED ingressVars
  PROVE  IngressTypeOK'
BY DEF IngressTypeOK, Inboxed, ingressVars

LEMMA FeedTypes ==
  ASSUME EnrollmentInv, IngressTypeOK, Inboxed', NEW x \in Update, Happens(x)
  PROVE  IngressTypeOK'
<1>1. feed' = Append(feed, x) /\ UNCHANGED <<confirmed, poller>> /\ Len(feed) < MaxUpdates
  BY DEF Happens
<1>2. feed' \in Seq(Update) /\ Len(feed') = Len(feed) + 1 /\ Len(feed) \in Nat
  BY <1>1 DEF IngressTypeOK
<1>3. Len(feed') <= MaxUpdates /\ confirmed' \in 0..Len(feed')
  BY <1>1, <1>2, IngressAssumption DEF IngressTypeOK
<1>4. 0..Len(feed) \subseteq 0..Len(feed') /\ 1..Len(feed) \subseteq 1..Len(feed')
  BY <1>2
<1>5. poller' \in [step : {"idle", "fetched", "saved"}, marker : 0..Len(feed'),
                  batch : SUBSET (1..Len(feed'))]
  BY <1>1, <1>4 DEF IngressTypeOK
<1>6. DOMAIN event' = Key
  BY DEF Inboxed
<1> QED
  BY <1>2, <1>3, <1>5, <1>6 DEF IngressTypeOK

LEMMA PollerTypes ==
  ASSUME EnrollmentInv, IngressTypeOK, Inboxed', Enter
  PROVE  IngressTypeOK'
<1> DEFINE Holds(p) == p \in [step : {"idle", "fetched", "saved"}, marker : 0..Len(feed),
                             batch : SUBSET (1..Len(feed))]
<1>1. Len(feed) \in Nat /\ confirmed \in 0..Len(feed) /\ Holds(poller)
  BY DEF IngressTypeOK
<1>2. DOMAIN event' = Key
  BY DEF Inboxed
<1>3. SUFFICES UNCHANGED feed /\ confirmed' \in 0..Len(feed) /\ Holds(poller')
  BY <1>2 DEF IngressTypeOK
<1>4. CASE Fetch
  <2>1. Since \in 0..Len(feed)
    BY <1>1 DEF Since
  <2>2. (Since + 1)..Len(feed) \in SUBSET (1..Len(feed))
    BY <1>1, <2>1
  <2> QED
    BY <1>1, <1>4, <2>1, <2>2 DEF Fetch, Handed
<1>5. CASE Save
  BY <1>1, <1>5 DEF Save
<1>6. CASE Advance
  <2> DEFINE marker == CHOOSE n \in poller.batch : \A m \in poller.batch : m <= n
  <2>1. PICK a, b \in Nat : a < b /\ b <= Len(feed) /\ poller.batch = (a + 1)..b
    BY <1>6 DEF Advance, EnrollmentInv, Fed
  <2>2. b \in poller.batch /\ \A m \in poller.batch : m <= b
    BY <2>1
  <2>3. marker \in poller.batch
    BY <2>2
  <2>4. marker \in 0..Len(feed)
    BY <1>1, <2>3
  <2>5. poller' = [step |-> "idle", batch |-> {}, marker |-> marker]
        /\ UNCHANGED <<feed, confirmed>>
    BY <1>6 DEF Advance
  <2> HIDE DEF marker
  <2> QED
    BY <1>1, <2>4, <2>5
<1>7. CASE SaveRefused \/ SaveFails
  BY <1>1, <1>7 DEF SaveRefused, SaveFails, Drop
<1>8. CASE Restart
  BY <1>1, <1>8 DEF Restart, Started
<1>9. CASE \E n \in Key : Deliver(n)
  BY <1>1, <1>9 DEF Deliver, ingressVars
<1> QED
  BY <1>4, <1>5, <1>6, <1>7, <1>8, <1>9 DEF Enter, Polling

\* The house that is chosen is one of the houses of the resident.
LEMMA HouseTypes ==
  ASSUME EnrollmentTypeOK, NEW w \in Worker, HandleHouse(w)
  PROVE  active' \in [Resident -> House \cup {None}]
<1> DEFINE x == About(w)
           Chosen(r) == CHOOSE h \in House : h \in Choice(r, x.choice)
<1>1. ASSUME NEW r \in Resident, Choice(r, x.choice) # {}
      PROVE  Chosen(r) \in House
  <2>1. Homes(r) \subseteq House
    BY InvitationAssumption DEF EnrollmentTypeOK, Homes
  <2>2. Choice(r, x.choice) \subseteq House
    BY <2>1 DEF Choice
  <2> QED
    BY <1>1, <2>2
<1>2. active' = [r \in Resident |->
                   IF r \in LinkedTo(x.user) /\ Choice(r, x.choice) # {}
                   THEN Chosen(r) ELSE active[r]]
  BY DEF HandleHouse, EnrollmentTypeOK
<1> HIDE DEF x, Chosen
<1> QED
  BY <1>1, <1>2 DEF EnrollmentTypeOK

LEMMA HomeTypes ==
  ASSUME EnrollmentInv, EnrollmentTypeOK, NEW w \in Worker, Handle(w)
  PROVE  /\ issued' = issued /\ over' = over /\ left' = left /\ used' \subseteq issued
         /\ active' \in [Resident -> House \cup {None}] /\ reachable' \subseteq Resident
         /\ UNCHANGED ingressVars
<1>1. CASE ClaimUpdate(w) \/ SendAnswer(w) \/ AnswerFails(w) \/ End(w) \/ ReadCode(w)
  BY <1>1 DEF ClaimUpdate, SendAnswer, AnswerFails, End, ReadCode, homeVars, EnrollmentTypeOK
<1>2. CASE HandleLifecycle(w)
  BY <1>2 DEF HandleLifecycle, LinkedTo, EnrollmentTypeOK
<1>3. CASE HandleHouse(w)
  BY <1>3, HouseTypes DEF HandleHouse, EnrollmentTypeOK
<1>4. CASE Link(w)
  <2> DEFINE x == About(w)
             r == ResidentOf[x.invitation]
  <2>1. worker[w].event \in Key /\ event[worker[w].event].status # "absent" /\ x.kind = "code"
    BY <1>4 DEF Link, Handles, At, About, Subject, EnrollmentInv, Handling, Knows
  <2>2. x \in Update /\ x.invitation \in issued /\ x.invitation \in Invitation
    BY <2>1, InvitationAssumption DEF About, Subject, EnrollmentInv, Inboxed, Fed
  <2>3. r \in Resident /\ HouseOf[x.invitation] \in House
    BY <2>2, InvitationAssumption
  <2>4. CASE UNCHANGED homeVars
    BY <1>4, <2>4 DEF Link, homeVars, EnrollmentTypeOK
  <2>5. CASE /\ UNCHANGED <<issued, over, left>>
             /\ active' = [active EXCEPT ![r] = IF @ = None THEN HouseOf[x.invitation] ELSE @]
             /\ used' = used \cup {x.invitation} /\ reachable' = reachable \cup {r}
    <3> HIDE DEF x, r
    <3>1. active' \in [Resident -> House \cup {None}]
      BY <2>3, <2>5 DEF EnrollmentTypeOK
    <3> QED
      BY <1>4, <2>2, <2>3, <2>5, <3>1 DEF Link, EnrollmentTypeOK
  <2> QED
    BY <1>4, <2>4, <2>5 DEF Link
<1> QED
  BY <1>1, <1>2, <1>3, <1>4 DEF Handle

LEMMA EnrollmentTypesNext ==
  EnrollmentInv /\ EnrollmentTypeOK /\ [EnrollmentNext]_enrollmentVars => EnrollmentTypeOK'
<1> SUFFICES ASSUME EnrollmentInv, EnrollmentTypeOK, [EnrollmentNext]_enrollmentVars
             PROVE  EnrollmentTypeOK'
  OBVIOUS
<1>1. EnrollmentInv'
  BY EnrollmentNextInv
<1>2. Inboxed' /\ IngressTypeOK
  BY <1>1 DEF EnrollmentInv, EnrollmentTypeOK
<1>3. IngressTypeOK'
  <2>1. CASE \E x \in Update : HappensNow(x)
    BY <1>2, <2>1, FeedTypes DEF HappensNow
  <2>2. CASE Enter
    BY <1>2, <2>2, PollerTypes
  <2>3. CASE UNCHANGED ingressVars
    BY <1>2, <2>3, IngressTypesStay
  <2>4. CASE \E i \in Invitation : Issue(i) \/ Expires(i) \/ Ends(i)
    BY <2>3, <2>4 DEF Issue, Expires, Ends
  <2>5. CASE UNCHANGED enrollmentVars
    BY <2>3, <2>5 DEF enrollmentVars
  <2> QED
    BY <2>1, <2>2, <2>3, <2>4, <2>5, HomeTypes DEF EnrollmentNext
<1>4. /\ issued' \subseteq Invitation /\ used' \subseteq issued' /\ over' \subseteq issued'
      /\ left' \subseteq Resident \X House
      /\ active' \in [Resident -> House \cup {None}] /\ reachable' \subseteq Resident
  <2>1. CASE UNCHANGED homeVars
    BY <2>1 DEF homeVars, EnrollmentTypeOK
  <2>2. CASE \E i \in Invitation : Issue(i) \/ Expires(i) \/ Ends(i)
    BY <2>2, InvitationAssumption DEF Issue, Expires, Ends, Residency, EnrollmentTypeOK
  <2>3. CASE \E w \in Worker : Handle(w)
    BY <2>3, HomeTypes DEF EnrollmentTypeOK
  <2>4. CASE UNCHANGED enrollmentVars
    BY <2>1, <2>4 DEF enrollmentVars
  <2> QED
    BY <2>1, <2>2, <2>3, <2>4 DEF EnrollmentNext, HappensNow
<1>5. link' \in [Resident -> User \cup {None}]
  BY <1>1 DEF EnrollmentInv, Linked
<1>6. answers' \subseteq Key \X {"accepted", "denied"}
  <2>1. CASE UNCHANGED answers
    BY <2>1 DEF EnrollmentTypeOK
  <2>2. CASE \E w \in Worker : SendAnswer(w)
    <3>1. PICK w \in Worker : SendAnswer(w)
      BY <2>2
    <3>2. worker[w].event \in Key /\ worker[w].view \in {Nobody, "accepted", "denied"}
      BY <3>1 DEF SendAnswer, At, EnrollmentInv, Handling, Knows, HandlerRow
    <3> QED
      BY <3>1, <3>2 DEF SendAnswer, Subject, View, EnrollmentTypeOK
  <2> QED
    BY <2>1, <2>2 DEF EnrollmentNext, HappensNow, Issue, Expires, Ends, Handle, ClaimUpdate,
       HandleLifecycle, HandleHouse, ReadCode, Link, AnswerFails, End, enrollmentVars
<1> QED
  BY <1>3, <1>4, <1>5, <1>6 DEF EnrollmentTypeOK

\* The feed and what is read of it, the invitations, the residents and their
\* answers keep their types; a code is used or ended only after it was issued.
THEOREM EnrollmentTypeCorrect ==
  EnrollmentSpec => []EnrollmentTypeOK
<1>1. EnrollmentInit => EnrollmentTypeOK
  <2>1. EnrollmentInit => IngressTypeOK
    BY IngressAssumption DEF EnrollmentInit, IngressInit, IngressTypeOK, Started, WorkInit
  <2> QED
    BY <2>1 DEF EnrollmentInit, EnrollmentTypeOK
<1> QED
  BY <1>1, EnrollmentInvariant, EnrollmentTypesNext, PTL DEF EnrollmentSpec
=============================================================================
