-------------------------------- MODULE Intake --------------------------------
(***************************************************************************)
(* From what residents write to a case that is put to its neighbours:      *)
(* reports that are recorded at once or by a run of the agent, the consent *)
(* of the author, the poll and its result, and photos sent meanwhile.      *)
(* Every handler is a chain of short transactions; between two of them the *)
(* case may be moved on by another handler, or the worker may die.         *)
(* Fulfilment takes the case over once a request is ready.                 *)
(* (application/agent/messages.py, message_agent.py, resident_production.py*)
(* agent/continuation.py, application/cases/confirmation.py, production.py)*)
(***************************************************************************)
EXTENDS Cases, EventWork

CONSTANTS Press      \* buttons pressed and /confirm commands

VARIABLES prompted,  \* who was asked to confirm which case
          run        \* the run of the agent on each report

intakeVars == <<prompted, run>>
vars == <<caseVars, intakeVars, workVars, disruptions>>

Resident == {AuthorOf[r] : r \in Report}
Detected(c) == <<"detected", c>>
Decided(c)  == <<"decided", c>>

Event == Report \cup Press
           \cup {Detected(c) : c \in Operation} \cup {Decided(c) : c \in Operation}

ASSUME IntakeAssumption ==
  /\ Press \cap Report = {}
  /\ \A c \in Operation : {Detected(c), Decided(c)} \cap (Press \cup Report) = {}

\* What a worker has read of a case, and where the run of the agent is.
Nothing == [case |-> None, version |-> 0, call |-> 0, failed |-> FALSE]
Seen(c) == [Nothing EXCEPT !.case = c,
                           !.version = IF c = None THEN 0 ELSE cases[c].version]

TypeOK ==
  /\ CasesTypeOK
  /\ prompted \subseteq Resident \X Operation
  /\ run \in [Report -> {"none", "running", "failed", "completed"}]
  /\ disruptions \in 0..MaxDisruptions

Init ==
  /\ CasesInit
  /\ WorkInit(Event)
  /\ prompted = {}
  /\ run = [r \in Report |-> "none"]

-----------------------------------------------------------------------------
(* Residents, time and the parts that other modules have *)

SendReport(r) ==
  /\ event' = Stored(r, Nobody)
  /\ UNCHANGED <<caseVars, intakeVars, worker, disruptions>>

\* The buttons name a case and were shown to the one who presses them; the
\* command /confirm, or a plain yes, names none.
PressButton(p, a, c, yes) ==
  /\ \/ <<a, c>> \in prompted
     \/ c = None /\ yes /\ \E d \in Operation : MayConfirm(a, d)
  /\ event' = Stored(p, [by |-> a, case |-> c, yes |-> yes])
  /\ UNCHANGED <<caseVars, intakeVars, worker, disruptions>>

\* The poll ends, as Poll has it, and stores the event of its result.
PollEnds(c, outcome) ==
  /\ poll[c] = "open"
  /\ poll' = [poll EXCEPT ![c] = outcome]
  /\ event' = Stored(Decided(c), Nobody)
  /\ UNCHANGED <<cases, linked, remembered,
                 intakeVars, worker, disruptions>>

\* The rest of the way of a case, which Fulfilment has; and thirty days, in
\* which every report that is linked to the case has long been settled.
Resolve(c) ==
  /\ cases[c].status = "request_ready"
  /\ cases' = Moved(c, "closed")
  /\ UNCHANGED <<linked, remembered, poll,
                 intakeVars, workVars, disruptions>>

Age(c) ==
  /\ cases[c].recent
  /\ \A r \in Report : c \in linked[r] => event[r].status = "settled"
  /\ cases' = [cases EXCEPT ![c].recent = FALSE]
  /\ UNCHANGED <<linked, remembered, poll,
                 intakeVars, workVars, disruptions>>

Environment ==
  \/ \E r \in Report : event[r].status = "absent" /\ SendReport(r)
  \/ \E p \in Press, a \in Resident, c \in Operation \cup {None}, yes \in BOOLEAN :
       event[p].status = "absent" /\ PressButton(p, a, c, yes)
  \/ \E c \in Operation : Resolve(c) \/ Age(c)

-----------------------------------------------------------------------------
(* A report with one clear problem is recorded without the language model *)

\* assess searches in one transaction and takes the first of what it finds,
Search(w) ==
  LET r == Subject(w) IN
  /\ At(w, "start") /\ r \in Report \ ByAgent
  /\ \E c \in FoundFirst(r) : Read(w, "write", Seen(c))
  /\ UNCHANGED <<caseVars, intakeVars, event, disruptions>>

\* and writes in another, with the id of the message as that of the operation.
Write(w) ==
  LET o == <<Subject(w), 0>>  seen == View(w)
      attach == CanAttach(o, seen.case, seen.version)
      able == IF seen.case = None THEN CanCreate(o) ELSE attach IN
  /\ At(w, "write")
  /\ Transaction(w, able,
       /\ IF seen.case = None THEN Create(o) ELSE Attach(o, seen.case, seen.version)
       /\ UNCHANGED event,
       UNCHANGED <<cases, linked, remembered>>, "reply")
  /\ UNCHANGED <<poll, intakeVars, disruptions>>

\* The reply asks for a confirmation if the case of the message waits for one;
\* a message with two cases has no reply, for the query expects one row.
Reply(w) ==
  LET r == Subject(w)
      asked == {c \in linked[r] : cases[c].status = "awaiting_confirmation"} IN
  /\ At(w, "reply")
  /\ Transaction(w, Cardinality(linked[r]) <= 1,
       prompted' = prompted \cup {<<AuthorOf[r], c>> : c \in asked} /\ UNCHANGED event,
       UNCHANGED prompted, "finish")
  /\ UNCHANGED <<caseVars, run, disruptions>>

-----------------------------------------------------------------------------
(* A report that is left to the language model *)

\* run_event: one run per message.  A completed one answers with no text.
BeginRun(w) ==
  LET r == Subject(w) IN
  /\ At(w, "start") /\ r \in ByAgent
  /\ IF run[r] = "completed" THEN Goto(w, "finish") /\ UNCHANGED run
     ELSE /\ run' = [run EXCEPT ![r] = IF @ = "none" THEN "running" ELSE @]
          /\ Read(w, "think", Nothing)
  /\ UNCHANGED <<caseVars, prompted, event, disruptions>>

\* A call of a tool, whose arguments are the model's own: which case, and at
\* which version, that a search or an older message may have shown.  A tool that
\* raises says so, and the model cannot complete the run except by a new case.
Calling(w) == At(w, "think") /\ View(w).call < MaxCalls
CallId(w) == <<Subject(w), View(w).call + 1>>
Called(w, failed) ==
  Read(w, "think", [View(w) EXCEPT !.call = @ + 1, !.failed = @ \/ failed])

CallFails(w) ==
  /\ Calling(w)
  /\ Called(w, TRUE)
  /\ UNCHANGED <<caseVars, intakeVars, event, disruptions>>

CallCreate(w) ==
  /\ Calling(w)
  /\ CanCreate(CallId(w))
  /\ Create(CallId(w))
  /\ Read(w, "created", Nothing)
  /\ UNCHANGED <<poll, intakeVars, event, disruptions>>

CallAttach(w) ==
  /\ Calling(w)
  /\ \E c \in Operation : \E version \in {cases[c].version, remembered[CallId(w)].version} :
       /\ Exists(c) /\ CanAttach(CallId(w), c, version)
       /\ Attach(CallId(w), c, version)
  /\ Called(w, FALSE)
  /\ UNCHANGED <<poll, intakeVars, event, disruptions>>

\* complete_run: a run that is completed stays so.  After one that failed the
\* event is tried again, unless it was the arguments of a call that were wrong,
\* of which the resident is told.
CompleteRun(w) ==
  LET r == Subject(w) IN
  /\ At(w, "think") \/ At(w, "created")
  /\ \E failed \in {View(w).failed, At(w, "think")} :
       /\ run' = [run EXCEPT ![r] = IF failed /\ @ # "completed" THEN "failed" ELSE "completed"]
       /\ IF failed THEN Raise(w) \/ (run[r] # "completed" /\ Proceed(w, "reply"))
          ELSE Proceed(w, "reply")
  /\ UNCHANGED <<caseVars, prompted, disruptions>>

-----------------------------------------------------------------------------
(* Consent, poll and result *)

\* _apply of the buttons, and _confirm of the command, which takes the latest of
\* the cases that wait for their author.  Anything else is only answered.
ApplyPress(w) ==
  LET press == About(w)
      named == IF press.case = None THEN Operation ELSE {press.case}
      meant == {c \in named : MayConfirm(press.by, c)} IN
  /\ At(w, "start") /\ Subject(w) \in Press
  /\ IF meant = {} THEN UNCHANGED cases /\ Proceed(w, "finish")
     ELSE \E c \in meant :
            /\ Confirm(c, press.yes)
            /\ event' = IF press.yes THEN Stored(Detected(c), cases[c].version + 1) ELSE event
            /\ Goto(w, "finish")
  /\ UNCHANGED <<linked, remembered, poll, intakeVars, disruptions>>

\* A confirmed problem opens its poll on the version at which it was confirmed.
HandleDetected(w) ==
  /\ At(w, "start")
  /\ \E c \in Operation :
       /\ Subject(w) = Detected(c)
       /\ IF cases[c].status # "detected" THEN UNCHANGED <<cases, poll>> /\ Proceed(w, "finish")
          ELSE Transaction(w, cases[c].version = About(w), OpenPoll(c) /\ UNCHANGED event,
                           UNCHANGED <<cases, poll>>, "finish")
  /\ UNCHANGED <<linked, remembered, intakeVars, disruptions>>

\* The result is applied once; the run of the agent that follows may fail.
HandleDecided(w) ==
  /\ At(w, "start")
  /\ \E c \in Operation :
       /\ Subject(w) = Decided(c)
       /\ IF cases[c].status = "collecting" THEN Decide(c) ELSE UNCHANGED cases
  /\ Proceed(w, "agent")
  /\ UNCHANGED <<linked, remembered, poll, intakeVars, disruptions>>

Continue(w) ==
  /\ At(w, "agent")
  /\ Finish(w) \/ Raise(w)
  /\ UNCHANGED <<caseVars, intakeVars, disruptions>>

-----------------------------------------------------------------------------

FinishEvent(w) ==
  /\ At(w, "finish")
  /\ Finish(w)
  /\ UNCHANGED <<caseVars, intakeVars, disruptions>>

Work(w) ==
  \/ Search(w) \/ Write(w) \/ Reply(w)
  \/ BeginRun(w) \/ CallFails(w) \/ CallCreate(w) \/ CallAttach(w) \/ CompleteRun(w)
  \/ ApplyPress(w) \/ HandleDetected(w) \/ HandleDecided(w) \/ Continue(w)
  \/ FinishEvent(w)

ClaimEvent(e) == \E w \in Worker : Claim(w, e) /\ UNCHANGED <<caseVars, intakeVars>>
PollIsOver(c) == \E o \in {"request_ready", "needs_evidence"} : PollEnds(c, o)

Next ==
  \/ Environment
  \/ \E c \in Operation : PollIsOver(c)
  \/ \E w \in Worker : Work(w)
  \/ \E e \in Event : ClaimEvent(e)
  \/ Disturb /\ UNCHANGED <<caseVars, intakeVars>>

Spec == Init /\ [][Next]_vars

\* Workers run for ever and polls have an end; residents owe nothing.  As there
\* is an end to what is tried, it is enough that the workers go on with something.
Fairness ==
  /\ WF_vars(\E w \in Worker : Work(w))
  /\ WF_vars(\E e \in Event : ClaimEvent(e))
  /\ WF_vars(\E c \in Operation : PollIsOver(c))

FairSpec == Spec /\ Fairness

-----------------------------------------------------------------------------
(* The rows as a book of cases *)

\* What buttons and commands have said, from the moment they are in the inbox.
Sayings == {event[p].about : p \in {q \in Press : event[q].status # "absent"}}

Book == INSTANCE CaseOpening WITH
  Case <- Operation, Plain <- Report \ ByAgent, FirstOf <- [c \in Operation |-> c[1]],
  stage <- [c \in Operation |-> cases[c].status], joined <- linked,
  said <- Sayings, answer <- poll

-----------------------------------------------------------------------------
(* Properties *)

\* A place has one open case, whatever was searched, created and closed at the
\* same time: what a report or a run found is looked at again under the lock.
OneOpenCase ==
  \A c, d \in Operation :
    IsOpen(c) /\ IsOpen(d) /\ PlaceOfCase(c) = PlaceOfCase(d) => c = d

\* Neighbours are asked about a problem only after its author wanted it, though
\* others who reported it are shown the same buttons.
PolledByConsent ==
  \A c \in Operation :
    cases[c].status \notin {"none", "awaiting_confirmation", "closed"} \/ poll[c] # "none"
      => \E p \in Press : /\ event[p].status # "absent"
                          /\ event[p].about.yes
                          /\ event[p].about.by = Origin(c)
                          /\ event[p].about.case \in {c, None}

\* A message with one clear problem belongs to one case, though its handler may
\* run again when the place has got another case in the meantime.
LinkedOnce ==
  \A r \in Report \ ByAgent : Cardinality(linked[r]) <= 1

\* Rows, events, runs of the agent and workers together are one book of cases:
\* nothing is begun, asked, decided or closed twice or out of order, a result is
\* that of its poll, and a report joins only what is open.
ImplementsCaseOpening == Book!Spec

\* A case whose author has agreed is put to the vote and decided, through failing
\* runs, crashes and lost leases, unless it was moved on before its poll opened:
\* again and again there is no such case that waits.
UntouchedCaseIsDecided ==
  []<>(\A c \in Operation :
         cases[c].status \in {"detected", "collecting"} =>
           cases[c].status = "detected" /\ cases[c].version # event[Detected(c)].about)

-----------------------------------------------------------------------------
(* What the documents say and the code does not keep *)

\* A message that reports a problem is recorded with a case, an old or a new one.
EveryReportIsRecorded ==
  \A r \in Report \ ByAgent : event[r].status = "settled" => linked[r] # {}
=============================================================================
