----------------------------- MODULE IntakeProofs -----------------------------
(***************************************************************************)
(* The way from a report to its poll, for any reports, places, workers,    *)
(* attempts and calls of tools: three invariants, and the proof that the   *)
(* handlers keep the book of cases.                                        *)
(*                                                                         *)
(* A place has one open case: this is inductive with the shape of the rows *)
(* alone, for whatever a handler remembers, only create_case opens a case, *)
(* and that looks at the place under its lock.                             *)
(*                                                                         *)
(* A message has one case, and a poll the consent of its author: these need*)
(* to know which event a worker is at in each step of its handler, that an *)
(* event in work is stored and keeps what it carries, and what an operation*)
(* that is remembered has linked.                                          *)
(*                                                                         *)
(* The book needs to know besides that a case exists only with its         *)
(* operation, has no poll before it is put to the vote, and that a result  *)
(* is in the inbox only when its poll is over.                             *)
(***************************************************************************)
EXTENDS Intake, FiniteSetTheorems, TLAPS

\* The words that stand in a row for the status of a case or of its poll.
Word == CaseStatus \cup PollState

\* The rows of cases and polls are what their tables hold.
Rows ==
  /\ cases \in [Operation -> [status : Word, version : Nat, recent : BOOLEAN]]
  /\ poll \in [Operation -> Word]

Unrivalled == Rows /\ OneOpenCase

-----------------------------------------------------------------------------

\* A write to an open case opens no other one.
LEMMA MovedKeeps ==
  ASSUME NEW c \in Operation, NEW status \in Word,
         Unrivalled, IsOpen(c), cases' = Moved(c, status), poll' \in [Operation -> Word]
  PROVE  Unrivalled'
<1>1. cases' \in [Operation -> [status : Word, version : Nat, recent : BOOLEAN]]
  BY DEF Unrivalled, Rows, Moved
<1>2. \A d \in Operation : IsOpen(d)' => IsOpen(d)
  BY DEF Unrivalled, Rows, Moved, IsOpen
<1> QED
  BY <1>1, <1>2 DEF Unrivalled, Rows, OneOpenCase, PlaceOfCase

\* A write that leaves the status of a case alone opens none.
LEMMA TouchedKeeps ==
  ASSUME NEW c, Unrivalled, cases' = Moved(c, cases[c].status), UNCHANGED poll
  PROVE  Unrivalled'
<1>1. CASE c \in Operation
  <2>1. cases' \in [Operation -> [status : Word, version : Nat, recent : BOOLEAN]]
    BY <1>1 DEF Unrivalled, Rows, Moved
  <2>2. \A d \in Operation : IsOpen(d)' => IsOpen(d)
    BY <1>1 DEF Unrivalled, Rows, Moved, IsOpen
  <2> QED
    BY <2>1, <2>2 DEF Unrivalled, Rows, OneOpenCase, PlaceOfCase
<1>2. CASE c \notin Operation
  <2>1. cases' = cases
    BY <1>2 DEF Unrivalled, Rows, Moved
  <2> QED
    BY <2>1 DEF Unrivalled, Rows, OneOpenCase, PlaceOfCase, IsOpen
<1> QED
  BY <1>1, <1>2

\* What changes neither cases nor polls keeps the invariant.
LEMMA StillKeeps ==
  ASSUME Unrivalled, UNCHANGED <<cases, poll>>
  PROVE  Unrivalled'
BY DEF Unrivalled, Rows, OneOpenCase, PlaceOfCase, IsOpen

\* create_case looks at its place under the lock.
LEMMA CreateKeeps ==
  ASSUME NEW o, Unrivalled, CanCreate(o), Create(o), UNCHANGED poll
  PROVE  Unrivalled'
<1>1. CASE Known(o)
  BY <1>1, StillKeeps DEF Create
<1>2. CASE ~ Known(o) /\ o \in Operation
  <2> DEFINE row == [status |-> "awaiting_confirmation", version |-> 1, recent |-> FALSE]
  <2>1. cases' = [cases EXCEPT ![o] = row]
    BY <1>2 DEF Create
  <2>2. row \in [status : Word, version : Nat, recent : BOOLEAN]
    BY DEF Word, CaseStatus
  <2>3. cases' \in [Operation -> [status : Word, version : Nat, recent : BOOLEAN]]
    BY <2>1, <2>2 DEF Unrivalled, Rows
  <2>4. \A c \in Operation : IsOpen(c) => PlaceOfCase(c) # PlaceOfCase(o)
    BY <1>2, CaseAssumption DEF CanCreate, Same, Known, Untried
  <2>5. \A d \in Operation \ {o} : IsOpen(d)' => IsOpen(d)
    BY <2>1 DEF Unrivalled, Rows, IsOpen
  <2> QED
    BY <2>3, <2>4, <2>5 DEF Unrivalled, Rows, OneOpenCase, PlaceOfCase
<1>3. CASE ~ Known(o) /\ o \notin Operation
  <2>1. cases' = cases
    BY <1>3 DEF Create, Unrivalled, Rows
  <2> QED
    BY <2>1, StillKeeps
<1> QED
  BY <1>1, <1>2, <1>3

LEMMA AttachKeeps ==
  ASSUME NEW o, NEW c, NEW version, Unrivalled, Attach(o, c, version), UNCHANGED poll
  PROVE  Unrivalled'
BY StillKeeps, TouchedKeeps DEF Attach

-----------------------------------------------------------------------------

\* Age moves no status.
LEMMA AgeKeeps ==
  ASSUME NEW c \in Operation, Unrivalled, Age(c)
  PROVE  Unrivalled'
<1>1. cases' \in [Operation -> [status : Word, version : Nat, recent : BOOLEAN]]
  BY DEF Unrivalled, Rows, Age
<1>2. \A d \in Operation : IsOpen(d)' => IsOpen(d)
  BY DEF Unrivalled, Rows, Age, IsOpen
<1> QED
  BY <1>1, <1>2 DEF Unrivalled, Rows, OneOpenCase, PlaceOfCase, Age

\* The end of a poll moves no case.
LEMMA PollEndsKeeps ==
  ASSUME NEW c \in Operation, NEW outcome \in PollState, Unrivalled, PollEnds(c, outcome)
  PROVE  Unrivalled'
BY DEF Unrivalled, Rows, PollEnds, OneOpenCase, PlaceOfCase, IsOpen, Word

\* Whatever the search had found, the write looks again.
LEMMA WriteKeeps ==
  ASSUME NEW w, Unrivalled, Write(w)
  PROVE  Unrivalled'
<1> DEFINE o == <<Subject(w), 0>>
           seen == View(w)
           able == IF seen.case = None THEN CanCreate(o)
                   ELSE CanAttach(o, seen.case, seen.version)
<1>1. UNCHANGED poll
  BY DEF Write
<1>2. CASE UNCHANGED cases
  BY <1>1, <1>2, StillKeeps
<1>3. CASE /\ able
           /\ IF seen.case = None THEN Create(o) ELSE Attach(o, seen.case, seen.version)
  BY <1>1, <1>3, CreateKeeps, AttachKeeps
<1> QED
  BY <1>2, <1>3 DEF Write, Transaction

\* A button confirms a case that waits, which is open.
LEMMA ApplyPressKeeps ==
  ASSUME NEW w, Unrivalled, ApplyPress(w)
  PROVE  Unrivalled'
<1>1. UNCHANGED poll
  BY DEF ApplyPress
<1>2. CASE UNCHANGED cases
  BY <1>1, <1>2, StillKeeps
<1>3. CASE \E c : MayConfirm(About(w).by, c) /\ Confirm(c, About(w).yes)
  <2>1. PICK c : MayConfirm(About(w).by, c) /\ Confirm(c, About(w).yes)
    BY <1>3
  <2>2. CASE c \in Operation
    <3>1. IsOpen(c)
      BY <2>1 DEF MayConfirm, IsOpen
    <3>2. PICK status \in {"detected", "closed"} : cases' = Moved(c, status)
      BY <2>1 DEF Confirm
    <3> QED
      BY <1>1, <2>2, <3>1, <3>2, MovedKeeps DEF Unrivalled, Rows, Word, CaseStatus
  <2>3. CASE c \notin Operation
    <3>1. cases' = cases
      BY <2>1, <2>3 DEF Confirm, Moved, Unrivalled, Rows
    <3> QED
      BY <1>1, <3>1, StillKeeps
  <2> QED
    BY <2>2, <2>3
<1> QED
  BY <1>2, <1>3 DEF ApplyPress

\* A poll is opened for a case that was confirmed, which is open.
LEMMA HandleDetectedKeeps ==
  ASSUME NEW w, Unrivalled, HandleDetected(w)
  PROVE  Unrivalled'
<1>1. CASE UNCHANGED <<cases, poll>>
  BY <1>1, StillKeeps
<1>2. CASE \E c \in Operation : cases[c].status = "detected" /\ OpenPoll(c)
  <2>1. PICK c \in Operation : cases[c].status = "detected" /\ OpenPoll(c)
    BY <1>2
  <2>2. IsOpen(c)
    BY <2>1 DEF IsOpen
  <2>3. poll' \in [Operation -> Word]
    BY <2>1 DEF OpenPoll, Unrivalled, Rows, Word, PollState
  <2>4. PICK status \in {"collecting", "needs_evidence"} : cases' = Moved(c, status)
    BY <2>1 DEF OpenPoll
  <2> QED
    BY <2>2, <2>3, <2>4, MovedKeeps DEF Word, CaseStatus
<1> QED
  BY <1>1, <1>2 DEF HandleDetected, Transaction

\* The result is applied to a case that waits for it, which is open.
LEMMA HandleDecidedKeeps ==
  ASSUME NEW w, Unrivalled, HandleDecided(w)
  PROVE  Unrivalled'
<1>1. UNCHANGED poll
  BY DEF HandleDecided
<1>2. CASE UNCHANGED cases
  BY <1>1, <1>2, StillKeeps
<1>3. CASE \E c \in Operation : cases[c].status = "collecting" /\ Decide(c)
  <2>1. PICK c \in Operation : cases[c].status = "collecting" /\ Decide(c)
    BY <1>3
  <2>2. IsOpen(c)
    BY <2>1 DEF IsOpen
  <2> QED
    BY <1>1, <2>1, <2>2, MovedKeeps DEF Decide, Unrivalled, Rows
<1> QED
  BY <1>2, <1>3 DEF HandleDecided

\* Every other step of a worker writes neither cases nor polls.
LEMMA WorkKeeps ==
  ASSUME NEW w \in Worker, Unrivalled, Work(w)
  PROVE  Unrivalled'
<1>1. CASE Search(w)
  BY <1>1, StillKeeps DEF Search, caseVars
<1>2. CASE Write(w)
  BY <1>2, WriteKeeps
<1>3. CASE Reply(w)
  BY <1>3, StillKeeps DEF Reply, caseVars
<1>4. CASE BeginRun(w)
  BY <1>4, StillKeeps DEF BeginRun, caseVars
<1>5. CASE CallFails(w)
  BY <1>5, StillKeeps DEF CallFails, caseVars
<1>6. CASE CallCreate(w)
  BY <1>6, CreateKeeps DEF CallCreate
<1>7. CASE CallAttach(w)
  BY <1>7, AttachKeeps DEF CallAttach
<1>8. CASE CompleteRun(w)
  BY <1>8, StillKeeps DEF CompleteRun, caseVars
<1>9. CASE ApplyPress(w)
  BY <1>9, ApplyPressKeeps
<1>10. CASE HandleDetected(w)
  BY <1>10, HandleDetectedKeeps
<1>11. CASE HandleDecided(w)
  BY <1>11, HandleDecidedKeeps
<1>12. CASE Continue(w)
  BY <1>12, StillKeeps DEF Continue, caseVars
<1>13. CASE FinishEvent(w)
  BY <1>13, StillKeeps DEF FinishEvent, caseVars
<1> QED
  BY <1>1, <1>2, <1>3, <1>4, <1>5, <1>6, <1>7, <1>8, <1>9, <1>10, <1>11, <1>12, <1>13
     DEF Work

\* Residents report and press, and what other modules do closes cases only.
LEMMA EnvironmentKeeps ==
  ASSUME Unrivalled, Environment
  PROVE  Unrivalled'
<1>1. CASE \E r \in Report : SendReport(r)
  BY <1>1, StillKeeps DEF SendReport, caseVars
<1>2. CASE \E p \in Press, a \in Resident, c \in Operation \cup {None}, yes \in BOOLEAN :
             PressButton(p, a, c, yes)
  BY <1>2, StillKeeps DEF PressButton, caseVars
<1>3. CASE \E c \in Operation : Resolve(c)
  <2>1. PICK c \in Operation : Resolve(c)
    BY <1>3
  <2>2. IsOpen(c)
    BY <2>1 DEF Resolve, IsOpen
  <2> QED
    BY <2>1, <2>2, MovedKeeps DEF Resolve, Unrivalled, Rows, Word, CaseStatus
<1>4. CASE \E c \in Operation : Age(c)
  BY <1>4, AgeKeeps
<1> QED
  BY <1>1, <1>2, <1>3, <1>4 DEF Environment

\* The invariant holds at the start, where there is no case,
LEMMA InitUnrivalled ==
  Init => Unrivalled
<1> SUFFICES ASSUME Init
             PROVE  Unrivalled
  OBVIOUS
<1>1. NoRow \in [status : Word, version : Nat, recent : BOOLEAN]
  BY DEF NoRow, Word, CaseStatus
<1>2. Rows
  BY <1>1 DEF Init, CasesInit, Rows, Word, PollState
<1>3. \A c \in Operation : ~ IsOpen(c)
  BY DEF Init, CasesInit, NoRow, IsOpen
<1> QED
  BY <1>2, <1>3 DEF Unrivalled, OneOpenCase

\* and every step keeps it.
LEMMA NextUnrivalled ==
  Unrivalled /\ [Next]_vars => Unrivalled'
<1> SUFFICES ASSUME Unrivalled, [Next]_vars
             PROVE  Unrivalled'
  OBVIOUS
<1>1. CASE Environment
  BY <1>1, EnvironmentKeeps
<1>2. CASE \E c \in Operation : PollIsOver(c)
  BY <1>2, PollEndsKeeps DEF PollIsOver, PollState
<1>3. CASE \E w \in Worker : Work(w)
  BY <1>3, WorkKeeps
<1>4. CASE \E e \in Event : ClaimEvent(e)
  BY <1>4, StillKeeps DEF ClaimEvent, caseVars
<1>5. CASE UNCHANGED caseVars
  BY <1>5, StillKeeps DEF caseVars
<1> QED
  BY <1>1, <1>2, <1>3, <1>4, <1>5 DEF Next, vars

\* A place has one open case: two residents may report one problem at once, runs
\* of the agent may call create_case with anything, and handlers may be repeated
\* and overtaken, but what they have found is looked at again under the lock.
THEOREM IntakeOneOpenCase ==
  Spec => []OneOpenCase
<1>1. Unrivalled => OneOpenCase
  BY DEF Unrivalled
<1> QED
  BY <1>1, InitUnrivalled, NextUnrivalled, PTL DEF Spec

-----------------------------------------------------------------------------
(* Events and workers *)

PressRecord == [by : Resident, case : Operation \cup {None}, yes : BOOLEAN]
SeenRecord  == [case : Operation \cup {None}, version : Nat, call : Nat, failed : BOOLEAN]
Carried     == {Nobody} \cup Nat \cup PressRecord

EventRow == [status : {"absent", "pending", "processing", "settled"}, attempts : Nat,
             owner : Worker \cup {Nobody}, about : Carried]

Step == {"start", "write", "reply", "think", "created", "agent", "finish"}

WorkerRow == [event : Event \cup {Nobody}, step : Step, view : {Nobody} \cup SeenRecord]

\* What an event must be for a worker to be at a step of its handler.
Fits(e, step, view) ==
  /\ step \in {"think", "created"} => e \in ByAgent
  /\ step = "write" => e \in Report \ ByAgent
  /\ step = "reply" => e \in Report
  /\ step \in {"think", "write"} => view \in SeenRecord

Inboxed ==
  /\ event \in [Event -> EventRow]
  /\ \A p \in Press : event[p].status # "absent" => event[p].about \in PressRecord

Duties ==
  /\ worker \in [Worker -> WorkerRow]
  /\ \A w \in Worker :
       /\ worker[w] # Idle => /\ worker[w].event \in Event
                              /\ event[worker[w].event].status # "absent"
       /\ Fits(worker[w].event, worker[w].step, worker[w].view)

\* An event that is stored stays, with what it carries.
Kept ==
  \A e \in Event : event[e].status # "absent" =>
    event'[e].status # "absent" /\ event'[e].about = event[e].about

LEMMA StoredKeeps ==
  ASSUME Inboxed, NEW e \in Event, NEW about \in Carried,
         e \in Press => about \in PressRecord, event' = Stored(e, about)
  PROVE  Inboxed' /\ Kept
<1>1. event' \in [Event -> EventRow]
  BY DEF Inboxed, Stored, EventRow
<1>2. \A d \in Event \ {e} : event'[d] = event[d]
  BY DEF Inboxed, Stored
<1>3. \/ event'[e] = event[e] /\ event[e].status # "absent"
      \/ event[e].status = "absent" /\ event'[e].about = about
  BY DEF Inboxed, Stored, EventRow
<1> QED
  BY <1>1, <1>2, <1>3 DEF Inboxed, Kept, Event

LEMMA SameEvents ==
  ASSUME Inboxed, UNCHANGED event
  PROVE  Inboxed' /\ Kept
BY DEF Inboxed, Kept

\* Who is not at work in this step stays where he was.
LEMMA OthersStay ==
  ASSUME Duties, Kept, UNCHANGED worker
  PROVE  Duties'
BY DEF Duties, Kept

LEMMA ReadKeeps ==
  ASSUME Duties, Kept, NEW w \in Worker, worker[w] # Idle,
         NEW step \in Step, NEW view \in {Nobody} \cup SeenRecord,
         Read(w, step, view), Fits(Subject(w), step, view)
  PROVE  Duties'
<1>1. worker' \in [Worker -> WorkerRow]
  BY DEF Duties, Read, WorkerRow
<1>2. \A v \in Worker \ {w} : worker'[v] = worker[v]
  BY DEF Duties, Read
<1>3. /\ worker'[w].event = Subject(w)
      /\ worker'[w].step = step
      /\ worker'[w].view = view
  BY DEF Duties, Read, Subject, WorkerRow
<1> QED
  BY <1>1, <1>2, <1>3 DEF Duties, Kept, Subject

\* The worker is idle again.
LEMMA IdleKeeps ==
  ASSUME Duties, Kept, NEW w \in Worker, worker' = [worker EXCEPT ![w] = Idle]
  PROVE  Duties'
<1>1. Idle \in WorkerRow
  BY DEF Idle, WorkerRow, Step
<1>2. worker' \in [Worker -> WorkerRow]
  BY <1>1 DEF Duties
<1>3. \A v \in Worker \ {w} : worker'[v] = worker[v]
  BY DEF Duties
<1>4. worker'[w] = Idle
  BY DEF Duties
<1> QED
  BY <1>2, <1>3, <1>4 DEF Duties, Kept, Fits, Idle

\* A row that is written over by one with the same content.
LEMMA RowKeeps ==
  ASSUME Inboxed, NEW e \in Event, NEW row \in EventRow,
         row.status # "absent", row.about = event[e].about, event[e].status # "absent",
         event' = [event EXCEPT ![e] = row]
  PROVE  Inboxed' /\ Kept
BY DEF Inboxed, Kept, Event

LEMMA ConcludeKeeps ==
  ASSUME Inboxed, Duties, NEW w \in Worker, worker[w] # Idle, Finish(w) \/ Raise(w)
  PROVE  Inboxed' /\ Kept /\ Duties'
<1> DEFINE e == Subject(w)
           row == event[e]
           done == Settled(row)
           again == [row EXCEPT !.status = "pending", !.owner = Nobody]
<1>1. e \in Event /\ row \in EventRow /\ row.status # "absent"
  BY DEF Inboxed, Duties, Subject
<1>2. /\ done \in EventRow /\ done.status = "settled" /\ done.about = row.about
      /\ again \in EventRow /\ again.status = "pending" /\ again.about = row.about
  BY <1>1 DEF EventRow, Settled
<1>3. PICK new \in {done, again} :
        /\ event' = IF event[e].owner = w THEN [event EXCEPT ![e] = new] ELSE event
        /\ worker' = [worker EXCEPT ![w] = Idle]
  BY DEF Finish, Raise, Conclude
<1>4. Inboxed' /\ Kept
  <2>1. CASE event[e].owner = w
    BY <1>1, <1>2, <1>3, <2>1, RowKeeps
  <2>2. CASE event[e].owner # w
    BY <1>3, <2>2, SameEvents
  <2> QED
    BY <2>1, <2>2
<1>5. Duties'
  BY <1>3, <1>4, IdleKeeps
<1> QED
  BY <1>4, <1>5

LEMMA TakeKeeps ==
  ASSUME Inboxed, Duties, NEW w \in Worker, NEW e \in Event, event[e].status # "absent",
         Take(w, e)
  PROVE  Inboxed' /\ Kept /\ Duties'
<1> DEFINE attempts == IF event[e].attempts < MaxAttempts THEN event[e].attempts + 1
                       ELSE event[e].attempts
           row == [event[e] EXCEPT !.status = "processing", !.owner = w,
                                   !.attempts = attempts]
           job == [event |-> e, step |-> "start", view |-> Nobody]
<1>1. row \in EventRow /\ row.status = "processing" /\ row.about = event[e].about
  <2>1. event[e] \in EventRow
    BY DEF Inboxed
  <2>2. attempts \in Nat
    BY <2>1, WorkAssumption DEF EventRow
  <2> HIDE DEF attempts
  <2> QED
    BY <2>1, <2>2 DEF EventRow
<1>2. event' = [event EXCEPT ![e] = row]
  BY DEF Take, Inboxed
<1>3. Inboxed' /\ Kept
  <2> HIDE DEF row
  <2> QED
    BY <1>1, <1>2, RowKeeps
<1>4. worker' = [worker EXCEPT ![w] = job]
  <2>1. worker' = [worker EXCEPT ![w] = [worker[w] EXCEPT !.event = e]]
    BY DEF Take, Duties
  <2>2. [worker[w] EXCEPT !.event = e] = job
    BY DEF Take, Idle
  <2> QED
    BY <2>1, <2>2
<1>5. job \in WorkerRow
  BY DEF WorkerRow, Step
<1>6. worker' \in [Worker -> WorkerRow]
  BY <1>4, <1>5 DEF Duties
<1>7. \A v \in Worker \ {w} : worker'[v] = worker[v]
  BY <1>4 DEF Duties
<1>8. worker'[w] = job
  BY <1>4 DEF Duties
<1>9. Duties'
  BY <1>3, <1>6, <1>7, <1>8 DEF Duties, Kept, Fits
<1> QED
  BY <1>3, <1>9

LEMMA CrashKeeps ==
  ASSUME Inboxed, Duties, NEW w \in Worker, Crash(w)
  PROVE  Inboxed' /\ Kept /\ Duties'
<1> DEFINE e == worker[w].event
           row == [event[e] EXCEPT !.status = "pending", !.owner = Nobody]
<1>1. e \in Event /\ event[e] \in EventRow /\ event[e].status # "absent"
  BY DEF Inboxed, Duties, Crash
<1>2. row \in EventRow /\ row.status = "pending" /\ row.about = event[e].about
  BY <1>1 DEF EventRow
<1>3. CASE event[e].owner = w
  <2>1. event' = [event EXCEPT ![e] = row]
    BY <1>1, <1>3 DEF Crash, Left, Inboxed
  <2> QED
    BY <1>1, <1>2, <2>1, RowKeeps, IdleKeeps DEF Crash
<1>4. CASE event[e].owner # w
  BY <1>4, SameEvents, IdleKeeps DEF Crash
<1> QED
  BY <1>3, <1>4

-----------------------------------------------------------------------------
(* The tables of messages and operations *)

\* What a message with one clear problem is linked to is remembered.
Linking ==
  /\ linked \in [Report -> SUBSET Operation]
  /\ remembered \in [Operation -> [case : Operation \cup {None}, version : Nat]]
  /\ \A r \in Report \ ByAgent :
       linked[r] \subseteq {remembered[<<r, 0>>].case} \ {None}

IInv ==
  /\ Unrivalled
  /\ Inboxed /\ Duties
  /\ Linking
  /\ PolledByConsent

LEMMA PlainOperation ==
  ASSUME NEW r \in Report \ ByAgent
  PROVE  <<r, 0>> \in Operation
BY CaseAssumption DEF Operation

LEMMA CallOperation ==
  ASSUME NEW w, Calling(w), Subject(w) \in ByAgent, View(w) \in SeenRecord
  PROVE  CallId(w) \in Operation /\ CallId(w)[1] = Subject(w)
<1>1. View(w).call \in Nat /\ View(w).call < MaxCalls
  BY DEF Calling, SeenRecord
<1>2. View(w).call + 1 \in 0..MaxCalls /\ View(w).call + 1 > 0
  BY <1>1, CaseAssumption
<1> QED
  BY <1>2, CaseAssumption DEF CallId, Operation

\* A message is linked to one case as long as its operation is new.
LEMMA LinkKeeps ==
  ASSUME Linking, NEW o \in Operation, NEW c \in Operation, NEW version \in Nat,
         remembered[o] = Untried,
         linked' = [linked EXCEPT ![o[1]] = @ \cup {c}],
         remembered' = [remembered EXCEPT ![o] = [case |-> c, version |-> version]]
  PROVE  Linking'
<1>1. o[1] \in Report /\ o = <<o[1], o[2]>> /\ (o[1] \notin ByAgent => o = <<o[1], 0>>)
  BY DEF Operation
<1>2. linked' \in [Report -> SUBSET Operation]
  BY <1>1 DEF Linking
<1>3. remembered' \in [Operation -> [case : Operation \cup {None}, version : Nat]]
  BY DEF Linking
<1>4. ASSUME NEW r \in Report \ ByAgent
      PROVE  linked'[r] \subseteq {remembered'[<<r, 0>>].case} \ {None}
  <2>1. CASE o[1] = r
    <3>1. o = <<r, 0>>
      BY <1>1, <2>1
    <3>2. linked[r] = {}
      BY <3>1 DEF Linking, Untried
    <3>3. linked'[r] = {c} /\ remembered'[o].case = c /\ c # None
      BY <2>1, <3>2, CaseAssumption DEF Linking
    <3> QED
      BY <3>1, <3>3
  <2>2. CASE o[1] # r
    <3>1. o # <<r, 0>>
      BY <2>2
    <3> QED
      BY <1>1, <2>2, <3>1, PlainOperation DEF Linking
  <2> QED
    BY <2>1, <2>2
<1> QED
  BY <1>2, <1>3, <1>4 DEF Linking

LEMMA UntriedIsUnlinked ==
  ASSUME Linking, NEW o \in Operation, remembered[o] = Untried, o[1] \notin ByAgent
  PROVE  linked[o[1]] = {}
<1>1. o[1] \in Report \ ByAgent /\ o = <<o[1], 0>>
  BY DEF Operation
<1>2. linked[o[1]] \subseteq {remembered[o].case} \ {None}
  BY <1>1 DEF Linking
<1> QED
  BY <1>2 DEF Untried

LEMMA SameLinks ==
  ASSUME Linking, UNCHANGED <<linked, remembered>>
  PROVE  Linking'
BY DEF Linking

LEMMA CreateLinks ==
  ASSUME Linking, NEW o \in Operation, Create(o)
  PROVE  Linking'
BY LinkKeeps, SameLinks DEF Create, Known

LEMMA AttachLinks ==
  ASSUME Linking, NEW o \in Operation, NEW c \in Operation, NEW version \in Nat,
         Attach(o, c, version)
  PROVE  Linking'
BY LinkKeeps, SameLinks DEF Attach, Known

-----------------------------------------------------------------------------
(* Consent *)

Asked(c) ==
  cases[c].status \notin {"none", "awaiting_confirmation", "closed"} \/ poll[c] # "none"

\* A consent that was stored stays, so a step needs one only for a case it asks
\* about for the first time.
LEMMA ConsentKeeps ==
  ASSUME PolledByConsent, Kept, \A c \in Operation : Asked(c)' => Asked(c)
  PROVE  PolledByConsent'
BY DEF PolledByConsent, Asked, Kept, Event, Origin

LEMMA CreateAsksNobody ==
  ASSUME Unrivalled, NEW o, Create(o), UNCHANGED poll
  PROVE  \A c \in Operation : Asked(c)' => Asked(c)
BY DEF Create, Asked, Unrivalled, Rows

LEMMA AttachAsksNobody ==
  ASSUME Unrivalled, NEW o, NEW c, NEW version, Attach(o, c, version), UNCHANGED poll
  PROVE  \A d \in Operation : Asked(d)' => Asked(d)
BY DEF Attach, Moved, Asked, Unrivalled, Rows

-----------------------------------------------------------------------------
(* One lemma per group of steps *)

\* What every step has to show beside one open case.
Preserved == Inboxed' /\ Kept /\ Duties' /\ Linking' /\ PolledByConsent'

\* A step that writes no table of cases.
LEMMA QuietStep ==
  ASSUME IInv, Inboxed' /\ Kept /\ Duties', UNCHANGED caseVars
  PROVE  Preserved
<1>1. \A c \in Operation : Asked(c)' => Asked(c)
  BY DEF caseVars, Asked
<1> QED
  BY <1>1, SameLinks, ConsentKeeps DEF IInv, Preserved, caseVars

\* A step of a worker that reads and writes no event.
LEMMA QuietRead ==
  ASSUME IInv, NEW w \in Worker, worker[w] # Idle,
         NEW step \in Step, NEW view \in {Nobody} \cup SeenRecord,
         Read(w, step, view), Fits(Subject(w), step, view), UNCHANGED event
  PROVE  Inboxed' /\ Kept /\ Duties'
BY SameEvents, ReadKeeps DEF IInv

\* A step to the end of a handler, or to a step that asks nothing of its event.
LEMMA QuietGoto ==
  ASSUME IInv, NEW w \in Worker, worker[w] # Idle,
         NEW step \in {"reply", "agent", "finish"}, step = "reply" => Subject(w) \in Report,
         Goto(w, step), Inboxed' /\ Kept
  PROVE  Duties'
BY ReadKeeps DEF IInv, Goto, Fits, Step

LEMMA SeenTyped ==
  ASSUME Rows, NEW c \in Operation \cup {None}
  PROVE  Seen(c) \in SeenRecord
BY DEF Rows, Seen, Nothing, SeenRecord

LEMMA NothingTyped ==
  Nothing \in SeenRecord
BY DEF Nothing, SeenRecord

LEMMA SearchPreserves ==
  ASSUME IInv, NEW w \in Worker, Search(w)
  PROVE  Preserved
<1>1. PICK c \in Operation \cup {None} : Read(w, "write", Seen(c))
  BY DEF Search, FoundFirst, Candidate
<1>2. Seen(c) \in SeenRecord
  BY SeenTyped DEF IInv, Unrivalled
<1>3. worker[w] # Idle /\ Subject(w) \in Report \ ByAgent
  BY DEF Search, At
<1>4. Inboxed' /\ Kept /\ Duties'
  BY <1>1, <1>2, <1>3, QuietRead DEF Search, Fits, Step
<1> QED
  BY <1>4, QuietStep DEF Search

LEMMA WritePreserves ==
  ASSUME IInv, NEW w \in Worker, Write(w)
  PROVE  Preserved
<1> DEFINE o == <<Subject(w), 0>>
           seen == View(w)
<1>1. /\ worker[w] # Idle
      /\ Subject(w) \in Report \ ByAgent
      /\ seen \in SeenRecord
  BY DEF Write, At, IInv, Duties, Fits, Subject, View
<1>2. o \in Operation
  BY <1>1, PlainOperation
<1>3. CASE /\ IF seen.case = None THEN Create(o) ELSE Attach(o, seen.case, seen.version)
           /\ UNCHANGED event
           /\ Goto(w, "reply")
  <2>1. Inboxed' /\ Kept
    BY <1>3, SameEvents DEF IInv
  <2>2. Duties'
    BY <1>1, <1>3, <2>1, QuietGoto
  <2>3. Linking' /\ (\A c \in Operation : Asked(c)' => Asked(c))
    <3>1. UNCHANGED poll
      BY DEF Write
    <3>2. CASE seen.case = None
      BY <1>2, <1>3, <3>1, <3>2, CreateLinks, CreateAsksNobody DEF IInv
    <3>3. CASE seen.case # None
      <4>1. seen.case \in Operation /\ seen.version \in Nat
        BY <1>1, <3>3 DEF SeenRecord
      <4> QED
        BY <1>2, <1>3, <3>1, <3>3, <4>1, AttachLinks, AttachAsksNobody DEF IInv
    <3> QED
      BY <3>2, <3>3
  <2> QED
    BY <2>1, <2>2, <2>3, ConsentKeeps DEF IInv, Preserved
<1>4. CASE Raise(w) /\ UNCHANGED <<cases, linked, remembered>>
  <2>1. Inboxed' /\ Kept /\ Duties'
    BY <1>1, <1>4, ConcludeKeeps DEF IInv
  <2> QED
    BY <1>4, <2>1, QuietStep DEF Write, caseVars
<1> QED
  BY <1>3, <1>4 DEF Write, Transaction

LEMMA ReplyPreserves ==
  ASSUME IInv, NEW w \in Worker, Reply(w)
  PROVE  Preserved
<1>1. worker[w] # Idle
  BY DEF Reply, At
<1>2. CASE Goto(w, "finish") /\ UNCHANGED event
  <2>1. Inboxed' /\ Kept
    BY <1>2, SameEvents DEF IInv
  <2> QED
    BY <1>1, <1>2, <2>1, QuietGoto, QuietStep DEF Reply
<1>3. CASE Raise(w)
  BY <1>1, <1>3, ConcludeKeeps, QuietStep DEF IInv, Reply
<1> QED
  BY <1>2, <1>3 DEF Reply, Transaction

LEMMA BeginRunPreserves ==
  ASSUME IInv, NEW w \in Worker, BeginRun(w)
  PROVE  Preserved
<1>1. worker[w] # Idle /\ Subject(w) \in ByAgent /\ UNCHANGED event
  BY DEF BeginRun, At
<1>2. CASE Goto(w, "finish")
  <2>1. Inboxed' /\ Kept
    BY <1>1, SameEvents DEF IInv
  <2> QED
    BY <1>1, <1>2, <2>1, QuietGoto, QuietStep DEF BeginRun
<1>3. CASE Read(w, "think", Nothing)
  <2>1. Fits(Subject(w), "think", Nothing)
    BY <1>1, NothingTyped DEF Fits
  <2>2. Inboxed' /\ Kept /\ Duties'
    BY <1>1, <1>3, <2>1, NothingTyped, QuietRead DEF Step
  <2> QED
    BY <2>2, QuietStep DEF BeginRun
<1> QED
  BY <1>2, <1>3 DEF BeginRun

\* A worker that calls tools is at a message that is left to the agent.
LEMMA Caller ==
  ASSUME IInv, NEW w \in Worker, Calling(w)
  PROVE  /\ worker[w] # Idle
         /\ Subject(w) \in ByAgent
         /\ View(w) \in SeenRecord
         /\ CallId(w) \in Operation
<1>1. worker[w] # Idle /\ Subject(w) \in ByAgent /\ View(w) \in SeenRecord
  BY DEF Calling, At, IInv, Duties, Fits, Subject, View
<1> QED
  BY <1>1, CallOperation

LEMMA CalledKeeps ==
  ASSUME IInv, NEW w \in Worker, Calling(w), NEW failed \in BOOLEAN,
         Called(w, failed), UNCHANGED event
  PROVE  Inboxed' /\ Kept /\ Duties'
<1> DEFINE call == View(w).call + 1
           fails == View(w).failed \/ failed
           view == [View(w) EXCEPT !.call = call, !.failed = fails]
<1>1. worker[w] # Idle /\ Subject(w) \in ByAgent /\ View(w) \in SeenRecord
  BY Caller
<1>2. view \in SeenRecord
  <2>1. call \in Nat
    BY <1>1 DEF SeenRecord
  <2>2. fails \in BOOLEAN
    OBVIOUS
  <2> HIDE DEF call, fails
  <2> QED
    BY <1>1, <2>1, <2>2 DEF SeenRecord
<1>3. Read(w, "think", view)
  BY DEF Called
<1> HIDE DEF view
<1>4. Fits(Subject(w), "think", view)
  BY <1>1, <1>2 DEF Fits
<1> QED
  BY <1>1, <1>2, <1>3, <1>4, QuietRead DEF Step

LEMMA CallsPreserve ==
  ASSUME IInv, NEW w \in Worker, CallFails(w) \/ CallCreate(w) \/ CallAttach(w)
  PROVE  Preserved
<1>1. Calling(w)
  BY DEF CallFails, CallCreate, CallAttach
<1>2. /\ worker[w] # Idle /\ Subject(w) \in ByAgent
      /\ CallId(w) \in Operation
  BY <1>1, Caller
<1>3. CASE CallFails(w)
  BY <1>1, <1>3, CalledKeeps, QuietStep DEF CallFails
<1>4. CASE CallCreate(w)
  <2>1. Fits(Subject(w), "created", Nothing)
    BY <1>2 DEF Fits
  <2>2. Inboxed' /\ Kept /\ Duties'
    BY <1>2, <1>4, <2>1, NothingTyped, QuietRead DEF CallCreate, Step
  <2>3. Linking'
    BY <1>2, <1>4, CreateLinks DEF CallCreate, IInv
  <2>4. \A c \in Operation : Asked(c)' => Asked(c)
    BY <1>4, CreateAsksNobody DEF CallCreate, IInv
  <2> QED
    BY <2>2, <2>3, <2>4, ConsentKeeps DEF IInv, Preserved
<1>5. CASE CallAttach(w)
  <2>1. Inboxed' /\ Kept /\ Duties'
    BY <1>1, <1>5, CalledKeeps DEF CallAttach
  <2>2. PICK c \in Operation :
               \E version \in {cases[c].version, remembered[CallId(w)].version} :
                 Attach(CallId(w), c, version)
    BY <1>5 DEF CallAttach
  <2>3. PICK version \in {cases[c].version, remembered[CallId(w)].version} :
               Attach(CallId(w), c, version)
    BY <2>2
  <2>4. version \in Nat
    BY <1>2, <2>3 DEF IInv, Unrivalled, Rows, Linking
  <2>5. Linking'
    BY <1>2, <2>3, <2>4, AttachLinks DEF IInv
  <2>6. \A d \in Operation : Asked(d)' => Asked(d)
    BY <1>5, <2>3, AttachAsksNobody DEF CallAttach, IInv
  <2> QED
    BY <2>1, <2>5, <2>6, ConsentKeeps DEF IInv, Preserved
<1> QED
  BY <1>3, <1>4, <1>5

LEMMA CompleteRunPreserves ==
  ASSUME IInv, NEW w \in Worker, CompleteRun(w)
  PROVE  Preserved
<1>1. worker[w] # Idle /\ Subject(w) \in Report
  BY CaseAssumption DEF CompleteRun, At, IInv, Duties, Fits, Subject
<1>2. CASE Proceed(w, "reply")
  <2>1. Inboxed' /\ Kept
    BY <1>2, SameEvents DEF IInv, Proceed
  <2> QED
    BY <1>1, <1>2, <2>1, QuietGoto, QuietStep DEF CompleteRun, Proceed
<1>3. CASE Raise(w)
  BY <1>1, <1>3, ConcludeKeeps, QuietStep DEF IInv, CompleteRun
<1> QED
  BY <1>2, <1>3 DEF CompleteRun

\* A press is applied to a case of the one who pressed, and is the consent.
LEMMA ApplyPressPreserves ==
  ASSUME IInv, NEW w \in Worker, ApplyPress(w)
  PROVE  Preserved
<1> DEFINE press == About(w)
<1>1. worker[w] # Idle /\ Subject(w) \in Press
  BY DEF ApplyPress, At
<1>2. event[Subject(w)].status # "absent" /\ press \in PressRecord
  BY <1>1 DEF IInv, Duties, Inboxed, Subject, About
<1>3. CASE UNCHANGED cases /\ Proceed(w, "finish")
  <2>1. Inboxed' /\ Kept
    BY <1>3, SameEvents DEF IInv, Proceed
  <2>2. Duties'
    BY <1>1, <1>3, <2>1, QuietGoto DEF Proceed
  <2>3. UNCHANGED caseVars
    BY <1>3 DEF ApplyPress, caseVars
  <2> QED
    BY <2>1, <2>2, <2>3, QuietStep
<1>4. CASE \E c \in Operation :
             /\ press.case \in {c, None} /\ MayConfirm(press.by, c)
             /\ Confirm(c, press.yes)
             /\ event' = IF press.yes THEN Stored(Detected(c), cases[c].version + 1) ELSE event
             /\ Goto(w, "finish")
  <2>1. PICK c \in Operation :
             /\ press.case \in {c, None} /\ MayConfirm(press.by, c)
             /\ Confirm(c, press.yes)
             /\ event' = IF press.yes THEN Stored(Detected(c), cases[c].version + 1) ELSE event
             /\ Goto(w, "finish")
    BY <1>4
  <2>2. Inboxed' /\ Kept
    <3>1. Detected(c) \in Event /\ Detected(c) \notin Press
      BY IntakeAssumption DEF Event
    <3>2. cases[c].version + 1 \in Carried
      BY DEF IInv, Unrivalled, Rows, Carried
    <3> QED
      BY <2>1, <3>1, <3>2, StoredKeeps, SameEvents DEF IInv
  <2>3. Duties'
    BY <1>1, <2>1, <2>2, QuietGoto
  <2>4. Linking'
    BY SameLinks DEF ApplyPress, IInv
  <2>5. \A d \in Operation \ {c} : Asked(d)' => Asked(d)
    BY <2>1 DEF ApplyPress, Confirm, Moved, Asked, IInv, Unrivalled, Rows
  <2>6. CASE ~ press.yes
    <3>1. cases' = Moved(c, "closed") /\ UNCHANGED poll
      BY <2>1, <2>6 DEF ApplyPress, Confirm
    <3>2. Asked(c)' => Asked(c)
      BY <3>1 DEF Moved, Asked, IInv, Unrivalled, Rows
    <3> QED
      BY <2>2, <2>3, <2>4, <2>5, <3>2, ConsentKeeps DEF IInv, Preserved
  <2>7. CASE press.yes
    <3>1. /\ event'[Subject(w)].status # "absent"
          /\ event'[Subject(w)].about = press
      BY <1>1, <1>2, <2>2 DEF Kept, Event, About
    <3>2. press.by = Origin(c)
      BY <2>1 DEF MayConfirm
    <3>3. \E p \in Press : /\ event'[p].status # "absent"
                           /\ event'[p].about.yes
                           /\ event'[p].about.by = Origin(c)
                           /\ event'[p].about.case \in {c, None}
      BY <1>1, <2>1, <2>7, <3>1, <3>2
    <3>4. PolledByConsent'
      BY <2>2, <2>5, <3>3 DEF IInv, PolledByConsent, Asked, Kept, Event, Origin
    <3> QED
      BY <2>2, <2>3, <2>4, <3>4 DEF Preserved
  <2> QED
    BY <2>6, <2>7
<1>5. ASSUME NEW c, (press.case = None /\ c \in Operation) \/ (press.case # None /\ c = press.case)
      PROVE  c \in Operation /\ press.case \in {c, None}
  BY <1>2, <1>5 DEF PressRecord
<1> QED
  BY <1>3, <1>4, <1>5 DEF ApplyPress

LEMMA HandleDetectedPreserves ==
  ASSUME IInv, NEW w \in Worker, HandleDetected(w)
  PROVE  Preserved
<1>1. worker[w] # Idle
  BY DEF HandleDetected, At
<1>2. CASE UNCHANGED <<cases, poll>> /\ Proceed(w, "finish")
  <2>1. Inboxed' /\ Kept
    BY <1>2, SameEvents DEF IInv, Proceed
  <2>2. Duties'
    BY <1>1, <1>2, <2>1, QuietGoto DEF Proceed
  <2> QED
    BY <1>2, <2>1, <2>2, QuietStep DEF HandleDetected, caseVars
<1>3. CASE UNCHANGED <<cases, poll>> /\ Raise(w)
  <2>1. Inboxed' /\ Kept /\ Duties'
    BY <1>1, <1>3, ConcludeKeeps DEF IInv
  <2> QED
    BY <1>3, <2>1, QuietStep DEF HandleDetected, caseVars
<1>4. CASE \E c \in Operation : /\ cases[c].status = "detected" /\ OpenPoll(c)
                                /\ UNCHANGED event /\ Goto(w, "finish")
  <2>1. PICK c \in Operation : /\ cases[c].status = "detected" /\ OpenPoll(c)
                               /\ UNCHANGED event /\ Goto(w, "finish")
    BY <1>4
  <2>2. Inboxed' /\ Kept
    BY <2>1, SameEvents DEF IInv
  <2>3. Duties'
    BY <1>1, <2>1, <2>2, QuietGoto
  <2>4. Linking'
    BY SameLinks DEF HandleDetected, IInv
  <2>5. \A d \in Operation : Asked(d)' => Asked(d)
    BY <2>1 DEF OpenPoll, Moved, Asked, IInv, Unrivalled, Rows
  <2> QED
    BY <2>2, <2>3, <2>4, <2>5, ConsentKeeps DEF IInv, Preserved
<1> QED
  BY <1>2, <1>3, <1>4 DEF HandleDetected, Transaction

LEMMA HandleDecidedPreserves ==
  ASSUME IInv, NEW w \in Worker, HandleDecided(w)
  PROVE  Preserved
<1>1. worker[w] # Idle /\ Proceed(w, "agent")
  BY DEF HandleDecided, At
<1>2. Inboxed' /\ Kept
  BY <1>1, SameEvents DEF IInv, Proceed
<1>3. Duties'
  BY <1>1, <1>2, QuietGoto DEF Proceed
<1>4. Linking'
  BY SameLinks DEF HandleDecided, IInv
<1>5. \A d \in Operation : Asked(d)' => Asked(d)
  BY DEF HandleDecided, Decide, Moved, Asked, IInv, Unrivalled, Rows
<1> QED
  BY <1>2, <1>3, <1>4, <1>5, ConsentKeeps DEF IInv, Preserved

LEMMA EndPreserves ==
  ASSUME IInv, NEW w \in Worker, Continue(w) \/ FinishEvent(w)
  PROVE  Preserved
<1>1. worker[w] # Idle /\ (Finish(w) \/ Raise(w))
  BY DEF Continue, FinishEvent, At
<1>2. Inboxed' /\ Kept /\ Duties'
  BY <1>1, ConcludeKeeps DEF IInv
<1> QED
  BY <1>2, QuietStep DEF Continue, FinishEvent

LEMMA WorkPreserves ==
  ASSUME IInv, NEW w \in Worker, Work(w)
  PROVE  Preserved
BY SearchPreserves, WritePreserves, ReplyPreserves, BeginRunPreserves, CallsPreserve,
   CompleteRunPreserves, ApplyPressPreserves, HandleDetectedPreserves,
   HandleDecidedPreserves, EndPreserves
   DEF Work

-----------------------------------------------------------------------------

\* Residents add to the inbox; time and Fulfilment move cases that were asked about.
LEMMA EnvironmentPreserves ==
  ASSUME IInv, Environment
  PROVE  Preserved
<1>1. CASE \E r \in Report : SendReport(r)
  <2>1. PICK r \in Report : SendReport(r)
    BY <1>1
  <2>2. Inboxed' /\ Kept
    BY <2>1, IntakeAssumption, StoredKeeps DEF SendReport, Event, Carried, IInv
  <2> QED
    BY <2>1, <2>2, OthersStay, QuietStep DEF SendReport, IInv
<1>2. CASE \E p \in Press, a \in Resident, c \in Operation \cup {None}, yes \in BOOLEAN :
             PressButton(p, a, c, yes)
  <2>1. PICK p \in Press, a \in Resident, c \in Operation \cup {None}, yes \in BOOLEAN :
             PressButton(p, a, c, yes)
    BY <1>2
  <2>2. [by |-> a, case |-> c, yes |-> yes] \in PressRecord
    BY DEF PressRecord
  <2>3. Inboxed' /\ Kept
    BY <2>1, <2>2, StoredKeeps DEF PressButton, Event, Carried, IInv
  <2> QED
    BY <2>1, <2>3, OthersStay, QuietStep DEF PressButton, IInv
<1>3. CASE \E c \in Operation : Resolve(c) \/ Age(c)
  <2>1. Inboxed' /\ Kept
    BY <1>3, SameEvents DEF Resolve, Age, workVars, IInv
  <2>2. Duties'
    BY <1>3, <2>1, OthersStay DEF Resolve, Age, workVars, IInv
  <2>3. Linking'
    BY <1>3, SameLinks DEF Resolve, Age, IInv
  <2>4. \A d \in Operation : Asked(d)' => Asked(d)
    BY <1>3 DEF Resolve, Age, Moved, Asked, IInv, Unrivalled, Rows
  <2> QED
    BY <2>1, <2>2, <2>3, <2>4, ConsentKeeps DEF IInv, Preserved
<1> QED
  BY <1>1, <1>2, <1>3 DEF Environment

LEMMA PollEndsPreserves ==
  ASSUME IInv, NEW c \in Operation, PollIsOver(c)
  PROVE  Preserved
<1>1. PICK outcome \in {"request_ready", "needs_evidence"} : PollEnds(c, outcome)
  BY DEF PollIsOver
<1>2. Decided(c) \in Event /\ Decided(c) \notin Press
  BY IntakeAssumption DEF Event
<1>3. Inboxed' /\ Kept
  BY <1>1, <1>2, StoredKeeps DEF PollEnds, Carried, IInv
<1>4. Duties'
  BY <1>1, <1>3, OthersStay DEF PollEnds, IInv
<1>5. Linking'
  BY <1>1, SameLinks DEF PollEnds, IInv
<1>6. \A d \in Operation : Asked(d)' => Asked(d)
  BY <1>1 DEF PollEnds, Asked, IInv, Unrivalled, Rows
<1> QED
  BY <1>3, <1>4, <1>5, <1>6, ConsentKeeps DEF IInv, Preserved

LEMMA InitIInv ==
  Init => IInv
<1> SUFFICES ASSUME Init
             PROVE  IInv
  OBVIOUS
<1>1. Absent \in EventRow /\ Absent.status = "absent"
  BY DEF Absent, EventRow, Carried
<1>2. Inboxed
  BY <1>1 DEF Init, WorkInit, Inboxed, Event
<1>3. Idle \in WorkerRow /\ Idle.step = "start"
  BY DEF Idle, WorkerRow, Step
<1>4. Duties
  BY <1>3 DEF Init, WorkInit, Duties, Fits
<1>5. Untried \in [case : Operation \cup {None}, version : Nat]
  BY DEF Untried
<1>6. Linking
  BY <1>5 DEF Init, CasesInit, Linking
<1>7. \A c \in Operation : ~ Asked(c)
  BY DEF Init, CasesInit, NoRow, Asked
<1> QED
  BY <1>2, <1>4, <1>6, <1>7, InitUnrivalled DEF IInv, PolledByConsent, Asked

LEMMA NextPreserves ==
  ASSUME IInv, [Next]_vars
  PROVE  Preserved
<1>1. CASE Environment
  BY <1>1, EnvironmentPreserves
<1>2. CASE \E c \in Operation : PollIsOver(c)
  BY <1>2, PollEndsPreserves
<1>3. CASE \E w \in Worker : Work(w)
  BY <1>3, WorkPreserves
<1>4. CASE \E e \in Event : ClaimEvent(e)
  <2>1. PICK e \in Event, w \in Worker : Claim(w, e) /\ UNCHANGED caseVars
    BY <1>4 DEF ClaimEvent
  <2>2. Inboxed' /\ Kept /\ Duties'
    BY <2>1, TakeKeeps DEF Claim, IInv
  <2> QED
    BY <2>1, <2>2, QuietStep
<1>5. CASE Disturb /\ UNCHANGED <<caseVars, intakeVars>>
  <2>1. CASE \E w \in Worker : Crash(w)
    <3>1. Inboxed' /\ Kept /\ Duties'
      BY <2>1, CrashKeeps DEF IInv
    <3> QED
      BY <1>5, <3>1, QuietStep
  <2>2. CASE \E w \in Worker, e \in DOMAIN event : TakeOver(w, e)
    <3>1. PICK w \in Worker, e \in DOMAIN event : TakeOver(w, e)
      BY <2>2
    <3>2. e \in Event
      BY DEF IInv, Inboxed
    <3>3. Inboxed' /\ Kept /\ Duties'
      BY <3>1, <3>2, TakeKeeps DEF TakeOver, IInv
    <3> QED
      BY <1>5, <3>3, QuietStep
  <2> QED
    BY <1>5, <2>1, <2>2 DEF Disturb
<1>6. CASE UNCHANGED vars
  <2>1. UNCHANGED <<event, worker, caseVars>>
    BY <1>6 DEF vars, workVars
  <2>2. Inboxed' /\ Kept /\ Duties'
    BY <2>1, SameEvents, OthersStay DEF IInv
  <2> QED
    BY <2>1, <2>2, QuietStep
<1> QED
  BY <1>1, <1>2, <1>3, <1>4, <1>5, <1>6 DEF Next

LEMMA NextIInv ==
  IInv /\ [Next]_vars => IInv'
BY NextPreserves, NextUnrivalled DEF IInv, Preserved

LEMMA IntakeInvariant ==
  Spec => []IInv
BY InitIInv, NextIInv, PTL DEF Spec

\* Neighbours are asked only about what its author wanted to put to them: through
\* repeated and overtaken handlers, buttons shown to others, and commands that
\* name no case.
THEOREM IntakePolledByConsent ==
  Spec => []PolledByConsent
<1>1. IInv => PolledByConsent
  BY DEF IInv
<1> QED
  BY <1>1, IntakeInvariant, PTL

\* A message with one clear problem has one case, however often and however late
\* its handler runs: its operation is remembered with the case it chose.
THEOREM IntakeLinkedOnce ==
  Spec => []LinkedOnce
<1>1. IInv => LinkedOnce
  <2> SUFFICES ASSUME IInv, NEW r \in Report \ ByAgent
               PROVE  Cardinality(linked[r]) <= 1
    BY DEF LinkedOnce
  <2> DEFINE c == remembered[<<r, 0>>].case
  <2>1. linked[r] = {} \/ linked[r] = {c}
    BY DEF IInv, Linking
  <2>2. Cardinality({}) = 0 /\ Cardinality({c}) = 1
    BY FS_EmptySet, FS_Singleton
  <2> QED
    BY <2>1, <2>2
<1> QED
  BY <1>1, IntakeInvariant, PTL

-----------------------------------------------------------------------------
(* The rows as a book of cases *)

CaseRow == [status : CaseStatus, version : Nat, recent : BOOLEAN]

\* How far a case has come agrees with its operation, its poll and the inbox.
Chapter(c) ==
  /\ remembered[c] = Untried => cases[c].status = "none"
  /\ cases[c].status \in {"none", "awaiting_confirmation", "detected"} => poll[c] = "none"
  /\ event[Decided(c)].status # "absent" => poll[c] \in {"request_ready", "needs_evidence"}

\* What a search has found is, and stays, a case that the report does not tell
\* from its own.
Found(w) ==
  worker[w].step = "write" /\ worker[w].view.case # None =>
    /\ Exists(worker[w].view.case)
    /\ PlaceOfCase(worker[w].view.case) \in Matching[worker[w].event]

Told ==
  /\ cases \in [Operation -> CaseRow]
  /\ poll \in [Operation -> PollState]
  /\ \A c \in Operation : Chapter(c)
  /\ \A r \in Report, c \in Operation : c \in linked[r] => Exists(c)
  /\ \A w \in Worker : Found(w)

\* No other events than these enter the inbox in a step,
OnlyNew(some) ==
  \A e \in Event \ some : event'[e].status # "absent" => event[e].status # "absent"

\* and nobody comes back from a search.
NoSearch == \A w \in Worker : worker'[w].step = "write" => worker'[w] = worker[w]

\* What every step has to show: the book stays in order, and has at most one entry more.
Entered == Told' /\ (Book!Next \/ UNCHANGED Book!vars)

LEMMA EventKinds ==
  /\ \A c \in Operation : Decided(c) \in Event /\ Detected(c) \in Event
  /\ \A c \in Operation : Decided(c) \notin Press \cup Report
  /\ \A c \in Operation : Detected(c) \notin Press \cup Report
  /\ \A c, d \in Operation : Detected(c) # Decided(d)
  /\ \A c, d \in Operation : Decided(c) = Decided(d) => c = d
  /\ Press \cap Report = {}
<1>1. \A c, d : Detected(c) # Decided(d) /\ (Decided(c) = Decided(d) => c = d)
  BY DEF Detected, Decided
<1>2. \A c \in Operation : Decided(c) \in Event /\ Detected(c) \in Event
  BY DEF Event
<1> QED
  BY <1>1, <1>2, IntakeAssumption

\* A worker that reports, a claim and a crash bring nothing into the inbox.
LEMMA NothingNew ==
  ASSUME IInv,
         \/ UNCHANGED event
         \/ \E w \in Worker : worker[w] # Idle /\ (Finish(w) \/ Raise(w))
         \/ \E w \in Worker, e \in Event : event[e].status # "absent" /\ Take(w, e)
         \/ \E w \in Worker : Crash(w)
  PROVE  OnlyNew({})
<1>1. event \in [Event -> EventRow]
  BY DEF IInv, Inboxed
<1>2. ASSUME NEW e \in Event, event[e].status # "absent",
             \A d \in Event \ {e} : event'[d] = event[d]
      PROVE  OnlyNew({})
  BY <1>2 DEF OnlyNew
<1>3. CASE UNCHANGED event
  BY <1>3 DEF OnlyNew
<1>4. ASSUME NEW w \in Worker, worker[w] # Idle, Finish(w) \/ Raise(w)
      PROVE  OnlyNew({})
  <2>1. Subject(w) \in Event /\ event[Subject(w)].status # "absent"
    BY <1>4 DEF IInv, Duties, Subject
  <2>2. \A d \in Event \ {Subject(w)} : event'[d] = event[d]
    BY <1>1, <1>4 DEF Finish, Raise, Conclude
  <2> QED
    BY <1>2, <2>1, <2>2
<1>5. ASSUME NEW w \in Worker, NEW e \in Event, event[e].status # "absent", Take(w, e)
      PROVE  OnlyNew({})
  <2>1. \A d \in Event \ {e} : event'[d] = event[d]
    BY <1>1, <1>5 DEF Take
  <2> QED
    BY <1>2, <1>5, <2>1
<1>6. ASSUME NEW w \in Worker, Crash(w)
      PROVE  OnlyNew({})
  <2>1. worker[w].event \in Event /\ event[worker[w].event].status # "absent"
    BY <1>6 DEF IInv, Duties, Crash
  <2>2. \A d \in Event \ {worker[w].event} : event'[d] = event[d]
    BY <1>1, <1>6 DEF Crash, Left
  <2> QED
    BY <1>2, <2>1, <2>2
<1> QED
  BY <1>3, <1>4, <1>5, <1>6

LEMMA NobodySearches ==
  ASSUME IInv, NEW w \in Worker,
         \/ \E step \in Step \ {"write"} : \E view : Read(w, step, view)
         \/ \E step \in Step \ {"write"} : Goto(w, step)
         \/ Finish(w) \/ Raise(w) \/ Crash(w)
         \/ \E e \in Event : Take(w, e)
  PROVE  NoSearch
<1>1. worker \in [Worker -> WorkerRow]
  BY DEF IInv, Duties
<1>2. ASSUME NEW step \in Step \ {"write"}, NEW view, Read(w, step, view)
      PROVE  NoSearch
  BY <1>1, <1>2 DEF Read, NoSearch, WorkerRow
<1>3. CASE worker' = [worker EXCEPT ![w] = Idle]
  BY <1>1, <1>3 DEF NoSearch, Idle
<1>4. ASSUME NEW e \in Event, Take(w, e)
      PROVE  NoSearch
  <2>1. worker' = [worker EXCEPT ![w] = [worker[w] EXCEPT !.event = e]]
    BY <1>1, <1>4 DEF Take
  <2>2. [worker[w] EXCEPT !.event = e] = [event |-> e, step |-> "start", view |-> Nobody]
    <3>1. worker[w] = Idle
      BY <1>4 DEF Take
    <3> QED
      BY <3>1 DEF Idle
  <2>3. worker'[w].step = "start" /\ \A v \in Worker \ {w} : worker'[v] = worker[v]
    BY <1>1, <2>1, <2>2
  <2> QED
    BY <2>3 DEF NoSearch
<1> QED
  BY <1>2, <1>3, <1>4 DEF Goto, Finish, Raise, Conclude, Crash

LEMMA SameSayings ==
  ASSUME Kept, NEW some, OnlyNew(some), some \cap Press = {}
  PROVE  UNCHANGED Sayings
<1>1. \A p \in Press : event'[p].status # "absent" <=> event[p].status # "absent"
  BY DEF Kept, OnlyNew, Event
<1>2. \A p \in Press : event[p].status # "absent" => event'[p].about = event[p].about
  BY DEF Kept, Event
<1> QED
  BY <1>1, <1>2 DEF Sayings

\* A case stays, and what was found of it.
LEMMA ToldKeeps ==
  ASSUME IInv, Told, NoSearch,
         cases' \in [Operation -> CaseRow], poll' \in [Operation -> PollState],
         \A c \in Operation : Chapter(c)',
         \A c \in Operation : Exists(c) => Exists(c)',
         \A r \in Report, c \in Operation : c \in linked'[r] => c \in linked[r] \/ Exists(c)'
  PROVE  Told'
<1>1. ASSUME NEW w \in Worker, worker'[w].step = "write", worker'[w].view.case # None
      PROVE  /\ cases'[worker'[w].view.case].status # "none"
             /\ PlaceOf[worker'[w].view.case] \in Matching[worker'[w].event]
  <2>1. worker'[w] = worker[w] /\ Found(w)
    BY <1>1 DEF NoSearch, Told
  <2>2. worker[w].view.case \in Operation
    BY <1>1, <2>1 DEF IInv, Duties, Fits, SeenRecord
  <2>3. /\ cases[worker[w].view.case].status # "none"
        /\ PlaceOf[worker[w].view.case] \in Matching[worker[w].event]
    BY <1>1, <2>1 DEF Found, Exists, PlaceOfCase
  <2>4. cases'[worker[w].view.case].status # "none"
    BY <2>2, <2>3 DEF Exists
  <2> QED
    BY <2>1, <2>3, <2>4
<1>2. \A w \in Worker : Found(w)'
  BY <1>1 DEF Found, PlaceOfCase, Exists
<1> QED
  BY <1>2 DEF Told

\* A step that writes no case, no poll and no operation.
LEMMA QuietEnters ==
  ASSUME IInv, Told, NoSearch, Kept, UNCHANGED caseVars,
         NEW some, OnlyNew(some), \A c \in Operation : Decided(c) \notin some,
         some \cap Press = {}
  PROVE  Entered
<1>1. \A c \in Operation : Chapter(c)'
  BY EventKinds DEF Told, Chapter, OnlyNew, caseVars
<1>2. Told'
  BY <1>1, ToldKeeps DEF Told, Exists, caseVars
<1>3. UNCHANGED Book!vars
  BY SameSayings DEF Book!vars, caseVars
<1> QED
  BY <1>2, <1>3 DEF Entered

\* A step that takes the status of one case on, and writes neither polls nor
\* operations, and brings no result.
LEMMA MoveKeeps ==
  ASSUME IInv, Told, NoSearch, UNCHANGED <<linked, poll, remembered>>,
         NEW some, OnlyNew(some), \A c \in Operation : Decided(c) \notin some,
         NEW c \in Operation, Exists(c),
         NEW status \in CaseStatus \ {"none", "awaiting_confirmation"},
         status = "detected" => poll[c] = "none",
         cases' = Moved(c, status)
  PROVE  Told'
<1>1. cases' \in [Operation -> CaseRow]
  BY DEF Told, Moved, CaseRow
<1>2. cases'[c].status = status /\ \A d \in Operation \ {c} : cases'[d] = cases[d]
  BY DEF Told, Moved, CaseRow
<1>3. \A d \in Operation : Exists(d) => Exists(d)'
  BY <1>2 DEF Exists
<1>4. \A d \in Operation : event'[Decided(d)].status # "absent" => event[Decided(d)].status # "absent"
  BY EventKinds DEF OnlyNew
<1>5. remembered[c] # Untried
  BY DEF Told, Chapter, Exists
<1>6. \A d \in Operation : Chapter(d)'
  BY <1>2, <1>4, <1>5 DEF Told, Chapter
<1> QED
  BY <1>1, <1>3, <1>6, ToldKeeps DEF Told

\* The status of a case in the book.
LEMMA CaseComes ==
  ASSUME Told, NEW c \in Operation, NEW status \in CaseStatus, cases' = Moved(c, status)
  PROVE  [d \in Operation |-> cases'[d].status] =
         [[d \in Operation |-> cases[d].status] EXCEPT ![c] = status]
<1>1. cases'[c].status = status /\ \A d \in Operation \ {c} : cases'[d] = cases[d]
  BY DEF Told, Moved, CaseRow
<1> QED
  BY <1>1

\* A case that is created is a new one of a place that has none,
LEMMA CreateEnters ==
  ASSUME IInv, Told, Kept, NoSearch, UNCHANGED <<poll, event>>,
         NEW o \in Operation, CanCreate(o), Create(o)
  PROVE  Entered
<1>1. OnlyNew({})
  BY NothingNew
<1>2. CASE Known(o)
  <2>1. UNCHANGED caseVars
    BY <1>2 DEF Create, caseVars
  <2> QED
    BY <1>1, <2>1, QuietEnters
<1>3. CASE ~ Known(o)
  <2> DEFINE row == [status |-> "awaiting_confirmation", version |-> 1, recent |-> FALSE]
  <2>1. /\ cases' = [cases EXCEPT ![o] = row]
        /\ linked' = [linked EXCEPT ![o[1]] = @ \cup {o}]
        /\ remembered' = [remembered EXCEPT ![o] = [case |-> o, version |-> 0]]
    BY <1>3 DEF Create
  <2>2. remembered[o] = Untried /\ cases[o].status = "none" /\ poll[o] = "none"
    BY <1>3 DEF Known, Told, Chapter
  <2>3. row \in CaseRow
    BY DEF CaseRow, CaseStatus
  <2>4. cases' \in [Operation -> CaseRow]
    BY <2>1, <2>3 DEF Told
  <2>5. cases'[o].status = "awaiting_confirmation" /\ \A c \in Operation \ {o} : cases'[c] = cases[c]
    BY <2>1 DEF Told
  <2>6. remembered'[o] # Untried /\ \A c \in Operation \ {o} : remembered'[c] = remembered[c]
    BY <2>1, CaseAssumption DEF IInv, Linking, Untried
  <2>7. event[Decided(o)].status = "absent"
    BY <2>2 DEF Told, Chapter
  <2>8. \A c \in Operation : Chapter(c)'
    BY <2>2, <2>5, <2>6, <2>7 DEF Told, Chapter
  <2>9. \A c \in Operation : Exists(c) => Exists(c)'
    BY <2>5 DEF Exists
  <2>10. \A r \in Report, c \in Operation : c \in linked'[r] => c \in linked[r] \/ c = o
    BY <2>1 DEF IInv, Linking
  <2>11. Exists(o)'
    BY <2>5 DEF Exists
  <2>12. Told'
    BY <2>4, <2>8, <2>9, <2>10, <2>11, ToldKeeps DEF Told
  <2>13. Book!Begin(o)
    <3>1. \A c \in Operation : Book!Open(c) => PlaceOf[c] # PlaceOf[o]
      BY <1>3, <2>2, CaseAssumption
         DEF CanCreate, Same, Known, Untried, IsOpen, PlaceOfCase, Book!Open
    <3>2. Book!Come(o, "none", "awaiting_confirmation")
      BY <2>2, <2>5 DEF Book!Come
    <3>3. o \notin linked[o[1]]
      BY <2>2 DEF Told, Exists, Operation
    <3>4. Book!Joins(o[1], o)
      BY <2>1, <2>2, <3>3, UntriedIsUnlinked DEF Book!Joins, IInv
    <3>5. UNCHANGED Sayings
      BY <1>1, SameSayings
    <3> QED
      BY <3>1, <3>2, <3>4, <3>5 DEF Book!Begin
  <2> QED
    BY <2>12, <2>13 DEF Entered, Book!Next
<1> QED
  BY <1>2, <1>3

\* and one that a report is attached to is open, and the report does not tell it
\* from its own, unless it was the model that said so.
LEMMA AttachEnters ==
  ASSUME IInv, Told, Kept, NoSearch, UNCHANGED <<poll, event>>,
         NEW o \in Operation, NEW c \in Operation, NEW version,
         CanAttach(o, c, version), Attach(o, c, version), Exists(c),
         o[1] \notin ByAgent => PlaceOfCase(c) \in Matching[o[1]]
  PROVE  Entered
<1>1. OnlyNew({})
  BY NothingNew
<1>2. CASE Known(o)
  <2>1. UNCHANGED caseVars
    BY <1>2 DEF Attach, caseVars
  <2> QED
    BY <1>1, <2>1, QuietEnters
<1>3. CASE ~ Known(o)
  <2>1. /\ cases' = Moved(c, cases[c].status)
        /\ linked' = [linked EXCEPT ![o[1]] = @ \cup {c}]
        /\ remembered' = [remembered EXCEPT ![o] = [case |-> c, version |-> version]]
    BY <1>3 DEF Attach
  <2>2. remembered[o] = Untried
    BY <1>3 DEF Known
  <2>3. cases[c].status # "closed" /\ c \notin linked[o[1]]
    <3>1. [case |-> c, version |-> version] # Untried
      BY CaseAssumption DEF Untried
    <3> QED
      BY <1>3, <2>2, <3>1 DEF CanAttach, Same
  <2>4. cases' \in [Operation -> CaseRow]
    BY <2>1 DEF Told, Moved, CaseRow
  <2>5. \A d \in Operation : cases'[d].status = cases[d].status
    BY <2>1 DEF Told, Moved, CaseRow
  <2>6. \A d \in Operation : remembered'[d] = Untried => remembered[d] = Untried
    BY <2>1, <2>2 DEF IInv, Linking
  <2>7. \A d \in Operation : Chapter(d)'
    BY <2>5, <2>6 DEF Told, Chapter
  <2>8. \A d \in Operation : Exists(d)' <=> Exists(d)
    BY <2>5 DEF Exists
  <2>9. \A r \in Report, d \in Operation : d \in linked'[r] => d \in linked[r] \/ d = c
    BY <2>1 DEF IInv, Linking
  <2>10. Told'
    BY <2>4, <2>7, <2>8, <2>9, ToldKeeps DEF Told
  <2>11. Book!Join(o[1], c)
    <3>1. Book!Open(c)
      BY <2>3 DEF Exists, Book!Open
    <3>2. o[1] \in Report \ ByAgent => PlaceOf[c] \in Matching[o[1]]
      BY DEF PlaceOfCase
    <3>3. Book!Joins(o[1], c)
      BY <2>1, <2>2, <2>3, UntriedIsUnlinked DEF Book!Joins, IInv
    <3>4. UNCHANGED Sayings
      BY <1>1, SameSayings
    <3> QED
      BY <2>5, <3>1, <3>2, <3>3, <3>4 DEF Book!Join
  <2>12. o[1] \in Report
    BY DEF Operation
  <2> QED
    BY <2>10, <2>11, <2>12 DEF Entered, Book!Next
<1> QED
  BY <1>2, <1>3

LEMMA SearchEnters ==
  ASSUME IInv, Told, Kept, NEW w \in Worker, Search(w)
  PROVE  Entered
<1>1. PICK c \in Operation \cup {None} :
        /\ Read(w, "write", Seen(c))
        /\ c # None => c \in Candidate(Subject(w))
  BY CaseAssumption DEF Search, FoundFirst, Candidate
<1>2. UNCHANGED <<caseVars, event>>
  BY DEF Search
<1>3. /\ worker'[w].step = "write" /\ worker'[w].event = worker[w].event
      /\ worker'[w].view = Seen(c)
      /\ \A v \in Worker \ {w} : worker'[v] = worker[v]
  BY <1>1 DEF Read, IInv, Duties, WorkerRow
<1>4. Seen(c).case = c
  BY DEF Seen, Nothing
<1>5. c # None => Exists(c) /\ PlaceOfCase(c) \in Matching[worker[w].event]
  BY <1>1 DEF Candidate, Subject
<1>6. ASSUME NEW v \in Worker
      PROVE  Found(v)'
  <2>1. Found(v)
    BY DEF Told
  <2>2. CASE v # w
    BY <1>2, <1>3, <2>1, <2>2 DEF Found, Exists, PlaceOfCase, caseVars
  <2>3. CASE v = w
    BY <1>2, <1>3, <1>4, <1>5, <2>3 DEF Found, Exists, PlaceOfCase, caseVars
  <2> QED
    BY <2>2, <2>3
<1>7. Told'
  BY <1>2, <1>6 DEF Told, Chapter, Exists, caseVars
<1>8. UNCHANGED Book!vars
  BY <1>2 DEF Book!vars, Sayings, caseVars
<1> QED
  BY <1>7, <1>8 DEF Entered

LEMMA WriteEnters ==
  ASSUME IInv, Told, Kept, NEW w \in Worker, Write(w)
  PROVE  Entered
<1> DEFINE o == <<Subject(w), 0>>
           seen == View(w)
<1>1. /\ worker[w] # Idle /\ worker[w].step = "write"
      /\ Subject(w) \in Report \ ByAgent
      /\ seen \in SeenRecord
  BY DEF Write, At, IInv, Duties, Fits, Subject, View
<1>2. o \in Operation /\ o[1] = Subject(w)
  BY <1>1, PlainOperation
<1>3. CASE Raise(w) /\ UNCHANGED <<cases, linked, remembered>>
  <2>1. OnlyNew({}) /\ NoSearch
    BY <1>1, <1>3, NothingNew, NobodySearches
  <2>2. UNCHANGED caseVars
    BY <1>3 DEF Write, caseVars
  <2> QED
    BY <2>1, <2>2, QuietEnters
<1>4. CASE /\ IF seen.case = None THEN CanCreate(o) ELSE CanAttach(o, seen.case, seen.version)
           /\ IF seen.case = None THEN Create(o) ELSE Attach(o, seen.case, seen.version)
           /\ UNCHANGED event
           /\ Goto(w, "reply")
  <2>1. NoSearch
    BY <1>4, NobodySearches DEF Step
  <2>2. UNCHANGED <<poll, event>>
    BY <1>4 DEF Write
  <2>3. CASE seen.case = None
    BY <1>2, <1>4, <2>1, <2>2, <2>3, CreateEnters
  <2>4. CASE seen.case # None
    <3>1. seen.case \in Operation
      BY <1>1, <2>4 DEF SeenRecord
    <3>2. Exists(seen.case) /\ PlaceOfCase(seen.case) \in Matching[Subject(w)]
      BY <1>1, <2>4 DEF Told, Found, View, Subject
    <3> QED
      BY <1>2, <1>4, <2>1, <2>2, <2>4, <3>1, <3>2, AttachEnters
  <2> QED
    BY <2>3, <2>4
<1> QED
  BY <1>3, <1>4 DEF Write, Transaction

LEMMA CallsEnter ==
  ASSUME IInv, Told, Kept, NEW w \in Worker, CallFails(w) \/ CallCreate(w) \/ CallAttach(w)
  PROVE  Entered
<1>1. /\ CallId(w) \in Operation
      /\ CallId(w)[1] \in ByAgent
  BY Caller, CallOperation DEF CallFails, CallCreate, CallAttach
<1>2. UNCHANGED event /\ OnlyNew({})
  BY NothingNew DEF CallFails, CallCreate, CallAttach
<1>3. NoSearch
  BY NobodySearches DEF CallFails, CallCreate, CallAttach, Called, Step
<1>4. CASE CallFails(w)
  BY <1>2, <1>3, <1>4, QuietEnters DEF CallFails
<1>5. CASE CallCreate(w)
  BY <1>1, <1>2, <1>3, <1>5, CreateEnters DEF CallCreate
<1>6. CASE CallAttach(w)
  BY <1>1, <1>2, <1>3, <1>6, AttachEnters DEF CallAttach
<1> QED
  BY <1>4, <1>5, <1>6

\* A worker that writes no case goes on, or reports.
LEMMA OthersEnter ==
  ASSUME IInv, Told, Kept, NEW w \in Worker,
         Reply(w) \/ BeginRun(w) \/ CompleteRun(w) \/ Continue(w) \/ FinishEvent(w)
  PROVE  Entered
<1>1. UNCHANGED caseVars /\ worker[w] # Idle
  BY DEF Reply, BeginRun, CompleteRun, Continue, FinishEvent, At
<1>2. \/ /\ UNCHANGED event
         /\ \/ Read(w, "think", Nothing)
            \/ \E step \in {"reply", "finish"} : Goto(w, step)
      \/ Finish(w) \/ Raise(w)
  BY DEF Reply, BeginRun, CompleteRun, Continue, FinishEvent, Transaction, Proceed
<1>3. OnlyNew({}) /\ NoSearch
  BY <1>1, <1>2, NothingNew, NobodySearches DEF Step
<1> QED
  BY <1>1, <1>3, QuietEnters

\* The author agrees or refuses, and what was pressed is in the inbox.
LEMMA ApplyPressEnters ==
  ASSUME IInv, Told, Kept, NEW w \in Worker, ApplyPress(w)
  PROVE  Entered
<1> DEFINE press == About(w)
<1>1. /\ worker[w] # Idle /\ Subject(w) \in Press
      /\ event[Subject(w)].status # "absent" /\ press \in PressRecord
  BY DEF ApplyPress, At, IInv, Duties, Inboxed, Subject, About
<1>2. press \in Sayings
  BY <1>1 DEF Sayings, About
<1>3. NoSearch
  <2>1. Goto(w, "finish")
    BY DEF ApplyPress, Proceed
  <2> QED
    BY <2>1, NobodySearches DEF Step
<1>4. UNCHANGED <<linked, remembered, poll>>
  BY DEF ApplyPress
<1>5. CASE UNCHANGED <<cases, event>>
  BY <1>3, <1>4, <1>5, NothingNew, QuietEnters DEF caseVars
<1>6. CASE \E c \in Operation :
             /\ press.case \in {c, None} /\ MayConfirm(press.by, c)
             /\ Confirm(c, press.yes)
             /\ event' = IF press.yes THEN Stored(Detected(c), cases[c].version + 1) ELSE event
  <2>1. PICK c \in Operation :
             /\ press.case \in {c, None} /\ MayConfirm(press.by, c)
             /\ Confirm(c, press.yes)
             /\ event' = IF press.yes THEN Stored(Detected(c), cases[c].version + 1) ELSE event
    BY <1>6
  <2> DEFINE status == IF press.yes THEN "detected" ELSE "closed"
  <2>2. /\ cases[c].status = "awaiting_confirmation" /\ press.by = AuthorOf[c[1]]
        /\ cases' = Moved(c, status)
    BY <2>1 DEF MayConfirm, Confirm, Origin
  <2>3. Exists(c) /\ poll[c] = "none"
    BY <2>2 DEF Exists, Told, Chapter
  <2>4. OnlyNew({Detected(c)})
    BY <2>1 DEF Stored, OnlyNew, IInv, Inboxed
  <2>5. /\ \A d \in Operation : Decided(d) \notin {Detected(c)}
        /\ {Detected(c)} \cap Press = {}
    BY EventKinds
  <2>6. Told'
    BY <1>3, <1>4, <2>2, <2>3, <2>4, <2>5, MoveKeeps DEF CaseStatus
  <2>7. Book!Come(c, "awaiting_confirmation", status)
    <3>1. status \in CaseStatus
      BY DEF CaseStatus
    <3> HIDE DEF status
    <3> QED
      BY <2>2, <3>1, CaseComes DEF Book!Come
  <2>8. UNCHANGED Sayings
    BY <2>4, <2>5, SameSayings
  <2>9. Book!Said(c, press.yes)
    BY <1>2, <2>1, <2>2 DEF Book!Said
  <2>10. Book!Agree(c) \/ Book!Refuse(c)
    <3>1. press.yes \in BOOLEAN
      BY <1>1 DEF PressRecord
    <3>2. CASE press.yes = TRUE
      BY <1>4, <2>7, <2>8, <2>9, <3>2 DEF Book!Agree, Book!Come, Book!Said
    <3>3. CASE press.yes = FALSE
      BY <1>4, <2>7, <2>8, <2>9, <3>3 DEF Book!Refuse, Book!Come, Book!Said
    <3> QED
      BY <3>1, <3>2, <3>3
  <2> QED
    BY <2>6, <2>10 DEF Entered, Book!Next
<1>7. ASSUME NEW c, (press.case = None /\ c \in Operation) \/ (press.case # None /\ c = press.case)
      PROVE  c \in Operation /\ press.case \in {c, None}
  BY <1>1, <1>7 DEF PressRecord
<1> QED
  BY <1>5, <1>6, <1>7 DEF ApplyPress, Proceed

\* The neighbours are asked once: whatever else the handler finds, it leaves.
LEMMA HandleDetectedEnters ==
  ASSUME IInv, Told, Kept, NEW w \in Worker, HandleDetected(w)
  PROVE  Entered
<1>1. worker[w] # Idle /\ UNCHANGED <<linked, remembered>>
  BY DEF HandleDetected, At
<1>2. CASE UNCHANGED <<cases, poll>> /\ (Proceed(w, "finish") \/ Raise(w))
  <2>1. OnlyNew({}) /\ NoSearch
    BY <1>1, <1>2, NothingNew, NobodySearches DEF Proceed, Step
  <2> QED
    BY <1>1, <1>2, <2>1, QuietEnters DEF caseVars
<1>3. CASE \E c \in Operation : /\ cases[c].status = "detected" /\ OpenPoll(c)
                                /\ UNCHANGED event /\ Goto(w, "finish")
  <2>1. PICK c \in Operation : /\ cases[c].status = "detected" /\ OpenPoll(c)
                               /\ UNCHANGED event /\ Goto(w, "finish")
    BY <1>3
  <2>2. OnlyNew({}) /\ NoSearch
    BY <2>1, NothingNew, NobodySearches DEF Step
  <2>3. UNCHANGED Sayings
    BY <2>1 DEF Sayings
  <2>4. Exists(c) /\ poll[c] = "none"
    BY <2>1 DEF Exists, Told, Chapter
  <2>5. CASE cases' = Moved(c, "needs_evidence") /\ UNCHANGED poll
    <3>1. Told'
      BY <1>1, <2>2, <2>4, <2>5, MoveKeeps DEF CaseStatus
    <3>2. Book!AskNobody(c)
      BY <1>1, <2>1, <2>3, <2>5, CaseComes DEF Book!AskNobody, Book!Come, CaseStatus
    <3> QED
      BY <3>1, <3>2 DEF Entered, Book!Next
  <2>6. CASE cases' = Moved(c, "collecting") /\ poll' = [poll EXCEPT ![c] = "open"]
    <3>1. cases' \in [Operation -> CaseRow] /\ poll' \in [Operation -> PollState]
      BY <2>6 DEF Told, Moved, CaseRow, CaseStatus, PollState
    <3>2. /\ cases'[c].status = "collecting"
          /\ \A d \in Operation \ {c} : cases'[d] = cases[d] /\ poll'[d] = poll[d]
      BY <2>6 DEF Told, Moved, CaseRow
    <3>3. remembered[c] # Untried
      BY <2>4 DEF Told, Chapter, Exists
    <3>4. event[Decided(c)].status = "absent"
      BY <2>4 DEF Told, Chapter
    <3>5. \A d \in Operation : Chapter(d)'
      BY <1>1, <2>1, <3>2, <3>3, <3>4 DEF Told, Chapter
    <3>6. \A d \in Operation : Exists(d) => Exists(d)'
      BY <3>2 DEF Exists
    <3>7. Told'
      BY <1>1, <2>2, <3>1, <3>5, <3>6, ToldKeeps DEF Told
    <3>8. Book!Come(c, "detected", "collecting")
      BY <2>1, <2>6, CaseComes DEF Book!Come, CaseStatus
    <3>9. Book!Ask(c)
      BY <1>1, <2>3, <2>4, <2>6, <3>8 DEF Book!Ask
    <3> QED
      BY <3>7, <3>9 DEF Entered, Book!Next
  <2> QED
    BY <2>1, <2>5, <2>6 DEF OpenPoll
<1> QED
  BY <1>2, <1>3 DEF HandleDetected, Transaction

\* The result that is applied is that of the poll, which is over.
LEMMA HandleDecidedEnters ==
  ASSUME IInv, Told, Kept, NEW w \in Worker, HandleDecided(w)
  PROVE  Entered
<1>1. worker[w] # Idle /\ Proceed(w, "agent") /\ UNCHANGED <<linked, remembered, poll>>
  BY DEF HandleDecided, At
<1>2. OnlyNew({}) /\ NoSearch /\ UNCHANGED event
  BY <1>1, NothingNew, NobodySearches DEF Proceed, Step
<1>3. CASE UNCHANGED cases
  BY <1>1, <1>2, <1>3, QuietEnters DEF caseVars
<1>4. CASE \E c \in Operation : Subject(w) = Decided(c) /\ cases[c].status = "collecting" /\ Decide(c)
  <2>1. PICK c \in Operation :
          Subject(w) = Decided(c) /\ cases[c].status = "collecting" /\ Decide(c)
    BY <1>4
  <2>2. event[Decided(c)].status # "absent"
    BY <1>1, <2>1 DEF IInv, Duties, Subject
  <2>3. poll[c] \in {"request_ready", "needs_evidence"}
    BY <2>2 DEF Told, Chapter
  <2>4. cases' = Moved(c, poll[c]) /\ Exists(c)
    BY <2>1 DEF Decide, Exists
  <2>5. Told'
    BY <1>1, <1>2, <2>3, <2>4, MoveKeeps DEF CaseStatus
  <2>6. Book!Decide(c)
    <3>1. Book!Come(c, "collecting", poll[c])
      BY <2>1, <2>3, <2>4, CaseComes DEF Book!Come, CaseStatus
    <3> QED
      BY <1>1, <1>2, <2>3, <3>1 DEF Book!Decide, Book!Outcome, Sayings
  <2> QED
    BY <2>5, <2>6 DEF Entered, Book!Next
<1> QED
  BY <1>3, <1>4 DEF HandleDecided

LEMMA WorkEnters ==
  ASSUME IInv, Told, Kept, NEW w \in Worker, Work(w)
  PROVE  Entered
BY SearchEnters, WriteEnters, CallsEnter, OthersEnter, ApplyPressEnters,
   HandleDetectedEnters, HandleDecidedEnters
   DEF Work

LEMMA EnvironmentEnters ==
  ASSUME IInv, Told, Kept, Environment
  PROVE  Entered
<1>1. UNCHANGED worker
  BY DEF Environment, SendReport, PressButton, Resolve, Age, workVars
<1>2. NoSearch
  BY <1>1 DEF NoSearch
<1>3. event \in [Event -> EventRow]
  BY DEF IInv, Inboxed
<1>4. CASE \E r \in Report : SendReport(r)
  <2>1. PICK r \in Report : SendReport(r)
    BY <1>4
  <2>2. OnlyNew({r}) /\ UNCHANGED caseVars
    BY <1>3, <2>1 DEF SendReport, Stored, OnlyNew
  <2>3. \A c \in Operation : Decided(c) \notin {r}
    BY EventKinds
  <2>4. {r} \cap Press = {}
    BY EventKinds
  <2> QED
    BY <1>2, <2>2, <2>3, <2>4, QuietEnters
<1>5. CASE \E p \in Press, a \in Resident, c \in Operation \cup {None}, yes \in BOOLEAN :
             event[p].status = "absent" /\ PressButton(p, a, c, yes)
  <2>1. PICK p \in Press, a \in Resident, c \in Operation \cup {None}, yes \in BOOLEAN :
             event[p].status = "absent" /\ PressButton(p, a, c, yes)
    BY <1>5
  <2> DEFINE press == [by |-> a, case |-> c, yes |-> yes]
  <2>2. p \in Event /\ UNCHANGED caseVars
    BY <2>1 DEF Event, PressButton
  <2>3. event' = Stored(p, press)
    BY <2>1 DEF PressButton
  <2>4. event'[p].status = "pending" /\ event'[p].about = press
        /\ \A e \in Event \ {p} : event'[e] = event[e]
    <3> HIDE DEF press
    <3> QED
      BY <1>3, <2>1, <2>2, <2>3 DEF Stored, EventRow
  <2>5. Sayings' = Sayings \cup {press}
    <3> HIDE DEF press
    <3>1. \A q \in Press \ {p} : event'[q] = event[q]
      BY <2>4 DEF Event
    <3> QED
      BY <2>1, <2>4, <3>1 DEF Sayings
  <2>6. \A d \in Operation : event'[Decided(d)] = event[Decided(d)]
    BY <2>4, EventKinds
  <2>7. \A d \in Operation : Chapter(d)'
    BY <2>2, <2>6 DEF Told, Chapter, caseVars
  <2>8. Told'
    BY <1>2, <2>2, <2>7, ToldKeeps DEF Told, Exists, caseVars
  <2>9. press \in Book!Saying
    BY DEF Book!Saying
  <2>10. Book!Say
    <3> HIDE DEF press
    <3> QED
      BY <2>2, <2>5, <2>9 DEF Book!Say, caseVars
  <2> QED
    BY <2>8, <2>10 DEF Entered, Book!Next
<1>6. ASSUME NEW c \in Operation, Resolve(c)
      PROVE  Entered
  <2>1. OnlyNew({}) /\ UNCHANGED Sayings /\ UNCHANGED <<linked, remembered, poll>>
    BY <1>6, NothingNew DEF Resolve, workVars, Sayings
  <2>2. Exists(c) /\ cases[c].status = "request_ready" /\ cases' = Moved(c, "closed")
    BY <1>6 DEF Resolve, Exists
  <2>3. Told'
    BY <1>2, <2>1, <2>2, MoveKeeps DEF CaseStatus
  <2>4. Book!Close(c)
    BY <2>1, <2>2, CaseComes DEF Book!Close, Book!Come, CaseStatus
  <2> QED
    BY <2>3, <2>4 DEF Entered, Book!Next
<1>7. ASSUME NEW c \in Operation, Age(c)
      PROVE  Entered
  <2>1. UNCHANGED <<event, linked, remembered, poll>> /\ UNCHANGED Sayings
    BY <1>7 DEF Age, workVars, Sayings
  <2>2. cases' = [cases EXCEPT ![c].recent = FALSE]
    BY <1>7 DEF Age
  <2>3. cases' \in [Operation -> CaseRow] /\ \A d \in Operation : cases'[d].status = cases[d].status
    BY <2>2 DEF Told, CaseRow
  <2>4. \A d \in Operation : Chapter(d)'
    BY <2>1, <2>3 DEF Told, Chapter
  <2>5. Told'
    BY <1>2, <2>1, <2>3, <2>4, ToldKeeps DEF Told, Exists
  <2>6. UNCHANGED Book!vars
    BY <2>1, <2>3 DEF Book!vars
  <2> QED
    BY <2>5, <2>6 DEF Entered
<1> QED
  BY <1>4, <1>5, <1>6, <1>7 DEF Environment

LEMMA PollEndsEnters ==
  ASSUME IInv, Told, Kept, NEW c \in Operation, PollIsOver(c)
  PROVE  Entered
<1>1. PICK outcome \in {"request_ready", "needs_evidence"} : PollEnds(c, outcome)
  BY DEF PollIsOver
<1>2. /\ poll[c] = "open" /\ poll' = [poll EXCEPT ![c] = outcome]
      /\ UNCHANGED <<cases, linked, remembered, worker>>
      /\ event' = Stored(Decided(c), Nobody)
  BY <1>1 DEF PollEnds
<1>3. OnlyNew({Decided(c)})
  BY <1>2 DEF Stored, OnlyNew, IInv, Inboxed
<1>4. UNCHANGED Sayings
  BY <1>3, EventKinds, SameSayings
<1>5. poll' \in [Operation -> PollState] /\ \A d \in Operation \ {c} : poll'[d] = poll[d]
  BY <1>2 DEF Told, PollState
<1>6. poll'[c] = outcome
  BY <1>2 DEF Told
<1>7. \A d \in Operation \ {c} :
        event'[Decided(d)].status # "absent" => event[Decided(d)].status # "absent"
  BY <1>3, EventKinds DEF OnlyNew
<1>8. \A d \in Operation : Chapter(d)'
  BY <1>2, <1>5, <1>6, <1>7 DEF Told, Chapter
<1>9. Told'
  BY <1>2, <1>5, <1>8, ToldKeeps DEF Told, Exists, NoSearch
<1>10. Book!Answer(c)
  BY <1>2, <1>4 DEF Book!Answer, Book!Outcome
<1> QED
  BY <1>9, <1>10 DEF Entered, Book!Next

LEMMA InitTold ==
  Init => Told
<1> SUFFICES ASSUME Init
             PROVE  Told
  OBVIOUS
<1>1. NoRow \in CaseRow /\ NoRow.status = "none"
  BY DEF NoRow, CaseRow, CaseStatus
<1>2. cases \in [Operation -> CaseRow] /\ poll \in [Operation -> PollState]
  BY <1>1 DEF Init, CasesInit, PollState
<1>3. \A c \in Operation : Chapter(c)
  BY <1>1, EventKinds DEF Init, CasesInit, WorkInit, Absent, Chapter
<1>4. \A w \in Worker : Found(w)
  BY DEF Init, WorkInit, Idle, Found
<1> QED
  BY <1>2, <1>3, <1>4 DEF Told, Init, CasesInit

LEMMA NextEnters ==
  ASSUME IInv, Told, [Next]_vars
  PROVE  Entered
<1>1. Kept
  BY NextPreserves DEF Preserved
<1>2. CASE Environment
  BY <1>1, <1>2, EnvironmentEnters
<1>3. CASE \E c \in Operation : PollIsOver(c)
  BY <1>1, <1>3, PollEndsEnters
<1>4. CASE \E w \in Worker : Work(w)
  BY <1>1, <1>4, WorkEnters
<1>5. CASE \E e \in Event : ClaimEvent(e)
  <2>1. PICK e \in Event, w \in Worker : Claim(w, e) /\ UNCHANGED caseVars
    BY <1>5 DEF ClaimEvent
  <2>2. event[e].status # "absent" /\ Take(w, e)
    BY <2>1 DEF Claim
  <2>3. OnlyNew({}) /\ NoSearch
    BY <2>2, NothingNew, NobodySearches
  <2> QED
    BY <1>1, <2>1, <2>3, QuietEnters
<1>6. CASE Disturb /\ UNCHANGED <<caseVars, intakeVars>>
  <2>1. CASE \E w \in Worker : Crash(w)
    <3>1. OnlyNew({}) /\ NoSearch
      BY <2>1, NothingNew, NobodySearches
    <3> QED
      BY <1>1, <1>6, <3>1, QuietEnters
  <2>2. CASE \E w \in Worker, e \in DOMAIN event : TakeOver(w, e)
    <3>1. PICK w \in Worker, e \in Event : Take(w, e) /\ event[e].status # "absent"
      BY <2>2 DEF TakeOver, IInv, Inboxed
    <3>2. OnlyNew({}) /\ NoSearch
      BY <3>1, NothingNew, NobodySearches
    <3> QED
      BY <1>1, <1>6, <3>2, QuietEnters
  <2> QED
    BY <1>6, <2>1, <2>2 DEF Disturb
<1>7. CASE UNCHANGED vars
  <2>1. UNCHANGED <<event, worker, caseVars>>
    BY <1>7 DEF vars, workVars
  <2>2. OnlyNew({}) /\ NoSearch
    BY <2>1, NothingNew DEF NoSearch
  <2> QED
    BY <1>1, <2>1, <2>2, QuietEnters
<1> QED
  BY <1>2, <1>3, <1>4, <1>5, <1>6, <1>7 DEF Next

LEMMA BookInvariant ==
  Spec => []Told
<1>1. IInv /\ Told /\ [Next]_vars => Told'
  BY NextEnters DEF Entered
<1> QED
  BY <1>1, InitTold, IntakeInvariant, PTL DEF Spec

\* The handlers keep the book of cases, for any reports, calls of tools, workers,
\* attempts and faults: a place has one open case, which begins with a report and
\* which others join while it is open, if they name nothing that differs from it;
\* it goes its way in order and once, agreed to or refused by its author, put to
\* its neighbours and decided by their answer.
\* (MessageAgentHandler, PostgresCaseWriter, PostgresProblemConfirmationCallbacks)
THEOREM IntakeImplementsCaseOpening ==
  Spec => ImplementsCaseOpening
<1>1. Init => Book!Init
  BY DEF Init, CasesInit, WorkInit, NoRow, Absent, Event, Sayings, Book!Init
<1>2. IInv /\ Told /\ [Next]_vars => [Book!Next]_(Book!vars)
  BY NextEnters DEF Entered
<1> QED
  BY <1>1, <1>2, IntakeInvariant, BookInvariant, PTL
     DEF Spec, Book!Spec, ImplementsCaseOpening

-----------------------------------------------------------------------------
(* Types *)

\* What no other invariant says of the variables.
Bounded ==
  /\ prompted \subseteq Resident \X Operation
  /\ run \in [Report -> {"none", "running", "failed", "completed"}]
  /\ disruptions \in 0..MaxDisruptions

LEMMA NextBounded ==
  ASSUME IInv, Bounded, [Next]_vars
  PROVE  Bounded'
<1>1. ASSUME UNCHANGED <<prompted, run, disruptions>>
      PROVE  Bounded'
  BY <1>1 DEF Bounded
<1>2. ASSUME NEW w \in Worker, Reply(w)
      PROVE  Bounded'
  <2>1. Subject(w) \in Report
    BY <1>2 DEF Reply, At, IInv, Duties, Fits, Subject
  <2>2. AuthorOf[Subject(w)] \in Resident /\ linked[Subject(w)] \subseteq Operation
    BY <2>1 DEF Resident, IInv, Linking
  <2>3. UNCHANGED <<run, disruptions>>
    BY <1>2 DEF Reply
  <2>4. \/ UNCHANGED prompted
        \/ prompted' = prompted \cup
              {<<AuthorOf[Subject(w)], c>> : c \in {d \in linked[Subject(w)] :
                                                    cases[d].status = "awaiting_confirmation"}}
    BY <1>2 DEF Reply, Transaction
  <2> QED
    BY <2>2, <2>3, <2>4 DEF Bounded
<1>3. ASSUME NEW w \in Worker, BeginRun(w) \/ CompleteRun(w)
      PROVE  Bounded'
  <2>1. PICK state \in {"running", "failed", "completed", run[Subject(w)]} :
          run' = [run EXCEPT ![Subject(w)] = state] \/ UNCHANGED run
    BY <1>3 DEF BeginRun, CompleteRun
  <2>2. run' \in [Report -> {"none", "running", "failed", "completed"}]
    BY <2>1 DEF Bounded
  <2> QED
    BY <1>3, <2>2 DEF BeginRun, CompleteRun, Bounded
<1>4. ASSUME NEW w \in Worker, Work(w)
      PROVE  Bounded'
  <2>1. CASE Reply(w)
    BY <1>2, <2>1
  <2>2. CASE BeginRun(w) \/ CompleteRun(w)
    BY <1>3, <2>2
  <2>3. CASE \/ Search(w) \/ Write(w) \/ CallFails(w) \/ CallCreate(w) \/ CallAttach(w)
            \/ ApplyPress(w) \/ HandleDetected(w) \/ HandleDecided(w) \/ Continue(w)
            \/ FinishEvent(w)
    BY <1>1, <2>3 DEF Search, Write, CallFails, CallCreate, CallAttach, ApplyPress,
       HandleDetected, HandleDecided, Continue, FinishEvent, intakeVars
  <2> QED
    BY <1>4, <2>1, <2>2, <2>3 DEF Work
<1>5. CASE Disturb /\ UNCHANGED intakeVars
  <2>1. disruptions < MaxDisruptions /\ disruptions' = disruptions + 1
    BY <1>5 DEF Disturb, Crash, TakeOver
  <2>2. disruptions' \in 0..MaxDisruptions
    BY <2>1, WorkAssumption DEF Bounded
  <2> QED
    BY <1>5, <2>2 DEF Bounded, intakeVars
<1>6. CASE \/ Environment \/ (\E c \in Operation : PollIsOver(c))
          \/ (\E e \in Event : ClaimEvent(e)) \/ UNCHANGED vars
  BY <1>1, <1>6 DEF Environment, SendReport, PressButton, Resolve, Age, PollIsOver, PollEnds,
     ClaimEvent, Claim, intakeVars, workVars, vars
<1> QED
  BY <1>4, <1>5, <1>6 DEF Next

\* Cases, links, operations and polls, who was asked, and the runs of the agent
\* keep their types: a result that is applied is a status of a case, and a worker
\* that replies is at a report.
THEOREM IntakeTypeCorrect ==
  Spec => []TypeOK
<1>1. Init => Bounded
  BY WorkAssumption DEF Init, WorkInit, Bounded
<1>2. IInv /\ Bounded /\ [Next]_vars => Bounded'
  BY NextBounded
<1>3. IInv /\ Told /\ Bounded => TypeOK
  BY DEF IInv, Linking, Told, CaseRow, Bounded, TypeOK, CasesTypeOK
<1> QED
  BY <1>1, <1>2, <1>3, IntakeInvariant, BookInvariant, PTL DEF Spec
=============================================================================
