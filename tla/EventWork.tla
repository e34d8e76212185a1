------------------------------ MODULE EventWork ------------------------------
(***************************************************************************)
(* The part of the inbox that every handler sees, for the modules that     *)
(* model handlers: an event is claimed, its handler runs in steps, each of *)
(* which is a transaction, and the worker reports that it is done or that  *)
(* it raised.  Between any two steps the worker may die, or lose its lease *)
(* and go on beside its successor.  Inbox has the queue itself, with its   *)
(* clocks, leases and delays.                                              *)
(* (application/jobs/inbox_worker.py, infrastructure/postgres/             *)
(* inbox_worker.py)                                                        *)
(***************************************************************************)
EXTENDS Naturals

CONSTANTS Worker,         \* workers of the inbox
          MaxAttempts,    \* tries after which a failing event is given up
          MaxDisruptions, \* bound on crashes and lost leases
          Nobody          \* no owner, no event, nothing read

ASSUME WorkAssumption ==
  /\ Nobody \notin Worker
  /\ MaxAttempts \in Nat
  /\ MaxDisruptions \in Nat

VARIABLES event,        \* the rows of the inbox
          worker,       \* what each worker is doing
          disruptions

workVars == <<event, worker>>

Absent == [status |-> "absent", attempts |-> 0, owner |-> Nobody, about |-> Nobody]
Idle   == [event |-> Nobody, step |-> "start", view |-> Nobody]

WorkInit(Event) ==
  /\ event = [e \in Event |-> Absent]
  /\ worker = [w \in Worker |-> Idle]
  /\ disruptions = 0

\* An event enters the inbox with what it carries; a known key adds nothing.
Stored(e, about) ==
  [event EXCEPT ![e] = IF @.status # "absent" THEN @
                       ELSE [@ EXCEPT !.status = "pending", !.about = about]]

\* A row that is done or dead: nothing reads which, nor who settled it.
Settled(row) == [row EXCEPT !.status = "settled", !.attempts = 0, !.owner = Nobody]

\* Attempts beyond the maximum make no difference and are not counted.
Take(w, e) ==
  /\ worker[w] = Idle
  /\ event' = [event EXCEPT ![e].status = "processing", ![e].owner = w,
                  ![e].attempts = IF @ < MaxAttempts THEN @ + 1 ELSE @]
  /\ worker' = [worker EXCEPT ![w].event = e]

Claim(w, e) ==
  /\ event[e].status = "pending"
  /\ Take(w, e)
  /\ UNCHANGED disruptions

\* The lease of a worker runs out while it is still at the event.
TakeOver(w, e) ==
  /\ event[e].status = "processing"
  /\ disruptions < MaxDisruptions
  /\ disruptions' = disruptions + 1
  /\ Take(w, e)

\* Mutant: an event left behind by its worker is not claimed again.
LeftForGood(e) == event

\* An event left behind is claimed, when its lease has run out, as a pending one.
Left(e) == [event EXCEPT ![e].status = "pending", ![e].owner = Nobody]

Crash(w) ==
  LET e == worker[w].event IN
  /\ worker[w] # Idle
  /\ disruptions < MaxDisruptions
  /\ disruptions' = disruptions + 1
  /\ worker' = [worker EXCEPT ![w] = Idle]
  /\ event' = IF event[e].owner = w THEN Left(e) ELSE event

At(w, step) == worker[w] # Idle /\ worker[w].step = step
Subject(w) == worker[w].event
About(w) == event[Subject(w)].about
View(w) == worker[w].view

\* The handler goes on, with what it has read, or with nothing to remember.
Read(w, step, view) == worker' = [worker EXCEPT ![w].step = step, ![w].view = view]
Goto(w, step) == Read(w, step, Nobody)
Proceed(w, step) == Goto(w, step) /\ UNCHANGED event

\* The worker reports, which counts if the event is still its own: the handler
\* is done, or it raised and the event is tried again or given up.
Conclude(w, row) ==
  /\ event' = IF event[Subject(w)].owner = w
              THEN [event EXCEPT ![Subject(w)] = row] ELSE event
  /\ worker' = [worker EXCEPT ![w] = Idle]

Finish(w) == Conclude(w, Settled(event[Subject(w)]))

Raise(w) ==
  LET row == event[Subject(w)] IN
  Conclude(w, IF row.attempts = MaxAttempts THEN Settled(row)
             ELSE [row EXCEPT !.status = "pending", !.owner = Nobody])

\* A transaction that raises unless its condition holds.
Transaction(w, condition, effect, otherwise, step) ==
  \/ condition /\ effect /\ Goto(w, step)
  \/ ~ condition /\ otherwise /\ Raise(w)

Disturb == \E w \in Worker : Crash(w) \/ \E e \in DOMAIN event : TakeOver(w, e)
=============================================================================
