-------------------------------- MODULE Inbox --------------------------------
(***************************************************************************)
(* The durable inbox (table inbox_events) and the workers that drain it:   *)
(* application/jobs/inbox_worker.py over infrastructure/postgres/          *)
(* inbox_worker.py, inbox.py and retention.py.                             *)
(*                                                                         *)
(* One action is one PostgreSQL transaction or one step of a worker        *)
(* between transactions.  Times are kept as the distance from the database *)
(* present: left[e] is lease_until - now and wait[e] is available_at -     *)
(* now.  A worker reads its clock before its statement runs, so each       *)
(* transaction sees a "now" that is up to Lag ticks old.                   *)
(***************************************************************************)
EXTENDS Integers, FiniteSets

CONSTANTS Event,          \* every update and domain event that can be stored
          Worker,         \* inbox processes; each has a WORKER_ID of its own
          Nobody,         \* lease_owner IS NULL
          Unknown,        \* updates that normalize_update maps to no event
          Emits,          \* Emits[e]: domain events saved by the handler of e
          MaxAttempts,    \* InboxWorker.max_attempts
          Lease,          \* InboxWorker.lease_for, in ticks
          RetryAfter,     \* retry_after of InboxStore.fail, in ticks
          Lag,            \* how old the "now" of a transaction can be
          MaxDisruptions  \* bound: crashes, lost database calls and stalls

Domain == UNION {Emits[e] : e \in Event}

ASSUME InboxAssumption ==
  /\ Nobody \notin Worker
  /\ Unknown \subseteq Event
  /\ Emits \in [Event -> SUBSET Event]
  /\ Unknown \cap Domain = {}
  /\ MaxAttempts \in Nat \ {0}
  /\ Lag \in Nat
  /\ Lease \in Nat /\ Lease > Lag
  /\ RetryAfter \in Nat /\ RetryAfter >= Lag
  /\ MaxDisruptions \in Nat

VARIABLES
  status,       \* inbox_events.status, "absent" before the insert
  attempts,     \* inbox_events.attempts
  owner,        \* inbox_events.lease_owner
  left,         \* time left on the lease, 0 when there is none
  wait,         \* time until a pending event is available
  received,     \* rank of received_at; events of one batch share it
  redacted,     \* events whose normalized_event was erased
  job,          \* what each worker is doing
  applied,      \* history: events whose handler has committed its effects
  disruptions   \* history: how many disruptions have happened

rows == <<status, attempts, owner, left, wait, received, redacted>>
vars == <<status, attempts, owner, left, wait, received, redacted, job,
          applied, disruptions>>

Status == {"absent", "ignored", "pending", "processing", "done", "dead"}
Step == {"idle", "handling", "handled", "failing"}

Idle == [pc |-> "idle", event |-> Nobody, attempt |-> 0]
Busy == [pc : Step \ {"idle"}, event : Event, attempt : Nat]

TypeOK ==
  /\ status \in [Event -> Status]
  /\ attempts \in [Event -> Nat]
  /\ owner \in [Event -> Worker \cup {Nobody}]
  /\ left \in [Event -> (-Lag)..Lease]
  /\ wait \in [Event -> (-Lag)..RetryAfter]
  /\ received \in [Event -> Nat]
  /\ redacted \in SUBSET Event
  /\ job \in [Worker -> Busy \cup {Idle}]
  /\ applied \in SUBSET Event
  /\ disruptions \in Nat

Init ==
  /\ status = [e \in Event |-> "absent"]
  /\ attempts = [e \in Event |-> 0]
  /\ owner = [e \in Event |-> Nobody]
  /\ left = [e \in Event |-> 0]
  /\ wait = [e \in Event |-> 0]
  /\ received = [e \in Event |-> 0]
  /\ redacted = {}
  /\ job = [w \in Worker |-> Idle]
  /\ applied = {}
  /\ disruptions = 0

-----------------------------------------------------------------------------
(* Storing events *)

\* Mutant: ON CONFLICT DO UPDATE, so that a redelivery resets the row.
InsertUpserts(S, initial, rank) ==
  /\ status' = [e \in Event |-> IF e \in S THEN initial[e] ELSE status[e]]
  /\ received' = [e \in Event |-> IF e \in S THEN rank ELSE received[e]]

\* INSERT ... ON CONFLICT DO NOTHING: only the absent events of S get a row.
Insert(S, initial, rank) ==
  LET new == {e \in S : status[e] = "absent"} IN
  /\ status' = [e \in Event |-> IF e \in new THEN initial[e] ELSE status[e]]
  /\ received' = [e \in Event |-> IF e \in new THEN rank ELSE received[e]]

\* The rank of an instant of receipt: that of the latest event, or the next.
Receipts ==
  {rank \in 1..Cardinality(Event) :
     /\ \A e \in Event : received[e] <= rank
     /\ rank = 1 \/ \E e \in Event : received[e] + 1 >= rank}

\* save_inbox_event for an update that the platform delivers, again or anew.
Receive(e) ==
  /\ e \notin Domain
  /\ \E rank \in Receipts :
       Insert({e}, [f \in Event |-> IF f \in Unknown THEN "ignored"
                                    ELSE "pending"], rank)
  /\ UNCHANGED <<attempts, owner, left, wait, redacted, job, applied,
                 disruptions>>

\* Mutant: the retention job looks at the age of an event only.
RedactAnyStatus ==
  \E before \in 2..(Cardinality(Event) + 1) :
    /\ redacted' = redacted \cup
         {e \in Event : received[e] < before /\ status[e] # "absent"}
    /\ UNCHANGED <<status, attempts, owner, left, wait, received, job, applied,
                   disruptions>>

\* redact_expired_payloads: events received before the retention boundary.
Redact ==
  \E before \in 2..(Cardinality(Event) + 1) :
    /\ redacted' = redacted \cup
         {e \in Event : received[e] < before /\ status[e] \in {"done", "ignored"}}
    /\ UNCHANGED <<status, attempts, owner, left, wait, received, job, applied,
                   disruptions>>

-----------------------------------------------------------------------------
(* InboxStore, called by one worker with a clock that is d ticks behind *)

\* Mutant: a lease does not keep other workers away.
EligibleUnderLease(e, d) ==
  \/ status[e] = "pending" /\ wait[e] + d <= 0
  \/ status[e] = "processing"

\* Mutant: an event left behind by its worker is not claimed again.
EligibleOnlyPending(e, d) == status[e] = "pending" /\ wait[e] + d <= 0

Eligible(e, d) ==
  \/ status[e] = "pending" /\ wait[e] + d <= 0
  \/ status[e] = "processing" /\ left[e] + d <= 0

\* Mutant: WHERE without lease_owner.
HoldsAsAnyone(w, e, d) == status[e] = "processing" /\ left[e] + d > 0

Holds(w, e, d) ==
  /\ status[e] = "processing"
  /\ owner[e] = w
  /\ left[e] + d > 0

\* claim: the earliest eligible row; ties of received_at break on a random id.
\* A row without a payload would raise instead, and nothing would be claimed.
\* Rows that another transaction has locked are skipped: here a transaction is
\* one step, after which they are no longer eligible.
Claim(w) ==
  /\ job[w] = Idle
  /\ \E d \in 0..Lag, e \in Event :
       /\ Eligible(e, d)
       /\ \A f \in Event : Eligible(f, d) => received[e] <= received[f]
       /\ e \notin redacted
       /\ status' = [status EXCEPT ![e] = "processing"]
       /\ attempts' = [attempts EXCEPT ![e] = @ + 1]
       /\ owner' = [owner EXCEPT ![e] = w]
       /\ left' = [left EXCEPT ![e] = Lease - d]
       /\ job' = [job EXCEPT ![w] = [pc |-> "handling", event |-> e,
                                     attempt |-> attempts[e] + 1]]
  /\ UNCHANGED <<wait, received, redacted, applied, disruptions>>

\* heartbeat, every third of a lease while the handler runs.
Heartbeat(w) ==
  /\ job[w] # Idle
  /\ \E d \in 0..Lag :
       /\ Holds(w, job[w].event, d)
       /\ left' = [left EXCEPT ![job[w].event] = Lease - d]
  /\ UNCHANGED <<status, attempts, owner, wait, received, redacted, job,
                 applied, disruptions>>

Release(e, outcome) ==
  /\ status' = [status EXCEPT ![e] = outcome]
  /\ owner' = [owner EXCEPT ![e] = Nobody]
  /\ left' = [left EXCEPT ![e] = 0]

\* finish; a LeaseLostError lands in the same except branch as a handler error.
Finish(w) ==
  /\ job[w].pc = "handled"
  /\ \E d \in 0..Lag :
       \/ /\ Holds(w, job[w].event, d)
          /\ Release(job[w].event, "done")
          /\ job' = [job EXCEPT ![w] = Idle]
       \/ /\ ~Holds(w, job[w].event, d)
          /\ job' = [job EXCEPT ![w].pc = "failing"]
          /\ UNCHANGED <<status, owner, left>>
  /\ UNCHANGED <<attempts, wait, received, redacted, applied, disruptions>>

\* fail: retried later, or dead when the attempts are used up.  A lost lease
\* raises out of run_once and leaves the row to its new owner.
Fail(w) ==
  /\ job[w].pc = "failing"
  /\ job' = [job EXCEPT ![w] = Idle]
  /\ LET e == job[w].event IN
     \E d \in 0..Lag :
       \/ /\ Holds(w, e, d)
          /\ Release(e, IF attempts[e] >= MaxAttempts THEN "dead"
                        ELSE "pending")
          /\ wait' = [wait EXCEPT ![e] = RetryAfter - d]
       \/ /\ ~Holds(w, e, d)
          /\ UNCHANGED <<status, owner, left, wait>>
  /\ UNCHANGED <<attempts, received, redacted, applied, disruptions>>

-----------------------------------------------------------------------------
(* The handler, outside of the claim's transaction *)

\* The handler commits: its effects and the domain events it saves are one
\* transaction, which no lease guards.  A domain event carries the present as
\* its time of receipt, or the time of the event that caused it.
Apply(w) ==
  /\ job[w].pc = "handling"
  /\ job' = [job EXCEPT ![w].pc = "handled"]
  /\ applied' = applied \cup {job[w].event}
  /\ \E rank \in Receipts \cup {received[job[w].event]} :
       Insert(Emits[job[w].event], [f \in Event |-> "pending"], rank)
  /\ UNCHANGED <<attempts, owner, left, wait, redacted, disruptions>>

\* Any exception: before the handler committed (no handler accepted the event,
\* a conflict, a timeout), or after it (an acknowledgement, the finish itself).
Raise(w) ==
  /\ job[w].pc \in {"handling", "handled"}
  /\ job' = [job EXCEPT ![w].pc = "failing"]
  /\ UNCHANGED <<rows, applied, disruptions>>

-----------------------------------------------------------------------------
(* The environment *)

\* The process dies, or the transaction of fail is lost: the row stays
\* "processing" until its lease runs out.
Crash(w) ==
  /\ job[w] # Idle
  /\ disruptions < MaxDisruptions
  /\ disruptions' = disruptions + 1
  /\ job' = [job EXCEPT ![w] = Idle]
  /\ UNCHANGED <<rows, applied>>

\* Events whose lease runs out with this tick under a worker still on them.
Stalled ==
  {e \in Event : left[e] = 1 /\ \E w \in Worker :
      job[w] # Idle /\ job[w].event = e /\ owner[e] = w}

Elapse(t) == IF t > -Lag THEN t - 1 ELSE t

\* Time passes.  A heartbeat that comes too late counts as a disruption.
Tick ==
  /\ left' = [e \in Event |-> IF status[e] = "processing" THEN Elapse(left[e])
                              ELSE left[e]]
  /\ wait' = [e \in Event |-> IF status[e] = "pending" THEN Elapse(wait[e])
                              ELSE wait[e]]
  /\ \/ Stalled = {} /\ UNCHANGED disruptions
     \/ /\ Stalled # {}
        /\ disruptions < MaxDisruptions
        /\ disruptions' = disruptions + 1
  /\ UNCHANGED <<status, attempts, owner, received, redacted, job, applied>>

Next ==
  \/ \E e \in Event : Receive(e)
  \/ \E w \in Worker : \/ Claim(w) \/ Heartbeat(w) \/ Apply(w) \/ Raise(w)
                       \/ Finish(w) \/ Fail(w) \/ Crash(w)
  \/ Redact
  \/ Tick

Spec == Init /\ [][Next]_vars

\* run_once is called for ever, handlers return or time out, the heartbeat task
\* is scheduled, and time passes.
Fairness ==
  /\ WF_vars(Tick)
  /\ \A w \in Worker : /\ WF_vars(Claim(w))
                       /\ WF_vars(Heartbeat(w))
                       /\ WF_vars(Apply(w) \/ Raise(w) \/ Finish(w) \/ Fail(w))

FairSpec == Spec /\ Fairness

-----------------------------------------------------------------------------
(* Properties *)

\* Every attempt beyond max_attempts is paid for by a crash or a lost lease:
\* the claim itself has no limit, only InboxStore.fail has.
AttemptsBounded ==
  \A e \in Event : attempts[e] <= MaxAttempts + disruptions

\* Two workers are on the same event only after a crash or a late heartbeat.
ExclusiveUnlessDisrupted ==
  disruptions = 0 =>
    \A v, w \in Worker :
      v # w /\ job[v] # Idle /\ job[w] # Idle => job[v].event # job[w].event

\* The retention job never takes the payload from an event that a worker may
\* still claim, which would make the claim raise for ever and block the queue.
ClaimableHasPayload ==
  \A e \in Event : status[e] \in {"pending", "processing"} => e \notin redacted

\* The outcome of an event is written by the worker that made its last claim,
\* and on behalf of that claim: a worker whose lease was taken over cannot
\* finish, fail or requeue the event under its successor.
SettledByItsClaim ==
  [][\A e \in Event :
       status[e] = "processing" /\ status'[e] # "processing" =>
         \E w \in Worker :
           /\ owner[e] = w
           /\ job[w] # Idle
           /\ job[w].event = e
           /\ job[w].attempt = attempts[e]
           /\ job'[w] = Idle]_vars

\* A domain event is in the inbox exactly when a handler that emits it has
\* committed: neither can a crash lose it nor a retried handler double it.
EmittedWithEffects ==
  \A f \in Domain :
    status[f] # "absent" <=> \E e \in applied : f \in Emits[e]

\* Every stored event is handled or given up, whatever crashes and stalls.
EveryEventSettles ==
  \A e \in Event : status[e] = "pending" ~> status[e] \in {"done", "dead"}

-----------------------------------------------------------------------------
(* The inductive invariant *)

\* Worker w is on event e under a lease that is still running.
Live(w, e) ==
  /\ job[w] # Idle
  /\ job[w].event = e
  /\ status[e] = "processing"
  /\ owner[e] = w
  /\ left[e] > 0

OwnedWhileProcessing ==
  \A e \in Event : status[e] = "processing" <=> owner[e] # Nobody

\* A job stems from a claim; while its worker owns the row it is the last one.
JobsAreClaims ==
  \A w \in Worker :
    job[w] # Idle =>
      /\ attempts[job[w].event] > 0
      /\ owner[job[w].event] = w => job[w].attempt = attempts[job[w].event]

\* Only events that entered as work have attempts; one that waits has some
\* left; one in processing that nobody will settle has been paid for.
AttemptLedger ==
  \A e \in Event :
    /\ attempts[e] > 0 => status[e] \notin {"absent", "ignored"}
    /\ status[e] = "pending" => attempts[e] < MaxAttempts
    /\ status[e] = "processing" =>
         \/ attempts[e] < MaxAttempts + disruptions
         \/ \E w \in Worker : Live(w, e)

HeldUnlessDisrupted ==
  disruptions = 0 => \A w \in Worker : job[w] # Idle => Live(w, job[w].event)

RedactedIsFinal ==
  \A e \in redacted : status[e] \in {"done", "ignored"}

DoneIsApplied ==
  /\ \A w \in Worker : job[w].pc = "handled" => job[w].event \in applied
  /\ \A e \in Event : status[e] = "done" => e \in applied

\* The strengthening of the properties above that every step preserves.
IInv ==
  /\ TypeOK
  /\ OwnedWhileProcessing
  /\ JobsAreClaims
  /\ AttemptLedger
  /\ AttemptsBounded
  /\ HeldUnlessDisrupted
  /\ RedactedIsFinal
  /\ EmittedWithEffects
  /\ DoneIsApplied

-----------------------------------------------------------------------------
(* The inbox implements the abstract work queue *)

PhaseOf(s) == IF s \in {"pending", "processing"} THEN "open" ELSE s

Queue == INSTANCE WorkQueue WITH
  Item  <- Event,
  Perishable <- {},
  phase <- [e \in Event |-> PhaseOf(status[e])],
  tries <- attempts,
  ran   <- applied

\* A stored event is tried until its handler took effect, "done" means it took
\* effect, "dead" that the attempts are used up, and redelivery, retention or a
\* late worker never reopens a verdict.
ImplementsWorkQueue == Queue!Spec

=============================================================================
