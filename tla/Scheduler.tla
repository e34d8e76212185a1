------------------------------ MODULE Scheduler ------------------------------
(***************************************************************************)
(* The timers (table scheduled_jobs) and the workers that run them:        *)
(* infrastructure/postgres/jobs.py and application/jobs/scheduler.py.      *)
(*                                                                         *)
(* A job is about an entity and holds the version that the entity had when *)
(* the job was stored.  The scheduler reads the current version in one     *)
(* transaction and runs the consumer in another; the consumer looks again  *)
(* under its own lock.  Leases are as in module Outbox.                    *)
(***************************************************************************)
EXTENDS Integers, FiniteSets

CONSTANTS Job, Entity, Worker,
          About,          \* About[j] is the entity of job j
          Nobody,         \* lease_owner IS NULL
          MaxAttempts,    \* JobScheduler.max_attempts
          MaxVersion,     \* bound: versions that other use cases reach
          MaxDisruptions  \* bound: crashes and lost leases

ASSUME SchedulerAssumption ==
  /\ About \in [Job -> Entity]
  /\ Nobody \notin Worker
  /\ MaxAttempts \in Nat \ {0}
  /\ MaxVersion \in Nat \ {0}
  /\ MaxDisruptions \in Nat

VARIABLES
  status,       \* scheduled_jobs.status, "absent" before the insert
  attempts,     \* scheduled_jobs.attempts
  owner,        \* lease_owner
  leased,       \* the lease is still running
  expected,     \* expected_version
  due,          \* jobs whose due_at has come
  version,      \* the current version of each entity
  run,          \* what each worker is doing
  ran,          \* history: jobs whose consumer has committed
  effects,      \* history: how often a job changed its entity
  disruptions   \* history: crashes and lost leases

row == <<status, attempts, owner, leased, expected>>
vars == <<row, due, version, run, ran, effects, disruptions>>

Open == {"pending", "processing"}
Final == {"done", "skipped_stale", "dead"}

Idle == [pc |-> "idle", job |-> Nobody, attempt |-> 0]
Busy == [pc : {"checking", "handling", "handled", "stale", "failing"},
         job : Job, attempt : Nat \ {0}]

TypeOK ==
  /\ status \in [Job -> {"absent"} \cup Open \cup Final]
  /\ attempts \in [Job -> Nat]
  /\ owner \in [Job -> Worker \cup {Nobody}]
  /\ leased \in [Job -> BOOLEAN]
  /\ expected \in [Job -> Nat]
  /\ due \in SUBSET Job
  /\ version \in [Entity -> Nat \ {0}]
  /\ run \in [Worker -> Busy \cup {Idle}]
  /\ ran \in SUBSET Job
  /\ effects \in [Job -> Nat]
  /\ disruptions \in Nat

Init ==
  /\ status = [j \in Job |-> "absent"]
  /\ attempts = [j \in Job |-> 0]
  /\ owner = [j \in Job |-> Nobody]
  /\ leased = [j \in Job |-> FALSE]
  /\ expected = [j \in Job |-> 0]
  /\ due = {}
  /\ version = [n \in Entity |-> 1]
  /\ run = [w \in Worker |-> Idle]
  /\ ran = {}
  /\ effects = [j \in Job |-> 0]
  /\ disruptions = 0

-----------------------------------------------------------------------------
(* Use cases *)

\* Mutant: a stored job is stored again.
EnqueueAgain(j) ==
  /\ status[j] # "processing"
  /\ status' = [status EXCEPT ![j] = "pending"]
  /\ expected' = [expected EXCEPT ![j] = version[About[j]]]
  /\ UNCHANGED <<attempts, owner, leased, due, version, run, ran, effects,
                 disruptions>>

\* JobPort.enqueue, in the transaction that reads or writes the entity.  The
\* same key again changes nothing: it is the same job or a conflict.
Enqueue(j) ==
  /\ status[j] = "absent"
  /\ status' = [status EXCEPT ![j] = "pending"]
  /\ expected' = [expected EXCEPT ![j] = version[About[j]]]
  /\ UNCHANGED <<attempts, owner, leased, due, version, run, ran, effects,
                 disruptions>>

\* Another use case moves the entity on.
Change(n) ==
  /\ version[n] < MaxVersion
  /\ version' = [version EXCEPT ![n] = @ + 1]
  /\ UNCHANGED <<row, due, run, ran, effects, disruptions>>

\* A resolution is decided: the case moves on, and the jobs of the entity that
\* no worker has claimed are retired in the same transaction.
Decide(n) ==
  /\ version[n] < MaxVersion
  /\ version' = [version EXCEPT ![n] = @ + 1]
  /\ status' = [j \in Job |-> IF About[j] = n /\ status[j] = "pending"
                               THEN "skipped_stale" ELSE status[j]]
  /\ UNCHANGED <<attempts, owner, leased, expected, due, run, ran, effects,
                 disruptions>>

FallDue(j) ==
  /\ j \notin due
  /\ due' = due \cup {j}
  /\ UNCHANGED <<row, version, run, ran, effects, disruptions>>

-----------------------------------------------------------------------------
(* PostgresJobQueue and JobScheduler *)

Holds(w, j) == status[j] = "processing" /\ owner[j] = w /\ leased[j]

IsStale(j) == version[About[j]] # expected[j]

\* Mutant: a job left behind by its worker is not claimed again.
ClaimPending(w, j) ==
  /\ run[w] = Idle
  /\ j \in due
  /\ status[j] = "pending"
  /\ status' = [status EXCEPT ![j] = "processing"]
  /\ attempts' = [attempts EXCEPT ![j] = @ + 1]
  /\ owner' = [owner EXCEPT ![j] = w]
  /\ leased' = [leased EXCEPT ![j] = TRUE]
  /\ run' = [run EXCEPT ![w] = [pc |-> "checking", job |-> j,
                                attempt |-> attempts[j] + 1]]
  /\ UNCHANGED <<expected, due, version, ran, effects, disruptions>>

\* claim: due, and available again or left behind by its worker.
Claim(w, j) ==
  /\ run[w] = Idle
  /\ j \in due
  /\ \/ status[j] = "pending"
     \/ status[j] = "processing" /\ ~leased[j]
  /\ status' = [status EXCEPT ![j] = "processing"]
  /\ attempts' = [attempts EXCEPT ![j] = @ + 1]
  /\ owner' = [owner EXCEPT ![j] = w]
  /\ leased' = [leased EXCEPT ![j] = TRUE]
  /\ run' = [run EXCEPT ![w] = [pc |-> "checking", job |-> j,
                                attempt |-> attempts[j] + 1]]
  /\ UNCHANGED <<expected, due, version, ran, effects, disruptions>>

Goto(w, pc) == run' = [run EXCEPT ![w].pc = pc]

\* current_version against expected_version, before the consumer runs.
Check(w) ==
  /\ run[w].pc = "checking"
  /\ Goto(w, IF IsStale(run[w].job) THEN "stale" ELSE "handling")
  /\ UNCHANGED <<row, due, version, ran, effects, disruptions>>

\* Mutant: the consumer trusts the comparison of the scheduler.
HandleUnchecked(w) ==
  /\ run[w].pc = "handling"
  /\ Goto(w, "handled")
  /\ LET j == run[w].job IN
     /\ ran' = ran \cup {j}
     /\ version' = [version EXCEPT ![About[j]] = @ + 1]
     /\ effects' = [effects EXCEPT ![j] = @ + 1]
  /\ UNCHANGED <<row, due, disruptions>>

\* The consumer commits.  Under its lock it compares the version again and
\* either changes the entity, which moves its version, or does nothing.
Handle(w) ==
  /\ run[w].pc = "handling"
  /\ Goto(w, "handled")
  /\ LET j == run[w].job IN
     /\ ran' = ran \cup {j}
     /\ IF IsStale(j)
        THEN UNCHANGED <<version, effects>>
        ELSE /\ version' = [version EXCEPT ![About[j]] = @ + 1]
             /\ effects' = [effects EXCEPT ![j] = @ + 1]
  /\ UNCHANGED <<row, due, disruptions>>

\* An exception: the reader's, the consumer's, or of the settling transaction.
Raise(w) ==
  /\ run[w].pc \in {"checking", "handling", "handled", "stale"}
  /\ Goto(w, "failing")
  /\ UNCHANGED <<row, due, version, ran, effects, disruptions>>

Release(j, outcome) ==
  /\ status' = [status EXCEPT ![j] = outcome]
  /\ owner' = [owner EXCEPT ![j] = Nobody]
  /\ leased' = [leased EXCEPT ![j] = FALSE]

\* settle as done or skipped_stale.  A lost lease raises into the same except
\* branch as any other error.
Settle(w) ==
  /\ run[w].pc \in {"handled", "stale"}
  /\ LET j == run[w].job IN
     \/ /\ Holds(w, j)
        /\ Release(j, IF run[w].pc = "handled" THEN "done" ELSE "skipped_stale")
        /\ run' = [run EXCEPT ![w] = Idle]
     \/ /\ ~Holds(w, j)
        /\ Goto(w, "failing")
        /\ UNCHANGED <<status, owner, leased>>
  /\ UNCHANGED <<attempts, expected, due, version, ran, effects, disruptions>>

\* The except branch: settle as pending or dead, by the attempts of the claim.
Fail(w) ==
  /\ run[w].pc = "failing"
  /\ run' = [run EXCEPT ![w] = Idle]
  /\ LET j == run[w].job IN
     \/ /\ Holds(w, j)
        /\ Release(j, IF run[w].attempt >= MaxAttempts THEN "dead" ELSE "pending")
     \/ /\ ~Holds(w, j)
        /\ UNCHANGED <<status, owner, leased>>
  /\ UNCHANGED <<attempts, expected, due, version, ran, effects, disruptions>>

-----------------------------------------------------------------------------
(* The environment *)

Disrupt ==
  /\ disruptions < MaxDisruptions
  /\ disruptions' = disruptions + 1

Crash(w) ==
  /\ run[w] # Idle
  /\ Disrupt
  /\ run' = [run EXCEPT ![w] = Idle]
  /\ UNCHANGED <<row, due, version, ran, effects>>

\* A lease runs out: its worker is gone, or its heartbeat came too late.
Lapse(j) ==
  /\ status[j] = "processing" /\ leased[j]
  /\ leased' = [leased EXCEPT ![j] = FALSE]
  /\ IF \E w \in Worker : owner[j] = w /\ run[w].job = j
     THEN Disrupt
     ELSE UNCHANGED disruptions
  /\ UNCHANGED <<status, attempts, owner, expected, due, version, run, ran,
                 effects>>

Next ==
  \/ \E j \in Job : Enqueue(j) \/ FallDue(j) \/ Lapse(j)
  \/ \E n \in Entity : Change(n) \/ Decide(n)
  \/ \E w \in Worker : \/ \E j \in Job : Claim(w, j)
                       \/ Check(w) \/ Handle(w) \/ Raise(w) \/ Settle(w)
                       \/ Fail(w) \/ Crash(w)

Spec == Init /\ [][Next]_vars

\* Time passes, run_once is called for ever and serves the earliest due job
\* first, readers and consumers return, and abandoned leases run out.
Fairness ==
  /\ \A j \in Job : /\ WF_vars(FallDue(j)) /\ WF_vars(Lapse(j))
                    /\ SF_vars(\E w \in Worker : Claim(w, j))
  /\ \A w \in Worker :
       WF_vars(Check(w) \/ Handle(w) \/ Raise(w) \/ Settle(w) \/ Fail(w))

FairSpec == Spec /\ Fairness

-----------------------------------------------------------------------------
(* Properties *)

\* A job changes its entity at most once, however often it is run: by a retry
\* after the consumer committed, by the next holder of a lost lease, or by two
\* workers that both found the version current.
EffectOnce == \A j \in Job : effects[j] <= 1

\* A job never acts on an entity that has moved on since the job was stored.
NoStaleEffect ==
  [][\A j \in Job : effects'[j] # effects[j] => ~IsStale(j)]_vars

\* A job is skipped only when its entity has moved on, and is done only when
\* its entity has moved on as well: by the job or before it.
VerdictMeansMoved ==
  \A j \in Job :
    status[j] \in {"done", "skipped_stale"} => version[About[j]] > expected[j]

\* A verdict on a job is not taken back by a worker that lost its lease.
VerdictIsFinal ==
  [][\A j \in Job : status[j] \in Final => status'[j] = status[j]]_vars

\* A due job is run, found stale or given up, whatever crashes.
EveryJobSettles ==
  \A j \in Job : status[j] = "pending" ~> status[j] \in Final

-----------------------------------------------------------------------------
(* The inductive invariant *)

Moved(j) == version[About[j]] > expected[j]

\* A stored job expects a version that its entity has had; only a stored job
\* has been run, and one that changed its entity has made itself stale.
JobsKnowTheirEntity ==
  \A j \in Job :
    /\ status[j] # "absent" => version[About[j]] >= expected[j]
    /\ status[j] = "absent" => effects[j] = 0
    /\ effects[j] > 0 => Moved(j)

\* A run stems from a claim, and what it found or did still holds.
RunsAreClaims ==
  \A w \in Worker :
    run[w] # Idle =>
      /\ status[run[w].job] # "absent"
      /\ attempts[run[w].job] >= run[w].attempt
      /\ run[w].pc \in {"handled", "stale"} => Moved(run[w].job)
      /\ run[w].pc = "handled" => run[w].job \in ran

DoneHasRun == \A j \in Job : status[j] = "done" => j \in ran

\* The strengthening of the properties above that every step preserves.
IInv ==
  /\ TypeOK
  /\ JobsKnowTheirEntity
  /\ RunsAreClaims
  /\ DoneHasRun
  /\ VerdictMeansMoved
  /\ EffectOnce

-----------------------------------------------------------------------------
(* The scheduler implements the abstract work queue *)

PhaseOf(s) ==
  CASE s \in Open -> "open"
    [] s = "skipped_stale" -> "dropped"
    [] OTHER -> s

Queue == INSTANCE WorkQueue WITH
  Item <- Job,
  Perishable <- Job,
  phase <- [j \in Job |-> PhaseOf(status[j])],
  tries <- attempts

\* A stored job is run until its consumer committed, dropped when it is stale,
\* or given up after its attempts; retries and late workers reopen no verdict.
ImplementsWorkQueue == Queue!Spec

=============================================================================
