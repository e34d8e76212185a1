-------------------------- MODULE SchedulerProofs --------------------------
(***************************************************************************)
(* Theorems about the scheduler for any number of jobs, entities and       *)
(* workers that satisfy SchedulerAssumption.                               *)
(***************************************************************************)
EXTENDS Scheduler, TLAPS

\* A worker that is not idle has a run record of the busy kind.
LEMMA BusyRun ==
  ASSUME TypeOK, NEW w \in Worker
  PROVE  /\ run[w] # Idle => run[w] \in Busy /\ run[w].job \in Job
         /\ run[w].pc # "idle" => run[w] \in Busy /\ run[w] # Idle /\ run[w].job \in Job
         /\ run[w] \in Busy => run[w] # Idle
  BY DEF TypeOK, Busy, Idle

\* Moving a busy worker to another busy step changes nothing else about it, and
\* nothing about the others.
LEMMA GotoStep ==
  ASSUME TypeOK, NEW w \in Worker, run[w] \in Busy,
         NEW s \in {"checking", "handling", "handled", "stale", "failing"},
         Goto(w, s)
  PROVE  /\ run' \in [Worker -> Busy \cup {Idle}]
         /\ run'[w] \in Busy
         /\ run'[w].pc = s
         /\ run'[w].job = run[w].job
         /\ run'[w].attempt = run[w].attempt
         /\ \A v \in Worker : v # w => run'[v] = run[v]
<1>1. [run[w] EXCEPT !.pc = s] \in Busy
  BY DEF Busy
<1>2. run' = [run EXCEPT ![w] = [run[w] EXCEPT !.pc = s]]
  BY DEF Goto
<1>3. /\ [run[w] EXCEPT !.pc = s].job = run[w].job
      /\ [run[w] EXCEPT !.pc = s].attempt = run[w].attempt
      /\ [run[w] EXCEPT !.pc = s].pc = s
  BY DEF Busy
<1> QED BY <1>1, <1>2, <1>3 DEF TypeOK

\* Releasing a row touches the row only.
LEMMA ReleaseTypes ==
  ASSUME TypeOK, NEW j \in Job, NEW outcome \in Open \cup Final, Release(j, outcome)
  PROVE  /\ status' \in [Job -> {"absent"} \cup Open \cup Final]
         /\ owner' \in [Job -> Worker \cup {Nobody}]
         /\ leased' \in [Job -> BOOLEAN]
         /\ status'[j] = outcome
         /\ \A i \in Job : i # j => status'[i] = status[i]
  BY DEF Release, TypeOK, Open, Final

-----------------------------------------------------------------------------

\* Every variable keeps its type.
THEOREM TypeCorrect == Spec => []TypeOK
<1>1. Init => TypeOK
  BY SchedulerAssumption DEF Init, TypeOK
<1>2. TypeOK /\ [Next]_vars => TypeOK'
  <2> SUFFICES ASSUME TypeOK, [Next]_vars PROVE TypeOK'
    OBVIOUS
  <2> USE SchedulerAssumption
  <2>1. ASSUME NEW j \in Job, Enqueue(j) PROVE TypeOK'
    BY <2>1 DEF TypeOK, Enqueue, Open
  <2>2. ASSUME NEW n \in Entity, Change(n) PROVE TypeOK'
    BY <2>2 DEF TypeOK, Change, row
  <2>3. ASSUME NEW n \in Entity, Decide(n) PROVE TypeOK'
    BY <2>3 DEF TypeOK, Decide, Final
  <2>4. ASSUME NEW j \in Job, FallDue(j) PROVE TypeOK'
    BY <2>4 DEF TypeOK, FallDue, row
  <2>5. ASSUME NEW w \in Worker, NEW j \in Job, Claim(w, j) PROVE TypeOK'
    <3>1. [pc |-> "checking", job |-> j, attempt |-> attempts[j] + 1] \in Busy
      BY DEF TypeOK, Busy
    <3>2. run' \in [Worker -> Busy \cup {Idle}]
      BY <2>5, <3>1 DEF Claim, TypeOK
    <3> QED BY <2>5, <3>2 DEF TypeOK, Claim, Open
  <2>6. ASSUME NEW w \in Worker, Check(w) PROVE TypeOK'
    <3>1. run' \in [Worker -> Busy \cup {Idle}]
      BY <2>6, BusyRun, GotoStep DEF Check
    <3> QED BY <2>6, <3>1 DEF TypeOK, Check, row
  <2>7. ASSUME NEW w \in Worker, Handle(w) PROVE TypeOK'
    <3>1. run' \in [Worker -> Busy \cup {Idle}] /\ run[w].job \in Job
      BY <2>7, BusyRun, GotoStep DEF Handle
    <3>2. About[run[w].job] \in Entity
      BY <3>1
    <3>3. ran' \in SUBSET Job
      BY <2>7, <3>1 DEF Handle, TypeOK
    <3>4. version' \in [Entity -> Nat \ {0}] /\ effects' \in [Job -> Nat]
      BY <2>7, <3>1, <3>2 DEF Handle, TypeOK
    <3> QED BY <2>7, <3>1, <3>3, <3>4 DEF TypeOK, Handle, row
  <2>8. ASSUME NEW w \in Worker, Raise(w) PROVE TypeOK'
    <3>1. run' \in [Worker -> Busy \cup {Idle}]
      BY <2>8, BusyRun, GotoStep DEF Raise
    <3> QED BY <2>8, <3>1 DEF TypeOK, Raise, row
  <2>9. ASSUME NEW w \in Worker, Settle(w) PROVE TypeOK'
    <3>1. run[w] \in Busy /\ run[w].job \in Job
      BY <2>9, BusyRun DEF Settle
    <3>2. run' \in [Worker -> Busy \cup {Idle}]
      BY <2>9, <3>1, GotoStep DEF Settle, TypeOK
    <3>3. /\ status' \in [Job -> {"absent"} \cup Open \cup Final]
          /\ owner' \in [Job -> Worker \cup {Nobody}]
          /\ leased' \in [Job -> BOOLEAN]
      <4>1. CASE UNCHANGED <<status, owner, leased>>
        BY <4>1 DEF TypeOK
      <4>2. CASE \E outcome \in Open \cup Final : Release(run[w].job, outcome)
        BY <3>1, <4>2, ReleaseTypes
      <4> QED BY <2>9, <4>1, <4>2 DEF Settle, Final
    <3> QED BY <2>9, <3>2, <3>3 DEF TypeOK, Settle
  <2>10. ASSUME NEW w \in Worker, Fail(w) PROVE TypeOK'
    <3>1. run[w] \in Busy /\ run[w].job \in Job
      BY <2>10, BusyRun DEF Fail
    <3>2. /\ status' \in [Job -> {"absent"} \cup Open \cup Final]
          /\ owner' \in [Job -> Worker \cup {Nobody}]
          /\ leased' \in [Job -> BOOLEAN]
      <4>1. CASE UNCHANGED <<status, owner, leased>>
        BY <4>1 DEF TypeOK
      <4>2. CASE \E outcome \in Open \cup Final : Release(run[w].job, outcome)
        BY <3>1, <4>2, ReleaseTypes
      <4> QED BY <2>10, <4>1, <4>2 DEF Fail, Open, Final
    <3> QED BY <2>10, <3>2 DEF TypeOK, Fail
  <2>11. ASSUME NEW w \in Worker, Crash(w) PROVE TypeOK'
    BY <2>11 DEF TypeOK, Crash, Disrupt, row
  <2>12. ASSUME NEW j \in Job, Lapse(j) PROVE TypeOK'
    <3>1. disruptions' \in Nat
      BY <2>12 DEF Lapse, Disrupt, TypeOK
    <3> QED BY <2>12, <3>1 DEF TypeOK, Lapse
  <2>13. CASE UNCHANGED vars
    BY <2>13 DEF TypeOK, vars, row
  <2> QED BY <2>1, <2>2, <2>3, <2>4, <2>5, <2>6, <2>7, <2>8, <2>9, <2>10, <2>11,
             <2>12, <2>13 DEF Next
<1> QED BY <1>1, <1>2, PTL DEF Spec

-----------------------------------------------------------------------------
(* The inductive invariant *)

\* A job has moved in the next state; unlike Moved(j)', the job itself is taken
\* from this state.
MovedNext(j) == version'[About[j]] > expected'[j]

\* Versions only grow, and a job keeps the version it was stored with.
LEMMA VersionsGrow ==
  ASSUME TypeOK, Next
  PROVE  /\ \A n \in Entity : version'[n] >= version[n]
         /\ \A j \in Job : status[j] # "absent" => expected'[j] = expected[j]
<1>1. \A n \in Entity : version'[n] >= version[n]
  BY SchedulerAssumption, BusyRun
     DEF Next, TypeOK, Enqueue, Change, Decide, FallDue, Claim, Check, Handle, Raise,
         Settle, Fail, Crash, Lapse
<1>2. \A j \in Job : status[j] # "absent" => expected'[j] = expected[j]
  BY DEF Next, TypeOK, Enqueue, Change, Decide, FallDue, Claim, Check, Handle, Raise,
         Settle, Fail, Crash, Lapse, row
<1> QED BY <1>1, <1>2

\* A job that has moved stays moved.
LEMMA MovedStays ==
  ASSUME TypeOK, TypeOK', Next, NEW j \in Job, status[j] # "absent", Moved(j)
  PROVE  MovedNext(j)
<1>1. About[j] \in Entity
  BY SchedulerAssumption
<1>2. version'[About[j]] >= version[About[j]] /\ expected'[j] = expected[j]
  BY <1>1, VersionsGrow
<1>3. version[About[j]] \in Nat /\ expected[j] \in Nat /\ version'[About[j]] \in Nat
  BY <1>1 DEF TypeOK
<1> QED BY <1>2, <1>3 DEF Moved, MovedNext

LEMMA InitIInv == Init => IInv
<1> SUFFICES ASSUME Init PROVE IInv
  OBVIOUS
<1>1. TypeOK
  BY SchedulerAssumption DEF Init, TypeOK
<1> QED BY <1>1 DEF Init, IInv, JobsKnowTheirEntity, RunsAreClaims, DoneHasRun,
                    VerdictMeansMoved, EffectOnce, Open, Final

\* The part about the entities: only a job that is not stale changes its entity,
\* and so becomes stale.
LEMMA JobsStep ==
  ASSUME IInv, TypeOK', Next PROVE JobsKnowTheirEntity' /\ EffectOnce'
<1> USE SchedulerAssumption
<1>1. TypeOK /\ JobsKnowTheirEntity /\ EffectOnce
  BY DEF IInv
<1>2. SUFFICES ASSUME NEW j \in Job
               PROVE  /\ status'[j] # "absent" => version'[About[j]] >= expected'[j]
                      /\ status'[j] = "absent" => effects'[j] = 0
                      /\ effects'[j] > 0 => version'[About[j]] > expected'[j]
                      /\ effects'[j] <= 1
  BY DEF JobsKnowTheirEntity, EffectOnce, Moved
<1>3. CASE status[j] = "absent" /\ ~\E w \in Worker : Handle(w)
  <2>1. effects'[j] = 0
    BY <1>1, <1>3 DEF Next, JobsKnowTheirEntity, Enqueue, Change, Decide, FallDue, Claim,
                      Check, Raise, Settle, Fail, Crash, Lapse
  <2>2. CASE Enqueue(j)
    BY <1>1, <2>1, <2>2 DEF Enqueue, TypeOK
  <2>3. CASE ~Enqueue(j)
    <3>1. ASSUME NEW w \in Worker, Settle(w) \/ Fail(w) PROVE status'[j] = "absent"
      <4>1. run[w].job \in Job /\ run[w] # Idle
        BY <1>1, <3>1, BusyRun DEF Settle, Fail
      <4>2. run[w].job # j
        BY <1>3, <4>1 DEF IInv, RunsAreClaims
      <4> QED BY <1>1, <1>3, <3>1, <4>1, <4>2 DEF Settle, Fail, Release, TypeOK
    <3>2. status'[j] = "absent"
      BY <1>1, <1>3, <2>3, <3>1
         DEF Next, Enqueue, Change, Decide, FallDue, Claim, Check, Raise, Crash, Lapse,
             row, TypeOK
    <3> QED BY <2>1, <3>2
  <2> QED BY <2>2, <2>3
<1>4. CASE status[j] # "absent" /\ ~\E w \in Worker : Handle(w)
  <2>1. effects'[j] = effects[j]
    BY <1>4 DEF Next, Enqueue, Change, Decide, FallDue, Claim, Check, Raise, Settle, Fail,
                Crash, Lapse
  <2>2. status'[j] # "absent"
    BY <1>1, <1>4
       DEF Next, Enqueue, Change, Decide, FallDue, Claim, Check, Raise, Settle, Fail, Crash,
           Lapse, Release, row, TypeOK
  <2>3. /\ expected'[j] = expected[j]
        /\ version'[About[j]] >= version[About[j]]
    BY <1>1, <1>4, VersionsGrow
  <2> QED
    BY <1>1, <1>4, <2>1, <2>2, <2>3 DEF JobsKnowTheirEntity, EffectOnce, Moved, TypeOK
<1>5. ASSUME NEW w \in Worker, Handle(w)
      PROVE  /\ status'[j] # "absent" => version'[About[j]] >= expected'[j]
             /\ status'[j] = "absent" => effects'[j] = 0
             /\ effects'[j] > 0 => version'[About[j]] > expected'[j]
             /\ effects'[j] <= 1
  <2>1. run[w].job \in Job /\ run[w] # Idle
    BY <1>1, <1>5, BusyRun DEF Handle
  <2>2. status[run[w].job] # "absent"
    BY <2>1 DEF IInv, RunsAreClaims
  <2>3. status'[j] = status[j] /\ expected'[j] = expected[j]
    BY <1>5 DEF Handle, row
  <2>4. version'[About[j]] >= version[About[j]]
    BY <1>1, VersionsGrow
  <2>5. CASE effects'[j] = effects[j]
    BY <1>1, <2>3, <2>4, <2>5 DEF JobsKnowTheirEntity, EffectOnce, Moved, TypeOK
  <2>6. CASE effects'[j] # effects[j]
    <3>1. j = run[w].job /\ ~IsStale(j) /\ effects'[j] = effects[j] + 1
          /\ version'[About[j]] = version[About[j]] + 1
      BY <1>1, <1>5, <2>1, <2>6 DEF Handle, TypeOK
    <3>2. effects[j] = 0 /\ version[About[j]] = expected[j]
      BY <1>1, <3>1 DEF JobsKnowTheirEntity, Moved, IsStale, TypeOK
    <3> QED BY <1>1, <2>2, <2>3, <3>1, <3>2 DEF TypeOK
  <2> QED BY <2>5, <2>6
<1> QED BY <1>3, <1>4, <1>5

\* The part about the workers: a run is marked handled or stale only when its
\* job has moved, and that lasts.
LEMMA RunsStep ==
  ASSUME IInv, TypeOK', Next PROVE RunsAreClaims'
<1> USE SchedulerAssumption
<1>1. TypeOK /\ JobsKnowTheirEntity /\ RunsAreClaims
  BY DEF IInv
<1>2. SUFFICES ASSUME NEW v \in Worker, run'[v] # Idle
               PROVE  /\ status'[run'[v].job] # "absent"
                      /\ attempts'[run'[v].job] >= run'[v].attempt
                      /\ run'[v].pc \in {"handled", "stale"} => MovedNext(run'[v].job)
                      /\ run'[v].pc = "handled" => run'[v].job \in ran'
  BY DEF RunsAreClaims, Moved, MovedNext
<1>3. \A j \in Job : /\ status[j] # "absent" => status'[j] # "absent"
                     /\ attempts'[j] >= attempts[j]
                     /\ j \in ran => j \in ran'
  BY <1>1 DEF Next, Enqueue, Change, Decide, FallDue, Claim, Check, Handle, Raise, Settle,
              Fail, Crash, Lapse, Release, row, TypeOK
<1>4. CASE run'[v] = run[v]
  <2>1. run[v] # Idle /\ run[v].job \in Job /\ run[v] \in Busy
    BY <1>1, <1>2, <1>4, BusyRun
  <2>2. run[v].pc \in {"handled", "stale"} => MovedNext(run[v].job)
    BY <1>1, <2>1, MovedStays DEF RunsAreClaims
  <2> QED BY <1>1, <1>3, <1>4, <2>1, <2>2 DEF RunsAreClaims, TypeOK, Busy
<1>5. ASSUME NEW j \in Job, Claim(v, j)
      PROVE  /\ status'[run'[v].job] # "absent"
             /\ attempts'[run'[v].job] >= run'[v].attempt
             /\ run'[v].pc = "checking"
  BY <1>1, <1>5 DEF Claim, TypeOK
<1>6. ASSUME NEW s \in {"handling", "failing"}, run[v].pc # "idle", Goto(v, s)
      PROVE  /\ status'[run'[v].job] # "absent"
             /\ attempts'[run'[v].job] >= run'[v].attempt
             /\ run'[v].pc = s
  <2>1. run[v] # Idle /\ run[v].job \in Job /\ run[v] \in Busy
    BY <1>1, <1>6, BusyRun
  <2>2. run'[v].job = run[v].job /\ run'[v].attempt = run[v].attempt /\ run'[v].pc = s
    BY <1>1, <1>6, <2>1, GotoStep
  <2> QED BY <1>1, <1>3, <2>1, <2>2 DEF RunsAreClaims, TypeOK, Busy
<1>7. ASSUME NEW s \in {"handled", "stale"}, run[v].pc # "idle", Goto(v, s),
             MovedNext(run[v].job), s = "handled" => run[v].job \in ran'
      PROVE  /\ status'[run'[v].job] # "absent"
             /\ attempts'[run'[v].job] >= run'[v].attempt
             /\ MovedNext(run'[v].job)
             /\ run'[v].pc = "handled" => run'[v].job \in ran'
  <2>1. run[v] # Idle /\ run[v].job \in Job /\ run[v] \in Busy
    BY <1>1, <1>7, BusyRun
  <2>2. run'[v].job = run[v].job /\ run'[v].attempt = run[v].attempt /\ run'[v].pc = s
    BY <1>1, <1>7, <2>1, GotoStep
  <2> QED BY <1>1, <1>3, <1>7, <2>1, <2>2 DEF RunsAreClaims, TypeOK, Busy
<1>8. CASE Check(v)
  <2>1. CASE ~IsStale(run[v].job)
    BY <1>6, <1>8, <2>1 DEF Check
  <2>2. CASE IsStale(run[v].job)
    <3>1. run[v] # Idle /\ run[v].job \in Job
      BY <1>1, <1>8, BusyRun DEF Check
    <3>2. status[run[v].job] # "absent" /\ version[About[run[v].job]] >= expected[run[v].job]
      BY <1>1, <3>1 DEF RunsAreClaims, JobsKnowTheirEntity
    <3>3. Moved(run[v].job)
      BY <1>1, <2>2, <3>1, <3>2 DEF IsStale, Moved, TypeOK
    <3>4. MovedNext(run[v].job)
      BY <1>1, <3>1, <3>2, <3>3, MovedStays
    <3> QED BY <1>7, <1>8, <2>2, <3>4 DEF Check
  <2> QED BY <2>1, <2>2
<1>9. CASE Handle(v)
  <2>1. run[v] # Idle /\ run[v].job \in Job
    BY <1>1, <1>9, BusyRun DEF Handle
  <2>2. status[run[v].job] # "absent" /\ version[About[run[v].job]] >= expected[run[v].job]
    BY <1>1, <2>1 DEF RunsAreClaims, JobsKnowTheirEntity
  <2>3. MovedNext(run[v].job)
    BY <1>1, <1>9, <2>1, <2>2 DEF Handle, IsStale, MovedNext, TypeOK, row
  <2>4. run[v].job \in ran'
    BY <1>9 DEF Handle
  <2> QED BY <1>7, <1>9, <2>3, <2>4 DEF Handle
<1>10. CASE Raise(v)
  BY <1>6, <1>10 DEF Raise
<1>11. CASE Settle(v)
  BY <1>1, <1>2, <1>6, <1>11 DEF Settle, TypeOK
<1>12. run'[v] = run[v] \/ (\E j \in Job : Claim(v, j)) \/ Check(v) \/ Handle(v)
       \/ Raise(v) \/ Settle(v)
  <2>1. ASSUME NEW w \in Worker, Fail(w) \/ Crash(w) PROVE run'[v] = run[v]
    BY <1>1, <1>2, <2>1 DEF Fail, Crash, TypeOK
  <2>2. ASSUME NEW w \in Worker, w # v,
               \/ \E j \in Job : Claim(w, j)
               \/ Check(w) \/ Handle(w) \/ Raise(w) \/ Settle(w)
        PROVE  run'[v] = run[v]
    BY <1>1, <2>2 DEF Claim, Check, Handle, Raise, Settle, Goto, TypeOK
  <2> QED BY <2>1, <2>2 DEF Next, Enqueue, Change, Decide, FallDue, Lapse
<1> QED BY <1>4, <1>5, <1>8, <1>9, <1>10, <1>11, <1>12

\* The part about the verdicts: they repeat what a run has found or done, or
\* come with a decision that moves the entity.
LEMMA VerdictsStep ==
  ASSUME IInv, TypeOK', Next PROVE DoneHasRun' /\ VerdictMeansMoved'
<1> USE SchedulerAssumption
<1>1. TypeOK /\ JobsKnowTheirEntity /\ RunsAreClaims /\ DoneHasRun /\ VerdictMeansMoved
  BY DEF IInv
<1>2. SUFFICES ASSUME NEW j \in Job, status'[j] \in {"done", "skipped_stale"}
               PROVE  MovedNext(j) /\ (status'[j] = "done" => j \in ran')
  BY DEF DoneHasRun, VerdictMeansMoved, MovedNext
<1>3. j \in ran => j \in ran'
  BY DEF Next, Enqueue, Change, Decide, FallDue, Claim, Check, Handle, Raise, Settle, Fail,
         Crash, Lapse
<1>4. CASE status'[j] = status[j]
  <2>1. Moved(j) /\ status[j] # "absent"
    BY <1>1, <1>2, <1>4 DEF VerdictMeansMoved, Moved
  <2> QED BY <1>1, <1>3, <1>4, <2>1, MovedStays DEF DoneHasRun
<1>5. ASSUME NEW n \in Entity, Decide(n), status'[j] # status[j]
      PROVE  MovedNext(j) /\ status'[j] = "skipped_stale"
  <2>1. About[j] = n /\ status[j] = "pending" /\ status'[j] = "skipped_stale"
    BY <1>1, <1>5 DEF Decide, TypeOK
  <2>2. version[About[j]] >= expected[j]
    BY <1>1, <2>1 DEF JobsKnowTheirEntity
  <2> QED BY <1>1, <1>5, <2>1, <2>2 DEF Decide, MovedNext, TypeOK
<1>6. ASSUME NEW w \in Worker, Settle(w), status'[j] # status[j]
      PROVE  MovedNext(j) /\ (status'[j] = "done" => j \in ran')
  <2>1. run[w] # Idle /\ run[w].job \in Job
    BY <1>1, <1>6, BusyRun DEF Settle
  <2>2. j = run[w].job
        /\ status'[j] = (IF run[w].pc = "handled" THEN "done" ELSE "skipped_stale")
    BY <1>1, <1>6, <2>1 DEF Settle, Release, TypeOK
  <2>3. Moved(j) /\ status[j] # "absent" /\ (run[w].pc = "handled" => j \in ran)
    BY <1>1, <1>6, <2>1, <2>2 DEF RunsAreClaims, Settle
  <2> QED BY <1>1, <1>3, <2>2, <2>3, MovedStays
<1>7. \/ status'[j] = status[j]
      \/ \E n \in Entity : Decide(n)
      \/ \E w \in Worker : Settle(w)
  BY <1>1, <1>2 DEF Next, Enqueue, Change, FallDue, Claim, Check, Handle, Raise, Fail, Release,
                    Crash, Lapse, row, TypeOK
<1> QED BY <1>4, <1>5, <1>6, <1>7

\* The parts of the invariant hold initially and every step keeps them.
THEOREM InductiveInvariant == Spec => []IInv
<1>1. IInv /\ TypeOK' /\ [Next]_vars => IInv'
  <2> SUFFICES ASSUME IInv, TypeOK', [Next]_vars PROVE IInv'
    OBVIOUS
  <2>1. CASE UNCHANGED vars
    BY <2>1 DEF vars, row, IInv, JobsKnowTheirEntity, RunsAreClaims, DoneHasRun,
                VerdictMeansMoved, EffectOnce, Moved
  <2>2. CASE Next
    BY <2>2, JobsStep, RunsStep, VerdictsStep DEF IInv
  <2> QED BY <2>1, <2>2
<1> QED BY <1>1, InitIInv, TypeCorrect, PTL DEF Spec

-----------------------------------------------------------------------------
(* What follows from it *)

\* However often a job is run, it changes its entity at most once.
THEOREM EffectsHappenOnce == Spec => []EffectOnce
  BY InductiveInvariant, PTL DEF IInv

\* A job that is done or skipped has an entity that moved on.
THEOREM VerdictsAreExplained == Spec => []VerdictMeansMoved
  BY InductiveInvariant, PTL DEF IInv

\* A job changes its entity only in the version it was stored for.
THEOREM EffectsAreFresh == Spec => NoStaleEffect
<1>1. TypeOK /\ [Next]_vars =>
        [\A j \in Job : effects'[j] # effects[j] => ~IsStale(j)]_vars
  <2> SUFFICES ASSUME TypeOK, Next, NEW j \in Job, effects'[j] # effects[j]
               PROVE  ~IsStale(j)
    OBVIOUS
  <2>1. PICK w \in Worker : Handle(w)
    BY DEF Next, Enqueue, Change, Decide, FallDue, Claim, Check, Raise, Settle, Fail,
           Crash, Lapse
  <2>2. run[w].job \in Job
    BY <2>1, BusyRun DEF Handle
  <2> QED BY <2>1, <2>2 DEF Handle, TypeOK
<1> QED BY <1>1, TypeCorrect, PTL DEF Spec, NoStaleEffect

\* A row changes its status only when it is stored, claimed, retired while it
\* waits, or settled by the worker that holds it.
LEMMA StatusSteps ==
  ASSUME IInv, Next, NEW j \in Job, status'[j] # status[j]
  PROVE  status[j] \in {"absent", "pending", "processing"}
<1>1. TypeOK
  BY DEF IInv
<1>2. ASSUME NEW w \in Worker, Settle(w) \/ Fail(w) PROVE status[j] = "processing"
  <2>1. run[w].job \in Job
    BY <1>1, <1>2, BusyRun DEF Settle, Fail
  <2> QED BY <1>1, <1>2, <2>1 DEF Settle, Fail, Release, Holds, TypeOK
<1> QED
  BY <1>1, <1>2 DEF Next, Enqueue, Change, Decide, FallDue, Claim, Check, Handle, Raise,
                    Crash, Lapse, row, TypeOK

\* Neither a late worker nor a repeated request takes a verdict back.
THEOREM VerdictsAreFinal == Spec => VerdictIsFinal
<1>1. IInv /\ [Next]_vars =>
        [\A j \in Job : status[j] \in Final => status'[j] = status[j]]_vars
  BY StatusSteps DEF Final
<1> QED BY <1>1, InductiveInvariant, PTL DEF Spec, VerdictIsFinal

-----------------------------------------------------------------------------
(* Refinement *)

\* Releasing a held row is the abstract verdict on the job.
LEMMA ReleaseDecides ==
  ASSUME TypeOK, NEW j \in Job, status[j] = "processing", NEW outcome,
         Release(j, outcome)
  PROVE  /\ PhaseOf(status[j]) = "open"
         /\ [i \in Job |-> PhaseOf(status'[i])]
              = [[i \in Job |-> PhaseOf(status[i])] EXCEPT ![j] = PhaseOf(outcome)]
  BY DEF Release, TypeOK, PhaseOf, Open

\* Jobs that become skipped while they are open are dropped.
LEMMA SkippingDrops ==
  ASSUME TypeOK, TypeOK', UNCHANGED <<attempts, ran>>,
         \A j \in Job : \/ status'[j] = status[j]
                        \/ status[j] \in Open /\ status'[j] = "skipped_stale"
  PROVE  Queue!Drop
<1> DEFINE before == [j \in Job |-> PhaseOf(status[j])]
           after == [j \in Job |-> PhaseOf(status'[j])]
<1>1. after \in [Job -> Queue!Phase]
  BY DEF TypeOK, PhaseOf, Queue!Phase, Open, Final
<1>2. \A j \in Job : \/ after[j] = before[j]
                     \/ before[j] = "open" /\ after[j] = "dropped"
  BY DEF PhaseOf, Open
<1> QED BY <1>1, <1>2 DEF Queue!Drop

\* The scheduler implements the work queue: a stored job is run until its
\* consumer committed, dropped when it is stale, or given up after its attempts.
THEOREM SchedulerImplementsWorkQueue == Spec => ImplementsWorkQueue
<1>1. Init => Queue!Init
  BY DEF Init, Queue!Init, PhaseOf, Open
<1>2. IInv /\ TypeOK' /\ [Next]_vars => [Queue!Next]_(Queue!vars)
  <2> SUFFICES ASSUME IInv, TypeOK', [Next]_vars PROVE [Queue!Next]_(Queue!vars)
    OBVIOUS
  <2>0. TypeOK /\ RunsAreClaims
    BY DEF IInv
  <2>1. ASSUME NEW j \in Job, Enqueue(j) PROVE Queue!Store
    <3> DEFINE before == [i \in Job |-> PhaseOf(status[i])]
               after == [i \in Job |-> PhaseOf(status'[i])]
    <3>1. after \in [Job -> Queue!Phase]
      BY DEF TypeOK, PhaseOf, Queue!Phase, Open, Final
    <3>2. \A i \in Job : \/ after[i] = before[i]
                         \/ before[i] = "absent" /\ after[i] \in {"open", "ignored"}
      BY <2>0, <2>1 DEF Enqueue, TypeOK, PhaseOf, Open
    <3> QED BY <2>1, <3>1, <3>2 DEF Enqueue, Queue!Store, Queue!Admit
  <2>2. ASSUME NEW n \in Entity, Decide(n) PROVE Queue!Drop
    <3>1. \A j \in Job : \/ status'[j] = status[j]
                         \/ status[j] \in Open /\ status'[j] = "skipped_stale"
      BY <2>2 DEF Decide, Open
    <3> QED BY <2>0, <2>2, <3>1, SkippingDrops DEF Decide
  <2>3. ASSUME NEW w \in Worker, NEW j \in Job, Claim(w, j) PROVE Queue!Try(j)
    <3>1. [i \in Job |-> PhaseOf(status'[i])] = [i \in Job |-> PhaseOf(status[i])]
      BY <2>0, <2>3 DEF Claim, PhaseOf, TypeOK, Open
    <3>2. PhaseOf(status[j]) = "open"
      BY <2>3 DEF Claim, PhaseOf, Open
    <3> QED BY <2>3, <3>1, <3>2 DEF Claim, Queue!Try
  <2>4. ASSUME NEW w \in Worker, Handle(w) PROVE \E j \in Job : Queue!Run(j)
    <3>1. run[w].job \in Job /\ run[w] # Idle /\ run[w] \in Busy
      BY <2>0, <2>4, BusyRun DEF Handle
    <3>2. attempts[run[w].job] > 0
      BY <2>0, <3>1 DEF RunsAreClaims, Busy, TypeOK
    <3>3. UNCHANGED status
      BY <2>4 DEF Handle, row
    <3>4. Queue!Admit({"open"})
      BY <2>0, <3>3 DEF Queue!Admit, Queue!Phase, PhaseOf, TypeOK, Open, Final
    <3> QED BY <2>4, <3>1, <3>2, <3>4 DEF Handle, row, Queue!Run
  <2>5. ASSUME NEW w \in Worker, Settle(w)
        PROVE  \/ \E j \in Job : Queue!Complete(j)
               \/ Queue!Drop
               \/ UNCHANGED Queue!vars
    <3>1. run[w].job \in Job /\ run[w] # Idle /\ run[w] \in Busy
      BY <2>0, <2>5, BusyRun DEF Settle
    <3>2. UNCHANGED <<attempts, ran>>
      BY <2>5 DEF Settle
    <3> DEFINE j == run[w].job
    <3>3. CASE run[w].pc = "handled" /\ Holds(w, j) /\ Release(j, "done")
      <4>1. j \in ran
        BY <2>0, <3>1, <3>3 DEF RunsAreClaims
      <4>2. status[j] = "processing"
        BY <3>3 DEF Holds
      <4>3. PhaseOf("done") = "done"
        BY DEF PhaseOf, Open
      <4>4. Queue!Complete(j)
        BY <2>0, <3>1, <3>2, <3>3, <4>1, <4>2, <4>3, ReleaseDecides DEF Queue!Complete
      <4> QED BY <3>1, <4>4
    <3>4. CASE Holds(w, j) /\ Release(j, "skipped_stale")
      <4>1. \A i \in Job : \/ status'[i] = status[i]
                           \/ status[i] \in Open /\ status'[i] = "skipped_stale"
        BY <2>0, <3>1, <3>4 DEF Holds, Release, TypeOK, Open
      <4> QED BY <2>0, <3>2, <4>1, SkippingDrops
    <3>5. CASE UNCHANGED status
      BY <3>2, <3>5 DEF Queue!vars
    <3> QED BY <2>5, <3>3, <3>4, <3>5 DEF Settle
  <2>6. ASSUME NEW w \in Worker, Fail(w)
        PROVE  (\E j \in Job : Queue!GiveUp(j)) \/ UNCHANGED Queue!vars
    <3>1. run[w].job \in Job /\ run[w] # Idle /\ run[w] \in Busy
      BY <2>0, <2>6, BusyRun DEF Fail
    <3>2. UNCHANGED <<attempts, ran>>
      BY <2>6 DEF Fail
    <3> DEFINE j == run[w].job
    <3>3. CASE run[w].attempt >= MaxAttempts /\ Holds(w, j) /\ Release(j, "dead")
      <4>1. attempts[j] >= MaxAttempts
        BY <2>0, <3>1, <3>3, SchedulerAssumption DEF RunsAreClaims, Busy, TypeOK
      <4>2. status[j] = "processing"
        BY <3>3 DEF Holds
      <4>3. PhaseOf("dead") = "dead"
        BY DEF PhaseOf, Open
      <4>4. Queue!GiveUp(j)
        BY <2>0, <3>1, <3>2, <3>3, <4>1, <4>2, <4>3, ReleaseDecides DEF Queue!GiveUp
      <4> QED BY <3>1, <4>4
    <3>4. CASE Holds(w, j) /\ Release(j, "pending")
      <4>1. \A i \in Job : PhaseOf(status'[i]) = PhaseOf(status[i])
        BY <2>0, <3>1, <3>4 DEF Holds, Release, TypeOK, PhaseOf, Open
      <4> QED BY <3>2, <4>1 DEF Queue!vars
    <3>5. CASE UNCHANGED status
      BY <3>2, <3>5 DEF Queue!vars
    <3> QED BY <2>6, <3>3, <3>4, <3>5 DEF Fail
  <2>7. ASSUME UNCHANGED <<status, attempts, ran>> PROVE UNCHANGED Queue!vars
    BY <2>7 DEF Queue!vars
  <2>8. CASE \/ \E w \in Worker : Check(w) \/ Raise(w) \/ Crash(w)
             \/ \E j \in Job : FallDue(j) \/ Lapse(j)
             \/ \E n \in Entity : Change(n)
             \/ UNCHANGED vars
    BY <2>7, <2>8 DEF Check, Raise, Crash, FallDue, Lapse, Change, row, vars
  <2> QED BY <2>1, <2>2, <2>3, <2>4, <2>5, <2>6, <2>8 DEF Next, Queue!Next
<1> QED BY <1>1, <1>2, InductiveInvariant, TypeCorrect, PTL DEF Spec, Queue!Spec, ImplementsWorkQueue
=============================================================================
