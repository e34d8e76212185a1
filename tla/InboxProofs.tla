---------------------------- MODULE InboxProofs ----------------------------
(***************************************************************************)
(* Theorems about the durable inbox for any number of events and workers,  *)
(* any lease, retry delay and clock lag that satisfy InboxAssumption.      *)
(***************************************************************************)
EXTENDS Inbox, TLAPS

\* A worker that is not idle has a job record of the busy kind, and the other
\* way round the idle record is none of them.
LEMMA BusyJob ==
  ASSUME TypeOK, NEW w \in Worker
  PROVE  /\ job[w] # Idle => job[w] \in Busy
         /\ job[w].pc # "idle" => job[w] \in Busy /\ job[w] # Idle
         /\ job[w] \in Busy => job[w] # Idle /\ job[w].pc # "idle"
  BY DEF TypeOK, Busy, Idle, Step

\* Moving a busy worker to another busy step changes nothing else about it, and
\* nothing about the others.
LEMMA JobStep ==
  ASSUME TypeOK, NEW w \in Worker, job[w] \in Busy, NEW s \in Step \ {"idle"},
         job' = [job EXCEPT ![w].pc = s]
  PROVE  /\ job' \in [Worker -> Busy \cup {Idle}]
         /\ job'[w] \in Busy
         /\ job'[w].pc = s
         /\ job'[w].event = job[w].event
         /\ job'[w].attempt = job[w].attempt
         /\ \A v \in Worker : v # w => job'[v] = job[v]
<1>1. [job[w] EXCEPT !.pc = s] \in Busy
  BY DEF Busy
<1>2. job' = [job EXCEPT ![w] = [job[w] EXCEPT !.pc = s]]
  OBVIOUS
<1>3. [job[w] EXCEPT !.pc = s].event = job[w].event
      /\ [job[w] EXCEPT !.pc = s].attempt = job[w].attempt
      /\ [job[w] EXCEPT !.pc = s].pc = s
  BY DEF Busy
<1> QED BY <1>1, <1>2, <1>3 DEF TypeOK

-----------------------------------------------------------------------------

\* Every variable keeps its type; in particular a lease is never longer than
\* Lease and a retry never further away than RetryAfter.
THEOREM TypeCorrect == Spec => []TypeOK
<1>1. Init => TypeOK
  BY InboxAssumption DEF Init, TypeOK, Status, Idle
<1>2. TypeOK /\ [Next]_vars => TypeOK'
  <2> SUFFICES ASSUME TypeOK, [Next]_vars PROVE TypeOK'
    OBVIOUS
  <2> USE InboxAssumption
  <2>1. ASSUME NEW e \in Event, Receive(e) PROVE TypeOK'
    BY <2>1 DEF TypeOK, Receive, Receipts, Insert, Status
  <2>2. ASSUME NEW w \in Worker, Claim(w) PROVE TypeOK'
    <3>1. PICK d \in 0..Lag, e \in Event :
            /\ status' = [status EXCEPT ![e] = "processing"]
            /\ attempts' = [attempts EXCEPT ![e] = @ + 1]
            /\ owner' = [owner EXCEPT ![e] = w]
            /\ left' = [left EXCEPT ![e] = Lease - d]
            /\ job' = [job EXCEPT ![w] = [pc |-> "handling", event |-> e,
                                          attempt |-> attempts[e] + 1]]
      BY <2>2 DEF Claim
    <3>2. [pc |-> "handling", event |-> e, attempt |-> attempts[e] + 1] \in Busy
      BY DEF TypeOK, Busy, Step
    <3>3. job' \in [Worker -> Busy \cup {Idle}]
      BY <3>1, <3>2 DEF TypeOK
    <3>4. Lease - d \in (-Lag)..Lease
      OBVIOUS
    <3> QED BY <2>2, <3>1, <3>3, <3>4 DEF TypeOK, Claim, Status
  <2>3. ASSUME NEW w \in Worker, Heartbeat(w) PROVE TypeOK'
    <3>1. PICK d \in 0..Lag : left' = [left EXCEPT ![job[w].event] = Lease - d]
      BY <2>3 DEF Heartbeat
    <3>2. Lease - d \in (-Lag)..Lease
      OBVIOUS
    <3> QED BY <2>3, <3>1, <3>2 DEF TypeOK, Heartbeat
  <2>4. ASSUME NEW w \in Worker, Apply(w) PROVE TypeOK'
    <3>1. job[w] \in Busy
      BY <2>4, BusyJob DEF Apply
    <3>2. job' \in [Worker -> Busy \cup {Idle}]
      BY <2>4, <3>1, JobStep DEF Apply, Step
    <3>3. job[w].event \in Event
      BY <3>1 DEF Busy
    <3> QED BY <2>4, <3>2, <3>3 DEF TypeOK, Apply, Receipts, Insert, Status
  <2>5. ASSUME NEW w \in Worker, Raise(w) PROVE TypeOK'
    <3>1. job[w] \in Busy
      BY <2>5, BusyJob DEF Raise
    <3>2. job' \in [Worker -> Busy \cup {Idle}]
      BY <2>5, <3>1, JobStep DEF Raise, Step
    <3> QED BY <2>5, <3>2 DEF TypeOK, Raise, rows
  <2>6. ASSUME NEW w \in Worker, Finish(w) PROVE TypeOK'
    <3>1. job[w] \in Busy
      BY <2>6, BusyJob DEF Finish
    <3>2. job' \in [Worker -> Busy \cup {Idle}]
      <4>1. CASE job' = [job EXCEPT ![w] = Idle]
        BY <4>1 DEF TypeOK
      <4>2. CASE job' = [job EXCEPT ![w].pc = "failing"]
        BY <4>2, <3>1, JobStep DEF Step
      <4> QED BY <2>6, <4>1, <4>2 DEF Finish
    <3>3. status' \in [Event -> Status] /\ owner' \in [Event -> Worker \cup {Nobody}]
          /\ left' \in [Event -> (-Lag)..Lease]
      BY <2>6 DEF TypeOK, Finish, Release, Status
    <3> QED BY <2>6, <3>2, <3>3 DEF TypeOK, Finish
  <2>7. ASSUME NEW w \in Worker, Fail(w) PROVE TypeOK'
    <3>1. PICK d \in 0..Lag :
            \/ /\ Release(job[w].event, IF attempts[job[w].event] >= MaxAttempts
                                        THEN "dead" ELSE "pending")
               /\ wait' = [wait EXCEPT ![job[w].event] = RetryAfter - d]
            \/ UNCHANGED <<status, owner, left, wait>>
      BY <2>7 DEF Fail
    <3>2. RetryAfter - d \in (-Lag)..RetryAfter
      OBVIOUS
    <3>3. job' \in [Worker -> Busy \cup {Idle}]
      BY <2>7 DEF TypeOK, Fail
    <3> QED BY <2>7, <3>1, <3>2, <3>3 DEF TypeOK, Fail, Release, Status
  <2>8. ASSUME NEW w \in Worker, Crash(w) PROVE TypeOK'
    BY <2>8 DEF TypeOK, Crash, rows
  <2>9. ASSUME Redact PROVE TypeOK'
    BY <2>9 DEF TypeOK, Redact
  <2>10. ASSUME Tick PROVE TypeOK'
    <3>1. \A t \in (-Lag)..Lease : Elapse(t) \in (-Lag)..Lease
      BY DEF Elapse
    <3>2. \A t \in (-Lag)..RetryAfter : Elapse(t) \in (-Lag)..RetryAfter
      BY DEF Elapse
    <3> QED BY <2>10, <3>1, <3>2 DEF TypeOK, Tick
  <2>11. CASE UNCHANGED vars
    BY <2>11 DEF TypeOK, vars
  <2> QED
    BY <2>1, <2>2, <2>3, <2>4, <2>5, <2>6, <2>7, <2>8, <2>9, <2>10, <2>11
       DEF Next
<1> QED BY <1>1, <1>2, PTL DEF Spec


-----------------------------------------------------------------------------
(* The inductive invariant *)

\* The initial state, with no row and no job, satisfies the invariant.
LEMMA InitIInv == Init => IInv
<1> SUFFICES ASSUME Init PROVE IInv
  OBVIOUS
<1>1. TypeOK
  BY InboxAssumption DEF Init, TypeOK, Status, Idle
<1>2. \A w \in Worker : job[w] = Idle /\ job[w].pc # "handled"
  BY DEF Init, Idle
<1>3. \A f \in Domain : f \in Event
  BY InboxAssumption DEF Domain
<1> QED
  BY <1>1, <1>2, <1>3, InboxAssumption
     DEF Init, IInv, OwnedWhileProcessing, JobsAreClaims, AttemptLedger,
         AttemptsBounded, HeldUnlessDisrupted, RedactedIsFinal,
         EmittedWithEffects, DoneIsApplied

\* Inserting rows, by ingress or by a handler, and erasing payloads disturb no
\* claim: they touch only events that no worker has claimed.
LEMMA ReceiveIInv ==
  ASSUME IInv, TypeOK', NEW e \in Event, Receive(e)
  PROVE  IInv'
<1> USE InboxAssumption DEF IInv
<1>1. \A f \in Event : \/ status'[f] = status[f]
                       \/ /\ f = e /\ status[f] = "absent"
                          /\ status'[f] \in {"pending", "ignored"}
  BY DEF Receive, Insert, TypeOK
<1>2. /\ attempts' = attempts /\ owner' = owner /\ left' = left
      /\ redacted' = redacted /\ job' = job /\ applied' = applied
      /\ disruptions' = disruptions
  BY DEF Receive
<1>3. \A f \in Event : status[f] = "absent" => attempts[f] = 0
  BY DEF AttemptLedger, TypeOK
<1>4. \A w \in Worker, f \in Event : Live(w, f)' <=> Live(w, f)
  BY <1>1, <1>2 DEF Live
<1>5. OwnedWhileProcessing' /\ JobsAreClaims' /\ AttemptsBounded'
  BY <1>1, <1>2 DEF OwnedWhileProcessing, JobsAreClaims, AttemptsBounded
<1>6. AttemptLedger'
  BY <1>1, <1>2, <1>3, <1>4 DEF AttemptLedger
<1>7. HeldUnlessDisrupted'
  <2>1. \A w \in Worker : job[w] # Idle => job[w].event \in Event
    BY BusyJob DEF Busy
  <2> QED BY <1>2, <1>4, <2>1 DEF HeldUnlessDisrupted
<1>8. RedactedIsFinal' /\ DoneIsApplied'
  BY <1>1, <1>2 DEF RedactedIsFinal, DoneIsApplied, TypeOK
<1>9. EmittedWithEffects'
  <2>1. \A f \in Domain : f \in Event /\ f # e
    BY DEF Receive, Domain
  <2> QED BY <1>1, <1>2, <2>1 DEF EmittedWithEffects
<1> QED BY <1>5, <1>6, <1>7, <1>8, <1>9

LEMMA RedactIInv ==
  ASSUME IInv, TypeOK', Redact
  PROVE  IInv'
<1> USE DEF IInv
<1>1. /\ status' = status /\ attempts' = attempts /\ owner' = owner
      /\ left' = left /\ job' = job /\ applied' = applied
      /\ disruptions' = disruptions
  BY DEF Redact
<1>2. RedactedIsFinal'
  BY <1>1 DEF Redact, RedactedIsFinal
<1> QED
  BY <1>1, <1>2
     DEF OwnedWhileProcessing, JobsAreClaims, AttemptLedger, AttemptsBounded,
         HeldUnlessDisrupted, EmittedWithEffects, DoneIsApplied, Live

\* A claim takes an event that is pending or whose lease has run out; in either
\* case no other worker can still settle it.
LEMMA ClaimIInv ==
  ASSUME IInv, TypeOK', NEW w \in Worker, Claim(w)
  PROVE  IInv'
<1> USE InboxAssumption DEF IInv
<1>1. PICK d \in 0..Lag, e \in Event :
        /\ Eligible(e, d)
        /\ e \notin redacted
        /\ status' = [status EXCEPT ![e] = "processing"]
        /\ attempts' = [attempts EXCEPT ![e] = @ + 1]
        /\ owner' = [owner EXCEPT ![e] = w]
        /\ left' = [left EXCEPT ![e] = Lease - d]
        /\ job' = [job EXCEPT ![w] = [pc |-> "handling", event |-> e,
                                      attempt |-> attempts[e] + 1]]
  BY DEF Claim
<1>2. job[w] = Idle /\ UNCHANGED <<redacted, applied, disruptions>>
  BY DEF Claim
<1>3. /\ status'[e] = "processing" /\ attempts'[e] = attempts[e] + 1
      /\ owner'[e] = w /\ left'[e] > 0
      /\ \A f \in Event : f # e => /\ status'[f] = status[f]
                                   /\ attempts'[f] = attempts[f]
                                   /\ owner'[f] = owner[f]
                                   /\ left'[f] = left[f]
  BY <1>1 DEF TypeOK
<1>4. /\ job'[w].pc = "handling" /\ job'[w].event = e
      /\ job'[w].attempt = attempts[e] + 1
      /\ \A v \in Worker : v # w => job'[v] = job[v]
  BY <1>1 DEF TypeOK
<1>5. job'[w] # Idle
  BY <1>4 DEF Idle
<1>6. \A v \in Worker : job[v] # Idle => job[v].event \in Event
  BY BusyJob DEF Busy
<1>7. Eligible(e, d) /\ attempts[e] \in Nat /\ left[e] \in Int /\ wait[e] \in Int
  BY <1>1 DEF TypeOK
<1>8. \A v \in Worker : ~Live(v, e)
  BY <1>7 DEF Live, Eligible
<1>9. Live(w, e)'
  BY <1>3, <1>4, <1>5 DEF Live
<1>10. \A v \in Worker, f \in Event : Live(v, f) => Live(v, f)'
  BY <1>2, <1>3, <1>4, <1>8 DEF Live
<1>11. attempts[e] < MaxAttempts + disruptions
  BY <1>7, <1>8 DEF Eligible, AttemptLedger, TypeOK
<1>12. OwnedWhileProcessing'
  BY <1>3 DEF OwnedWhileProcessing
<1>13. JobsAreClaims'
  BY <1>3, <1>4, <1>5, <1>6, <1>7 DEF JobsAreClaims, TypeOK
<1>14. AttemptLedger'
  BY <1>2, <1>3, <1>9, <1>10 DEF AttemptLedger
<1>15. AttemptsBounded'
  BY <1>2, <1>3, <1>7, <1>11 DEF AttemptsBounded, TypeOK
<1>16. HeldUnlessDisrupted'
  BY <1>2, <1>4, <1>6, <1>9, <1>10 DEF HeldUnlessDisrupted
<1>17. RedactedIsFinal'
  BY <1>1, <1>2, <1>3 DEF RedactedIsFinal, TypeOK
<1>18. EmittedWithEffects'
  <2>1. status[e] # "absent"
    BY <1>7 DEF Eligible
  <2>2. \A f \in Domain : f \in Event
    BY DEF Domain
  <2> QED BY <1>2, <1>3, <2>1, <2>2 DEF EmittedWithEffects
<1>19. DoneIsApplied'
  BY <1>2, <1>3, <1>4 DEF DoneIsApplied
<1> QED
  BY <1>12, <1>13, <1>14, <1>15, <1>16, <1>17, <1>18, <1>19

LEMMA HeartbeatIInv ==
  ASSUME IInv, TypeOK', NEW w \in Worker, Heartbeat(w)
  PROVE  IInv'
<1> USE InboxAssumption DEF IInv
<1>1. PICK d \in 0..Lag : left' = [left EXCEPT ![job[w].event] = Lease - d]
  BY DEF Heartbeat
<1>2. UNCHANGED <<status, attempts, owner, redacted, job, applied, disruptions>>
  BY DEF Heartbeat
<1>3. \A f \in Event : left'[f] = left[f] \/ left'[f] > 0
  BY <1>1 DEF TypeOK
<1>4. \A v \in Worker, f \in Event : Live(v, f) => Live(v, f)'
  BY <1>2, <1>3 DEF Live
<1>5. \A v \in Worker : job[v] # Idle => job[v].event \in Event
  BY BusyJob DEF Busy
<1>6. AttemptLedger'
  BY <1>2, <1>4 DEF AttemptLedger
<1>7. HeldUnlessDisrupted'
  BY <1>2, <1>4, <1>5 DEF HeldUnlessDisrupted
<1> QED
  BY <1>2, <1>6, <1>7
     DEF OwnedWhileProcessing, JobsAreClaims, AttemptsBounded,
         RedactedIsFinal, EmittedWithEffects, DoneIsApplied

\* A step of a busy worker from one busy phase to another keeps every lease and
\* every claim; this is all that the invariant asks of jobs, but for "handled".
LEMMA AdvanceKeepsClaims ==
  ASSUME IInv, NEW w \in Worker, job[w] \in Busy, NEW s \in Step \ {"idle"},
         job' = [job EXCEPT ![w].pc = s],
         UNCHANGED <<attempts, owner, left, disruptions>>,
         \A f \in Event : status[f] = "processing" <=> status'[f] = "processing",
         \A f \in Event : status'[f] # status[f] => status[f] = "absent"
  PROVE  /\ JobsAreClaims'
         /\ HeldUnlessDisrupted'
         /\ \A v \in Worker, f \in Event : Live(v, f)' <=> Live(v, f)
<1> USE DEF IInv
<1>1. /\ job'[w] \in Busy /\ job'[w].event = job[w].event
      /\ job'[w].attempt = job[w].attempt
      /\ \A v \in Worker : v # w => job'[v] = job[v]
  BY JobStep
<1>2. job[w] # Idle /\ job'[w] # Idle
  BY <1>1 DEF Busy, Idle, Step
<1>3. \A v \in Worker : job[v] # Idle => job[v].event \in Event
  BY BusyJob DEF Busy
<1>4. \A v \in Worker : /\ job'[v] # Idle <=> job[v] # Idle
                        /\ job'[v].event = job[v].event
                        /\ job'[v].attempt = job[v].attempt
  BY <1>1, <1>2
<1>5. \A v \in Worker, f \in Event : Live(v, f)' <=> Live(v, f)
  BY <1>4 DEF Live
<1>6. JobsAreClaims'
  BY <1>3, <1>4 DEF JobsAreClaims
<1>7. HeldUnlessDisrupted'
  BY <1>3, <1>4, <1>5 DEF HeldUnlessDisrupted
<1> QED BY <1>5, <1>6, <1>7

LEMMA ApplyIInv ==
  ASSUME IInv, TypeOK', NEW w \in Worker, Apply(w)
  PROVE  IInv'
<1> USE InboxAssumption DEF IInv
<1>1. job[w] \in Busy /\ job[w] # Idle /\ job[w].event \in Event
  BY BusyJob DEF Apply, Busy
<1> DEFINE e == job[w].event
<1>2. /\ UNCHANGED <<attempts, owner, left, redacted, disruptions>>
      /\ applied' = applied \cup {e}
      /\ job' = [job EXCEPT ![w].pc = "handled"]
  BY DEF Apply
<1>3. \A f \in Event : status'[f] = IF f \in Emits[e] /\ status[f] = "absent"
                                    THEN "pending" ELSE status[f]
  BY DEF Apply, Insert
<1>4. /\ JobsAreClaims' /\ HeldUnlessDisrupted'
      /\ \A v \in Worker, f \in Event : Live(v, f)' <=> Live(v, f)
  BY <1>1, <1>2, <1>3, AdvanceKeepsClaims DEF Step
<1>5. \A f \in Event : status[f] = "absent" => attempts[f] = 0
  BY DEF AttemptLedger, TypeOK
<1>6. OwnedWhileProcessing' /\ AttemptsBounded'
  BY <1>2, <1>3 DEF OwnedWhileProcessing, AttemptsBounded
<1>7. AttemptLedger'
  BY <1>2, <1>3, <1>4, <1>5 DEF AttemptLedger
<1>8. RedactedIsFinal'
  BY <1>2, <1>3 DEF RedactedIsFinal, TypeOK
<1>9. EmittedWithEffects'
  <2>1. \A f \in Domain : f \in Event
    BY DEF Domain
  <2> QED BY <1>2, <1>3, <2>1 DEF EmittedWithEffects
<1>10. DoneIsApplied'
  <2>1. \A v \in Worker : v # w => job'[v] = job[v]
    BY <1>1, <1>2, JobStep DEF Step
  <2>2. job'[w].event = e
    BY <1>1, <1>2, JobStep DEF Step
  <2> QED BY <1>2, <1>3, <2>1, <2>2 DEF DoneIsApplied
<1> QED BY <1>4, <1>6, <1>7, <1>8, <1>9, <1>10

LEMMA RaiseIInv ==
  ASSUME IInv, TypeOK', NEW w \in Worker, Raise(w)
  PROVE  IInv'
<1> USE DEF IInv
<1>1. job[w] \in Busy
  BY BusyJob DEF Raise
<1>2. /\ UNCHANGED <<rows, applied, disruptions>>
      /\ job' = [job EXCEPT ![w].pc = "failing"]
  BY DEF Raise
<1>3. /\ JobsAreClaims' /\ HeldUnlessDisrupted'
      /\ \A v \in Worker, f \in Event : Live(v, f)' <=> Live(v, f)
  BY <1>1, <1>2, AdvanceKeepsClaims DEF Step, rows
<1>4. AttemptLedger'
  BY <1>2, <1>3 DEF AttemptLedger, rows
<1>5. DoneIsApplied'
  <2>1. \A v \in Worker : v # w => job'[v] = job[v]
    BY <1>1, <1>2, JobStep DEF Step
  <2>2. job'[w].pc = "failing"
    BY <1>1, <1>2, JobStep DEF Step
  <2> QED BY <1>2, <2>1, <2>2 DEF DoneIsApplied, rows
<1> QED
  BY <1>2, <1>3, <1>4, <1>5
     DEF rows, OwnedWhileProcessing, AttemptsBounded, RedactedIsFinal,
         EmittedWithEffects

\* Settling releases the row; nobody else was still live on it.
LEMMA SettleIInv ==
  ASSUME IInv, TypeOK', NEW w \in Worker, NEW outcome \in {"done", "dead", "pending"},
         job[w] \in Busy, NEW d \in 0..Lag, Holds(w, job[w].event, d),
         Release(job[w].event, outcome),
         job' = [job EXCEPT ![w] = Idle],
         UNCHANGED <<attempts, redacted, applied, disruptions>>,
         outcome = "done" => job[w].event \in applied,
         outcome = "pending" => attempts[job[w].event] < MaxAttempts
  PROVE  IInv'
<1> USE InboxAssumption DEF IInv
<1> DEFINE e == job[w].event
<1>1. e \in Event /\ job[w] # Idle
  BY BusyJob DEF Busy
<1>2. /\ status[e] = "processing" /\ owner[e] = w
      /\ status'[e] = outcome /\ owner'[e] = Nobody
      /\ \A f \in Event : f # e => /\ status'[f] = status[f]
                                   /\ owner'[f] = owner[f]
                                   /\ left'[f] = left[f]
  BY <1>1 DEF Holds, Release, TypeOK
<1>3. job'[w] = Idle /\ \A v \in Worker : v # w => job'[v] = job[v]
  BY DEF TypeOK
<1>4. \A v \in Worker : job[v] # Idle => job[v].event \in Event
  BY BusyJob DEF Busy
<1>5. \A v \in Worker, f \in Event :
        Live(v, f) /\ f # e => Live(v, f)'
  BY <1>2, <1>3 DEF Live
<1>6. OwnedWhileProcessing'
  BY <1>2 DEF OwnedWhileProcessing
<1>7. JobsAreClaims'
  BY <1>2, <1>3, <1>4 DEF JobsAreClaims
<1>8. AttemptLedger'
  BY <1>1, <1>2, <1>5 DEF AttemptLedger
<1>9. HeldUnlessDisrupted'
  <2> SUFFICES ASSUME disruptions = 0, NEW v \in Worker, job'[v] # Idle
               PROVE  Live(v, job[v].event)'
    BY DEF HeldUnlessDisrupted
  <2>1. v # w /\ job'[v] = job[v]
    BY <1>3
  <2>2. Live(v, job[v].event)
    BY <2>1 DEF HeldUnlessDisrupted
  <2>3. job[v].event # e
    BY <1>2, <2>1, <2>2 DEF Live
  <2> QED BY <1>4, <1>5, <2>1, <2>2, <2>3
<1>10. RedactedIsFinal'
  BY <1>1, <1>2 DEF RedactedIsFinal, TypeOK
<1>11. EmittedWithEffects'
  <2>1. \A f \in Domain : f \in Event
    BY DEF Domain
  <2> QED BY <1>1, <1>2, <2>1 DEF EmittedWithEffects
<1>12. DoneIsApplied'
  BY <1>1, <1>2, <1>3 DEF DoneIsApplied, Idle
<1>13. AttemptsBounded'
  BY DEF AttemptsBounded
<1> QED
  BY <1>6, <1>7, <1>8, <1>9, <1>10, <1>11, <1>12, <1>13

LEMMA FinishIInv ==
  ASSUME IInv, TypeOK', NEW w \in Worker, Finish(w)
  PROVE  IInv'
<1> USE InboxAssumption DEF IInv
<1>1. job[w] \in Busy /\ job[w].pc = "handled"
  BY BusyJob DEF Finish
<1>2. UNCHANGED <<attempts, redacted, applied, disruptions>>
  BY DEF Finish
<1>3. job[w].event \in applied
  BY <1>1 DEF DoneIsApplied
<1>4. CASE \E d \in 0..Lag : /\ Holds(w, job[w].event, d)
                             /\ Release(job[w].event, "done")
                             /\ job' = [job EXCEPT ![w] = Idle]
  BY <1>1, <1>2, <1>3, <1>4, SettleIInv
<1>5. CASE /\ job' = [job EXCEPT ![w].pc = "failing"]
           /\ UNCHANGED <<status, owner, left>>
  <2>1. /\ JobsAreClaims' /\ HeldUnlessDisrupted'
        /\ \A v \in Worker, f \in Event : Live(v, f)' <=> Live(v, f)
    BY <1>1, <1>2, <1>5, AdvanceKeepsClaims DEF Step
  <2>2. AttemptLedger'
    BY <1>2, <1>5, <2>1 DEF AttemptLedger
  <2>3. DoneIsApplied'
    <3>1. \A v \in Worker : v # w => job'[v] = job[v]
      BY <1>1, <1>5, JobStep DEF Step
    <3>2. job'[w].pc = "failing"
      BY <1>1, <1>5, JobStep DEF Step
    <3> QED BY <1>2, <1>5, <3>1, <3>2 DEF DoneIsApplied
  <2> QED
    BY <1>2, <1>5, <2>1, <2>2, <2>3
       DEF OwnedWhileProcessing, AttemptsBounded, RedactedIsFinal,
           EmittedWithEffects
<1> QED BY <1>4, <1>5 DEF Finish

\* fail: either the claim is still held, and the attempt decides, or the row is
\* left alone because another worker holds it or its lease has run out.
LEMMA FailIInv ==
  ASSUME IInv, TypeOK', NEW w \in Worker, Fail(w)
  PROVE  IInv'
<1> USE InboxAssumption DEF IInv
<1>1. job[w] \in Busy /\ job[w] # Idle /\ job[w].event \in Event
  BY BusyJob DEF Fail, Busy
<1> DEFINE e == job[w].event
           verdict == IF attempts[e] >= MaxAttempts THEN "dead" ELSE "pending"
<1>2. UNCHANGED <<attempts, redacted, applied, disruptions>>
  BY DEF Fail
<1>3. job' = [job EXCEPT ![w] = Idle]
  BY DEF Fail
<1>4. CASE \E d \in 0..Lag : Holds(w, e, d) /\ Release(e, verdict)
  <2>1. verdict \in {"done", "dead", "pending"} /\ verdict # "done"
    OBVIOUS
  <2>2. verdict = "pending" => attempts[e] < MaxAttempts
    BY <1>1 DEF TypeOK
  <2> HIDE DEF verdict
  <2> QED BY <1>1, <1>2, <1>3, <1>4, <2>1, <2>2, SettleIInv
<1>5. CASE \E d \in 0..Lag : /\ ~Holds(w, e, d)
                             /\ UNCHANGED <<status, owner, left>>
  <2>1. ~Live(w, e)
    BY <1>1, <1>5 DEF Live, Holds, TypeOK
  <2>2. \A f \in Event : ~Live(w, f)
    BY <2>1 DEF Live
  <2>3. \A v \in Worker : v # w => job'[v] = job[v]
    BY <1>3 DEF TypeOK
  <2>4. job'[w] = Idle
    BY <1>3 DEF TypeOK
  <2>5. \A v \in Worker, f \in Event : Live(v, f) => Live(v, f)'
    BY <1>5, <2>2, <2>3 DEF Live
  <2>6. AttemptLedger'
    BY <1>2, <1>5, <2>5 DEF AttemptLedger
  <2>7. HeldUnlessDisrupted'
    BY <1>1, <1>2, <2>1 DEF HeldUnlessDisrupted
  <2>8. JobsAreClaims' /\ DoneIsApplied'
    BY <1>2, <1>5, <2>3, <2>4 DEF JobsAreClaims, DoneIsApplied, Idle
  <2> QED
    BY <1>2, <1>5, <2>6, <2>7, <2>8
       DEF OwnedWhileProcessing, AttemptsBounded, RedactedIsFinal,
           EmittedWithEffects
<1> QED BY <1>4, <1>5 DEF Fail

LEMMA CrashIInv ==
  ASSUME IInv, TypeOK', NEW w \in Worker, Crash(w)
  PROVE  IInv'
<1> USE InboxAssumption DEF IInv
<1>1. /\ UNCHANGED <<rows, applied>> /\ disruptions' = disruptions + 1
      /\ job' = [job EXCEPT ![w] = Idle]
  BY DEF Crash
<1>2. job'[w] = Idle /\ \A v \in Worker : v # w => job'[v] = job[v]
  BY <1>1 DEF TypeOK
<1>3. disruptions \in Nat
  BY DEF TypeOK
<1>4. \A f \in Event : attempts[f] <= MaxAttempts + disruptions /\ attempts[f] \in Nat
  BY DEF AttemptsBounded, TypeOK
<1>5. AttemptsBounded' /\ AttemptLedger'
  BY <1>1, <1>3, <1>4 DEF AttemptsBounded, AttemptLedger, rows
<1>6. HeldUnlessDisrupted'
  BY <1>1, <1>3 DEF HeldUnlessDisrupted
<1>7. JobsAreClaims' /\ DoneIsApplied'
  BY <1>1, <1>2 DEF JobsAreClaims, DoneIsApplied, rows, Idle
<1> QED
  BY <1>1, <1>5, <1>6, <1>7
     DEF OwnedWhileProcessing, RedactedIsFinal, EmittedWithEffects, rows

\* A tick either keeps every live lease positive or is paid for as a disruption.
LEMMA TickIInv ==
  ASSUME IInv, TypeOK', Tick
  PROVE  IInv'
<1> USE InboxAssumption DEF IInv
<1>1. UNCHANGED <<status, attempts, owner, received, redacted, job, applied>>
  BY DEF Tick
<1>2. \A f \in Event : status[f] = "processing" => left'[f] = Elapse(left[f])
  BY DEF Tick
<1>3. disruptions \in Nat
      /\ \A f \in Event : /\ attempts[f] <= MaxAttempts + disruptions
                          /\ attempts[f] \in Nat
                          /\ left[f] \in Int
  BY DEF AttemptsBounded, TypeOK
<1>4. CASE disruptions' = disruptions + 1
  <2>1. AttemptsBounded' /\ AttemptLedger'
    BY <1>1, <1>3, <1>4 DEF AttemptsBounded, AttemptLedger
  <2>2. HeldUnlessDisrupted'
    BY <1>3, <1>4 DEF HeldUnlessDisrupted
  <2> QED
    BY <1>1, <2>1, <2>2
       DEF OwnedWhileProcessing, JobsAreClaims, RedactedIsFinal,
           EmittedWithEffects, DoneIsApplied
<1>5. CASE Stalled = {} /\ UNCHANGED disruptions
  <2>1. \A v \in Worker, f \in Event : Live(v, f) => Live(v, f)'
    <3> SUFFICES ASSUME NEW v \in Worker, NEW f \in Event, Live(v, f)
                 PROVE  Live(v, f)'
      OBVIOUS
    <3>1. left[f] # 1 /\ left[f] > 0
      BY <1>5 DEF Live, Stalled
    <3>2. left'[f] > 0
      BY <1>2, <1>3, <3>1 DEF Live, Elapse
    <3> QED BY <1>1, <3>2 DEF Live
  <2>2. AttemptsBounded' /\ AttemptLedger'
    BY <1>1, <1>5, <2>1 DEF AttemptsBounded, AttemptLedger
  <2>3. \A v \in Worker : job[v] # Idle => job[v].event \in Event
    BY BusyJob DEF Busy
  <2>4. HeldUnlessDisrupted'
    BY <1>1, <1>5, <2>1, <2>3 DEF HeldUnlessDisrupted
  <2> QED
    BY <1>1, <2>2, <2>4
       DEF OwnedWhileProcessing, JobsAreClaims, RedactedIsFinal,
           EmittedWithEffects, DoneIsApplied
<1> QED BY <1>4, <1>5 DEF Tick

\* The strengthened invariant holds in every reachable state.
THEOREM InductiveInvariant == Spec => []IInv
<1>1. IInv /\ TypeOK' /\ [Next]_vars => IInv'
  <2> SUFFICES ASSUME IInv, TypeOK', [Next]_vars PROVE IInv'
    OBVIOUS
  <2>1. CASE UNCHANGED vars
    <3> USE <2>1 DEF vars, IInv
    <3>1. AttemptLedger'
      BY DEF AttemptLedger, Live
    <3>2. HeldUnlessDisrupted'
      BY DEF HeldUnlessDisrupted, Live
    <3> QED
      BY <3>1, <3>2
         DEF OwnedWhileProcessing, JobsAreClaims, AttemptsBounded,
             RedactedIsFinal, EmittedWithEffects, DoneIsApplied
  <2> QED
    BY <2>1, ReceiveIInv, RedactIInv, ClaimIInv, HeartbeatIInv, ApplyIInv,
       RaiseIInv, FinishIInv, FailIInv, CrashIInv, TickIInv DEF Next
<1> QED BY <1>1, InitIInv, TypeCorrect, PTL DEF Spec

-----------------------------------------------------------------------------
(* What follows from it *)

\* A crash or a late heartbeat can cost one extra attempt each, nothing else
\* can: an event is never tried more than MaxAttempts + disruptions times.
THEOREM AttemptsAreBounded == Spec => []AttemptsBounded
  BY InductiveInvariant, PTL DEF IInv

\* As long as no process crashed and every heartbeat came in time, no two
\* workers are on the same event.
THEOREM ExclusiveHandling == Spec => []ExclusiveUnlessDisrupted
<1>1. IInv => ExclusiveUnlessDisrupted
  <2> SUFFICES ASSUME IInv, disruptions = 0, NEW v \in Worker, NEW w \in Worker,
                      v # w, job[v] # Idle, job[w] # Idle,
                      job[v].event = job[w].event
               PROVE  FALSE
    BY DEF ExclusiveUnlessDisrupted
  <2>1. Live(v, job[v].event) /\ Live(w, job[v].event)
    BY DEF IInv, HeldUnlessDisrupted
  <2> QED BY <2>1 DEF Live
<1> QED BY <1>1, InductiveInvariant, PTL

\* Retention never erases the payload of an event that can still be claimed.
THEOREM RetentionSparesWork == Spec => []ClaimableHasPayload
<1>1. IInv => ClaimableHasPayload
  BY DEF IInv, RedactedIsFinal, ClaimableHasPayload
<1> QED BY <1>1, InductiveInvariant, PTL

\* Domain events are stored if and only if a handler that emits them committed.
THEOREM EmissionIsAtomic == Spec => []EmittedWithEffects
  BY InductiveInvariant, PTL DEF IInv

\* Only the worker that made the last claim of an event writes its outcome, and
\* it does so for that very claim.
THEOREM SettlementIsFenced == Spec => SettledByItsClaim
<1> DEFINE Fenced ==
      \A e \in Event :
        status[e] = "processing" /\ status'[e] # "processing" =>
          \E w \in Worker :
            /\ owner[e] = w
            /\ job[w] # Idle
            /\ job[w].event = e
            /\ job[w].attempt = attempts[e]
            /\ job'[w] = Idle
<1>1. IInv /\ [Next]_vars => [Fenced]_vars
  <2> SUFFICES ASSUME IInv, Next, NEW e \in Event,
                      status[e] = "processing", status'[e] # "processing"
               PROVE  \E w \in Worker : /\ owner[e] = w
                                        /\ job[w] # Idle
                                        /\ job[w].event = e
                                        /\ job[w].attempt = attempts[e]
                                        /\ job'[w] = Idle
    OBVIOUS
  <2>1. ASSUME NEW w \in Worker, NEW d \in 0..Lag, job[w] # Idle,
               Holds(w, job[w].event, d), NEW outcome,
               Release(job[w].event, outcome)
        PROVE  owner[e] = w /\ job[w].event = e /\ job[w].attempt = attempts[e]
    <3>1. job[w].event \in Event
      BY <2>1, BusyJob DEF IInv, Busy
    <3>2. \A f \in Event : f # job[w].event => status'[f] = status[f]
      BY <2>1, <3>1 DEF Release, IInv, TypeOK
    <3>3. job[w].event = e
      BY <3>2
    <3> QED BY <2>1, <3>3 DEF Holds, IInv, JobsAreClaims
  <2>2. ASSUME NEW w \in Worker, Finish(w) \/ Fail(w)
        PROVE  \E v \in Worker : /\ owner[e] = v
                                 /\ job[v] # Idle
                                 /\ job[v].event = e
                                 /\ job[v].attempt = attempts[e]
                                 /\ job'[v] = Idle
    <3>1. job[w] # Idle
      BY <2>2, BusyJob DEF Finish, Fail, IInv
    <3>2. PICK d \in 0..Lag, outcome \in Status :
            /\ Holds(w, job[w].event, d)
            /\ Release(job[w].event, outcome)
            /\ job' = [job EXCEPT ![w] = Idle]
      BY <2>2 DEF Finish, Fail, Status
    <3>3. job'[w] = Idle
      BY <3>2 DEF IInv, TypeOK
    <3> QED BY <2>1, <3>1, <3>2, <3>3
  <2>3. ASSUME NEW w \in Worker, Claim(w) PROVE status'[e] = "processing"
    BY <2>3 DEF Claim, IInv, TypeOK
  <2> QED
    BY <2>2, <2>3
       DEF Next, Receive, Insert, Redact, Heartbeat, Apply, Raise, Crash, Tick,
           rows, IInv, TypeOK
<1> QED BY <1>1, InductiveInvariant, PTL DEF Spec, SettledByItsClaim

-----------------------------------------------------------------------------
(* Refinement *)

\* Putting rows into the table is the abstract admission of absent items.
LEMMA InsertAdmits ==
  ASSUME TypeOK, NEW S, NEW initial \in [Event -> {"pending", "ignored"}], NEW rank,
         Insert(S, initial, rank), NEW entry,
         \A e \in S \cap Event : PhaseOf(initial[e]) \in entry
  PROVE  Queue!Admit(entry)
<1> DEFINE before == [e \in Event |-> PhaseOf(status[e])]
           after == [e \in Event |-> PhaseOf(status'[e])]
<1>1. after \in [Event -> Queue!Phase]
  BY DEF Insert, TypeOK, Status, PhaseOf, Queue!Phase
<1>2. \A e \in Event : \/ after[e] = before[e]
                       \/ before[e] = "absent" /\ after[e] \in entry
  BY DEF Insert, TypeOK, PhaseOf
<1> QED BY <1>1, <1>2 DEF Queue!Admit

\* Releasing a held row is the abstract verdict on the item.
LEMMA ReleaseDecides ==
  ASSUME TypeOK, NEW e \in Event, status[e] = "processing", NEW outcome,
         Release(e, outcome)
  PROVE  /\ PhaseOf(status[e]) = "open"
         /\ [f \in Event |-> PhaseOf(status'[f])]
              = [[f \in Event |-> PhaseOf(status[f])] EXCEPT ![e] = PhaseOf(outcome)]
  BY DEF Release, TypeOK, PhaseOf

\* The inbox implements the work queue: rows are tried until their handler took
\* effect or their attempts are used up, and verdicts are final.
THEOREM InboxImplementsWorkQueue == Spec => ImplementsWorkQueue
<1>1. Init => Queue!Init
  BY DEF Init, Queue!Init, PhaseOf
<1>2. IInv /\ [Next]_vars => [Queue!Next]_(Queue!vars)
  <2> SUFFICES ASSUME IInv, [Next]_vars PROVE [Queue!Next]_(Queue!vars)
    OBVIOUS
  <2> USE InboxAssumption DEF IInv
  <2>1. ASSUME NEW e \in Event, Receive(e) PROVE Queue!Store
    <3> DEFINE initial == [f \in Event |-> IF f \in Unknown THEN "ignored"
                                           ELSE "pending"]
    <3>1. PICK rank : Insert({e}, initial, rank)
      BY <2>1 DEF Receive
    <3>2. \A f \in {e} \cap Event : PhaseOf(initial[f]) \in {"open", "ignored"}
      BY DEF PhaseOf
    <3>3. initial \in [Event -> {"pending", "ignored"}]
      OBVIOUS
    <3> HIDE DEF initial
    <3>4. Queue!Admit({"open", "ignored"})
      BY <3>1, <3>2, <3>3, InsertAdmits
    <3> QED BY <2>1, <3>4 DEF Receive, Queue!Store
  <2>2. ASSUME NEW w \in Worker, Claim(w) PROVE \E e \in Event : Queue!Try(e)
    <3>1. PICK d \in 0..Lag, e \in Event :
            /\ Eligible(e, d)
            /\ status' = [status EXCEPT ![e] = "processing"]
            /\ attempts' = [attempts EXCEPT ![e] = @ + 1]
      BY <2>2 DEF Claim
    <3>2. [f \in Event |-> PhaseOf(status'[f])] = [f \in Event |-> PhaseOf(status[f])]
      BY <3>1 DEF Eligible, PhaseOf, TypeOK
    <3>3. PhaseOf(status[e]) = "open"
      BY <3>1 DEF Eligible, PhaseOf
    <3> QED BY <2>2, <3>1, <3>2, <3>3 DEF Claim, Queue!Try
  <2>3. ASSUME NEW w \in Worker, Apply(w) PROVE \E e \in Event : Queue!Run(e)
    <3>1. job[w] \in Busy /\ job[w] # Idle /\ job[w].event \in Event
      BY <2>3, BusyJob DEF Apply, Busy
    <3> DEFINE initial == [f \in Event |-> "pending"]
    <3>2. PICK rank : Insert(Emits[job[w].event], initial, rank)
      BY <2>3 DEF Apply
    <3>3. \A f \in Emits[job[w].event] \cap Event : PhaseOf(initial[f]) \in {"open"}
      BY DEF PhaseOf
    <3>4. initial \in [Event -> {"pending", "ignored"}]
      OBVIOUS
    <3> HIDE DEF initial
    <3>5. Queue!Admit({"open"})
      BY <3>2, <3>3, <3>4, InsertAdmits
    <3>6. attempts[job[w].event] > 0
      BY <3>1 DEF JobsAreClaims
    <3> QED BY <2>3, <3>1, <3>5, <3>6 DEF Apply, Queue!Run
  <2>4. ASSUME NEW w \in Worker, Finish(w)
        PROVE  (\E e \in Event : Queue!Complete(e)) \/ UNCHANGED Queue!vars
    <3>1. job[w] \in Busy /\ job[w].event \in Event
      BY <2>4, BusyJob DEF Finish, Busy
    <3>2. UNCHANGED <<attempts, applied>>
      BY <2>4 DEF Finish
    <3>3. CASE \E d \in 0..Lag : /\ Holds(w, job[w].event, d)
                                 /\ Release(job[w].event, "done")
      <4>1. job[w].event \in applied
        BY <2>4 DEF Finish, DoneIsApplied
      <4>2. status[job[w].event] = "processing"
        BY <3>3 DEF Holds
      <4>3. PhaseOf("done") = "done"
        BY DEF PhaseOf
      <4>4. Queue!Complete(job[w].event)
        BY <3>1, <3>2, <3>3, <4>1, <4>2, <4>3, ReleaseDecides DEF Queue!Complete
      <4> QED BY <3>1, <4>4
    <3>4. CASE UNCHANGED status
      BY <3>2, <3>4 DEF Queue!vars
    <3> QED BY <2>4, <3>3, <3>4 DEF Finish
  <2>5. ASSUME NEW w \in Worker, Fail(w)
        PROVE  (\E e \in Event : Queue!GiveUp(e)) \/ UNCHANGED Queue!vars
    <3>1. job[w] \in Busy /\ job[w].event \in Event
      BY <2>5, BusyJob DEF Fail, Busy
    <3> DEFINE e == job[w].event
               verdict == IF attempts[e] >= MaxAttempts THEN "dead" ELSE "pending"
    <3>2. UNCHANGED <<attempts, applied>>
      BY <2>5 DEF Fail
    <3>3. CASE \E d \in 0..Lag : Holds(w, e, d) /\ Release(e, verdict)
      <4>1. status[e] = "processing"
        BY <3>3 DEF Holds
      <4>2. /\ PhaseOf(status[e]) = "open"
            /\ [f \in Event |-> PhaseOf(status'[f])]
                 = [[f \in Event |-> PhaseOf(status[f])] EXCEPT ![e] = PhaseOf(verdict)]
        BY <3>1, <3>3, <4>1, ReleaseDecides
      <4>3. CASE attempts[e] >= MaxAttempts
        <5>1. Queue!GiveUp(e)
          BY <3>1, <3>2, <4>2, <4>3 DEF Queue!GiveUp, PhaseOf
        <5> QED BY <3>1, <5>1
      <4>4. CASE ~(attempts[e] >= MaxAttempts)
        <5>1. \A f \in Event : PhaseOf(status'[f]) = PhaseOf(status[f])
          BY <3>1, <3>3, <4>1, <4>4 DEF Release, TypeOK, PhaseOf
        <5> QED BY <3>2, <5>1 DEF Queue!vars
      <4> QED BY <4>3, <4>4
    <3>4. CASE UNCHANGED status
      BY <3>2, <3>4 DEF Queue!vars
    <3> QED BY <2>5, <3>3, <3>4 DEF Fail
  <2>6. ASSUME UNCHANGED <<status, attempts, applied>> PROVE UNCHANGED Queue!vars
    BY <2>6 DEF Queue!vars
  <2>7. CASE \/ \E w \in Worker : Heartbeat(w) \/ Raise(w) \/ Crash(w)
             \/ Redact \/ Tick \/ UNCHANGED vars
    BY <2>6, <2>7 DEF Heartbeat, Raise, Crash, Redact, Tick, rows, vars
  <2> QED BY <2>1, <2>2, <2>3, <2>4, <2>5, <2>7 DEF Next, Queue!Next
<1> QED BY <1>1, <1>2, InductiveInvariant, PTL DEF Spec, Queue!Spec, ImplementsWorkQueue

=============================================================================
