------------------------------- MODULE Outbox -------------------------------
(***************************************************************************)
(* The outbox (table outbox_deliveries) and the workers that hand its      *)
(* deliveries to MAX: infrastructure/postgres/delivery.py and              *)
(* application/notifications/worker.py.                                    *)
(*                                                                         *)
(* A delivery is a new message, a new message with a PDF, or an edit of a  *)
(* message that an earlier delivery sent.  Leases work as in module Inbox; *)
(* here a lease is only running or run out.                                *)
(***************************************************************************)
EXTENDS Integers, FiniteSets

CONSTANTS Delivery,       \* operation keys
          Target,         \* Target[i] is the delivery whose message i edits
          None,           \* no edit_key; no worker
          Worker,
          MaxAttempts,    \* DeliveryWorker.max_attempts
          MaxDisruptions  \* bound: crashes, escaped exceptions, lost leases

IsEdit(i) == Target[i] # None

ASSUME OutboxAssumption ==
  /\ None \notin Delivery \cup Worker
  /\ Target \in [Delivery -> Delivery \cup {None}]
  /\ \A i \in Delivery : IsEdit(i) => ~IsEdit(Target[i])
  /\ IsFiniteSet(Delivery)
  /\ MaxAttempts \in Nat \ {0}
  /\ MaxDisruptions \in Nat

VARIABLES
  status,       \* outbox_deliveries.status, "absent" before the insert
  attempts,     \* outbox_deliveries.attempts
  owner,        \* lease_owner
  leased,       \* the lease is still running
  rank,         \* the order in which deliveries were stored, from 1
  file,         \* deliveries with a PDF
  token,        \* those of them with an attachment_token
  job,          \* what each worker is doing
  posts,        \* MAX: how many messages a delivery has produced
  uploads,      \* MAX: how many copies of its file it has taken
  hidden,       \* history: those of them that the worker was told an error of
  carried,      \* MAX: the deliveries whose request it has carried out
  disruptions   \* history: crashes, escaped exceptions and lost leases

content == <<rank, file>>
queue == <<status, attempts, owner, leased, content, token>>
max == <<posts, uploads, hidden, carried>>
vars == <<queue, job, max, disruptions>>

Final == {"sent", "unreachable", "failed", "delivery_unknown", "dead",
          "superseded"}
Status == {"absent", "pending", "processing"} \cup Final
Verdict == {"sent", "unreachable", "failed", "delivery_unknown", "retry"}

Idle == [pc |-> "idle", item |-> None, attempt |-> 0, verdict |-> "none"]
Busy == [pc : {"reading", "uploading", "saving", "calling", "settling"},
         item : Delivery, attempt : Nat \ {0}, verdict : Verdict \cup {"none"}]

TypeOK ==
  /\ status \in [Delivery -> Status]
  /\ attempts \in [Delivery -> Nat]
  /\ owner \in [Delivery -> Worker \cup {None}]
  /\ leased \in [Delivery -> BOOLEAN]
  /\ rank \in [Delivery -> Nat]
  /\ file \subseteq {i \in Delivery : ~IsEdit(i)}
  /\ token \subseteq file
  /\ job \in [Worker -> Busy \cup {Idle}]
  /\ posts \in [Delivery -> Nat]
  /\ uploads \in [Delivery -> Nat]
  /\ hidden \in [Delivery -> Nat]
  /\ carried \subseteq Delivery
  /\ disruptions \in Nat

Init ==
  /\ status = [i \in Delivery |-> "absent"]
  /\ attempts = [i \in Delivery |-> 0]
  /\ owner = [i \in Delivery |-> None]
  /\ leased = [i \in Delivery |-> FALSE]
  /\ rank = [i \in Delivery |-> 0]
  /\ file = {}
  /\ token = {}
  /\ job = [w \in Worker |-> Idle]
  /\ posts = [i \in Delivery |-> 0]
  /\ uploads = [i \in Delivery |-> 0]
  /\ hidden = [i \in Delivery |-> 0]
  /\ carried = {}
  /\ disruptions = 0

-----------------------------------------------------------------------------
(* DeliveryPort, in the transaction of a use case *)

Stored == {i \in Delivery : status[i] # "absent"}

\* Mutant: nothing is coalesced.
CoalescedNever(i) == {}

\* The pending edits of a message that a new edit of it replaces; an edit that
\* is stored already replaces none.
Coalesced(i) ==
  {j \in Delivery : /\ IsEdit(i) /\ i \notin Stored
                    /\ Target[j] = Target[i]
                    /\ status[j] = "pending"}

\* enqueue, of a message with a file or without, or of an edit; a key that is
\* stored already changes nothing, and an edit of an unknown message is an error.
Enqueue(i) ==
  /\ IsEdit(i) => Target[i] \in Stored
  /\ status' = [j \in Delivery |->
       CASE j \in Coalesced(i) -> "superseded"
         [] j = i /\ i \notin Stored -> "pending"
         [] OTHER -> status[j]]
  /\ rank' = IF i \in Stored THEN rank
             ELSE [rank EXCEPT ![i] = Cardinality(Stored) + 1]
  /\ file' \in IF IsEdit(i) \/ i \in Stored THEN {file} ELSE {file, file \cup {i}}
  /\ UNCHANGED <<attempts, owner, leased, token, job, max, disruptions>>

\* cancel_atomic of a poll: an invitation or a reminder that no worker has
\* claimed is withdrawn.
Withdraw(i) ==
  /\ ~IsEdit(i) /\ i \notin file
  /\ status[i] = "pending"
  /\ status' = [status EXCEPT ![i] = "superseded"]
  /\ UNCHANGED <<attempts, owner, leased, content, token, job, max, disruptions>>

-----------------------------------------------------------------------------
(* DeliveryWorker *)

Holds(w, i) == status[i] = "processing" /\ owner[i] = w /\ leased[i]

\* Mutant: a delivery left behind by its worker is not claimed again.
ClaimPending(w, i) ==
  /\ job[w] = Idle
  /\ status[i] = "pending"
  /\ status' = [status EXCEPT ![i] = "processing"]
  /\ attempts' = [attempts EXCEPT ![i] = @ + 1]
  /\ owner' = [owner EXCEPT ![i] = w]
  /\ leased' = [leased EXCEPT ![i] = TRUE]
  /\ job' = [job EXCEPT ![w] = [pc |-> "reading", item |-> i,
                                attempt |-> attempts[i] + 1, verdict |-> "none"]]
  /\ UNCHANGED <<content, token, max, disruptions>>

Claim(w, i) ==
  /\ job[w] = Idle
  /\ \/ status[i] = "pending"
     \/ status[i] = "processing" /\ ~leased[i]
  /\ status' = [status EXCEPT ![i] = "processing"]
  /\ attempts' = [attempts EXCEPT ![i] = @ + 1]
  /\ owner' = [owner EXCEPT ![i] = w]
  /\ leased' = [leased EXCEPT ![i] = TRUE]
  /\ job' = [job EXCEPT ![w] = [pc |-> "reading", item |-> i,
                                attempt |-> attempts[i] + 1, verdict |-> "none"]]
  /\ UNCHANGED <<content, token, max, disruptions>>

Goto(w, pc) == job' = [job EXCEPT ![w].pc = pc]

Decide(w, verdict) ==
  job' = [job EXCEPT ![w].pc = "settling", ![w].verdict = verdict]

\* resolve_target and edit_message_id.  The token is the one of the claim: a
\* row that was claimed again has the token its earlier holder saved.
Read(w) ==
  /\ job[w].pc = "reading"
  /\ LET i == job[w].item IN
     \/ Decide(w, "unreachable")
     \/ /\ IsEdit(i) /\ status[Target[i]] # "sent"
        /\ Decide(w, "retry")
     \/ /\ IsEdit(i) => status[Target[i]] = "sent"
        /\ Goto(w, IF i \in file \ token THEN "uploading" ELSE "calling")
  /\ UNCHANGED <<queue, max, disruptions>>

\* The PDF is uploaded, or the upload fails for now or for good: after an error, a
\* broken connection or an answer without a token, MAX may have the file or not.
Upload(w) ==
  /\ job[w].pc = "uploading"
  /\ LET i == job[w].item IN
     \/ /\ Goto(w, "saving")
        /\ uploads' = [uploads EXCEPT ![i] = @ + 1]
        /\ UNCHANGED hidden
     \/ /\ \E verdict \in {"retry", "failed"} : Decide(w, verdict)
        /\ \/ /\ uploads' = [uploads EXCEPT ![i] = @ + 1]
              /\ hidden' = [hidden EXCEPT ![i] = @ + 1]
           \/ UNCHANGED <<uploads, hidden>>
  /\ UNCHANGED <<queue, posts, carried, disruptions>>

\* save_attachment_token; a lost lease raises out of the worker.
SaveToken(w) ==
  /\ job[w].pc = "saving"
  /\ \/ /\ Holds(w, job[w].item)
        /\ token' = token \cup {job[w].item}
        /\ Goto(w, "calling")
     \/ /\ ~Holds(w, job[w].item)
        /\ job' = [job EXCEPT ![w] = Idle]
        /\ UNCHANGED token
  /\ UNCHANGED <<status, attempts, owner, leased, content, max, disruptions>>

\* The platform carries out the request.
Accept(i) ==
  /\ carried' = carried \cup {i}
  /\ posts' = IF IsEdit(i) THEN posts ELSE [posts EXCEPT ![i] = @ + 1]
  /\ UNCHANGED <<uploads, hidden>>

\* Mutant: a transport error is retried.
CallRetriesUnknown(w) ==
  /\ job[w].pc = "calling"
  /\ \/ /\ Accept(job[w].item)
        /\ \E verdict \in {"sent", "retry"} : Decide(w, verdict)
     \/ /\ UNCHANGED max
        /\ \E verdict \in Verdict \ {"sent"} : Decide(w, verdict)
  /\ UNCHANGED <<queue, disruptions>>

\* Mutant: an unreadable response to an accepted request is a failure.
CallFailsUnknown(w) ==
  /\ job[w].pc = "calling"
  /\ \/ /\ Accept(job[w].item)
        /\ \E verdict \in {"sent", "failed"} : Decide(w, verdict)
     \/ /\ UNCHANGED max
        /\ \E verdict \in Verdict \ {"sent"} : Decide(w, verdict)
  /\ UNCHANGED <<queue, disruptions>>

\* send_text or edit_text.  After a transport error nobody knows whether the
\* request was carried out; an API error says that it was not.
Call(w) ==
  /\ job[w].pc = "calling"
  /\ \/ /\ Accept(job[w].item)
        /\ \E verdict \in {"sent", "delivery_unknown"} : Decide(w, verdict)
     \/ /\ UNCHANGED max
        /\ \E verdict \in Verdict \ {"sent"} : Decide(w, verdict)
  /\ UNCHANGED <<queue, disruptions>>

Outcome(row) ==
  IF row.verdict # "retry" THEN row.verdict
  ELSE IF row.attempt >= MaxAttempts THEN "dead" ELSE "pending"

\* Mutant: the lease is not looked at again when the outcome is written.
SettleUnfenced(w) ==
  /\ job[w].pc = "settling"
  /\ job' = [job EXCEPT ![w] = Idle]
  /\ status' = [status EXCEPT ![job[w].item] = Outcome(job[w])]
  /\ owner' = [owner EXCEPT ![job[w].item] = None]
  /\ leased' = [leased EXCEPT ![job[w].item] = FALSE]
  /\ UNCHANGED <<attempts, content, token, max, disruptions>>

\* _retry and _settle; a lost lease raises and leaves the row alone.
Settle(w) ==
  /\ job[w].pc = "settling"
  /\ job' = [job EXCEPT ![w] = Idle]
  /\ LET i == job[w].item IN
     \/ /\ Holds(w, i)
        /\ status' = [status EXCEPT ![i] = Outcome(job[w])]
        /\ owner' = [owner EXCEPT ![i] = None]
        /\ leased' = [leased EXCEPT ![i] = FALSE]
     \/ /\ ~Holds(w, i)
        /\ UNCHANGED <<status, owner, leased>>
  /\ UNCHANGED <<attempts, content, token, max, disruptions>>

-----------------------------------------------------------------------------
(* The environment *)

Disrupt ==
  /\ disruptions < MaxDisruptions
  /\ disruptions' = disruptions + 1

\* The process dies, or an exception that _deliver does not expect escapes: the
\* lease of its row runs out in time, with nobody left to use it.
Crash(w) ==
  /\ job[w] # Idle
  /\ Disrupt
  /\ job' = [job EXCEPT ![w] = Idle]
  /\ leased' = [leased EXCEPT ![job[w].item] = @ /\ owner[job[w].item] # w]
  /\ UNCHANGED <<status, attempts, owner, content, token, max>>

\* A lease runs out under a worker whose heartbeat came too late.
Lapse(i) ==
  /\ status[i] = "processing" /\ leased[i]
  /\ \E w \in Worker : owner[i] = w /\ job[w].item = i
  /\ Disrupt
  /\ leased' = [leased EXCEPT ![i] = FALSE]
  /\ UNCHANGED <<status, attempts, owner, content, token, job, max>>

Next ==
  \/ \E i \in Delivery : Enqueue(i) \/ Withdraw(i) \/ Lapse(i)
  \/ \E w \in Worker : \/ \E i \in Delivery : Claim(w, i)
                       \/ Read(w) \/ Upload(w) \/ SaveToken(w) \/ Call(w)
                       \/ Settle(w) \/ Crash(w)

Spec == Init /\ [][Next]_vars

\* run_once is called for ever by some worker and serves an available delivery,
\* which of them does not matter, and calls return or time out.
Fairness ==
  /\ WF_vars(\E w \in Worker, i \in Delivery : Claim(w, i))
  /\ WF_vars(\E w \in Worker :
               Read(w) \/ Upload(w) \/ SaveToken(w) \/ Call(w) \/ Settle(w))

FairSpec == Spec /\ Fairness

-----------------------------------------------------------------------------
(* Properties *)

\* A second copy of a message is paid for by a crash or a lost lease: no error
\* that MAX or the network reports makes the worker repeat a send that may have
\* been carried out.  A second copy of a file is paid for so, or by an upload whose
\* success an error hid: no retry of anything else uploads a file again.
CopiesArePaidFor ==
  \A i \in Delivery : /\ posts[i] <= 1 + disruptions
                      /\ uploads[i] <= 1 + disruptions + hidden[i]

\* While nothing is disrupted, a delivery that took effect is never reported
\* as not delivered, nor waits to be sent again.
VerdictIsHonest ==
  disruptions = 0 =>
    \A i \in carried : status[i] \in {"processing", "sent", "delivery_unknown"}

\* Edits of one message wait in line only behind a worker's failed attempt: an
\* edit that no worker has touched is the newest one of its message.  The newest
\* is never thrown away as superseded, also when the use case that stored it, or
\* an older one, runs again; and none is superseded under a worker that is about
\* to send it.  (PostgresDeliveryQueue.enqueue)
EditsAreCoalesced ==
  /\ \A i, j \in Delivery :
       /\ IsEdit(i) /\ Target[i] = Target[j]
       /\ status[i] = "pending" /\ attempts[i] = 0
       => rank[j] <= rank[i]
  /\ \A i \in Delivery :
       IsEdit(i) /\ status[i] = "superseded" =>
         \E j \in Delivery : Target[j] = Target[i] /\ rank[j] > rank[i]
  /\ disruptions = 0 =>
       \A w \in Worker : job[w] # Idle => status[job[w].item] = "processing"

PhaseOf(s) ==
  CASE s \in {"pending", "processing"} -> "open"
    [] s = "sent" -> "done"
    [] s \in {"absent", "dead"} -> s
    [] OTHER -> "dropped"

Queue == INSTANCE WorkQueue WITH
  Item <- Delivery,
  Perishable <- Delivery,
  phase <- [i \in Delivery |-> PhaseOf(status[i])],
  tries <- attempts,
  ran <- carried

\* A delivery is tried until MAX has carried it out, or given up after its
\* attempts, or dropped as superseded, refused or not to be repeated; it is
\* reported as sent only if MAX did carry it out, also after crashes and lost
\* leases, and no late worker takes a verdict back.
ImplementsWorkQueue == Queue!Spec

\* Every delivery gets a verdict: again and again there is none left to serve.
EveryDeliverySettles ==
  []<>(\A i \in Delivery : status[i] \in {"absent"} \cup Final)

=============================================================================
