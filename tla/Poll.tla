-------------------------------- MODULE Poll --------------------------------
(***************************************************************************)
(* One poll of a house: domain/polls/models.py under the row lock of       *)
(* infrastructure/postgres/polls.py, driven by the callbacks of the inbox  *)
(* and by its own deadline job.                                            *)
(*                                                                         *)
(* A callback and the deadline are items of work.  Their tables are seen   *)
(* through the promise of module WorkQueue: an item is claimed, its        *)
(* handler commits or raises, and a handler that lost its claim may still  *)
(* commit later.  The row lock makes each handler transaction one action.  *)
(***************************************************************************)
EXTENDS Integers, FiniteSets, PollPolicy

CONSTANTS Resident,       \* those who may be in the audience
          Audiences,      \* the audiences a poll is opened for
          Outsider,       \* anyone else, or a button of another poll
          Callback,       \* button presses
          By, Choice,     \* By[c] pressed the button Choice[c]
          Deadline,       \* the job poll:expire:<poll id>
          Kinds, Policy,  \* kinds of polls, and the frozen policy of each
          MaxAttempts,    \* attempts of an item before it is dead
          MaxDisruptions  \* bound: claims lost to a crash or a late heartbeat

Choices == {"yes", "no"}
Item == Callback \cup {Deadline}

ASSUME PollAssumption ==
  /\ IsFiniteSet(Resident)
  /\ Audiences \subseteq SUBSET Resident
  /\ IsFiniteSet(Callback)
  /\ Outsider \notin Resident
  /\ Deadline \notin Callback
  /\ By \in [Callback -> Resident \cup {Outsider}]
  /\ Choice \in [Callback -> Choices]
  /\ Kinds \subseteq {"problem", "initiative", "resolution"}
  /\ MaxAttempts \in Nat \ {0}
  /\ MaxDisruptions \in Nat

ASSUME PolicyAssumption ==
  LET Positive == {r \in Ratio : r[1] > 0} IN
  /\ Policy["problem"].threshold \in Positive
  /\ Policy["initiative"].participation \in Positive
  /\ Policy["initiative"].support \in Positive
  /\ Policy["resolution"].response \in Positive
  /\ Policy["resolution"].confirm \in Positive
  /\ Policy["resolution"].reopen \in Ratio

VARIABLES
  kind,         \* polls.kind
  audience,     \* poll_members, frozen when the poll is opened
  status,       \* polls.status
  outcome,      \* polls.outcome
  version,      \* polls.version
  answer,       \* poll_answers: the current answer of each resident
  history,      \* poll_answer_history
  results,      \* domain events of this poll in the inbox, by name
  past,         \* the clock has reached closes_at
  at,           \* received_at of a callback: before closes_at or not
  phase,        \* where an item stands in its table
  tries,        \* attempts of an item
  step,         \* what the holder of the claim on an item is doing
  late,         \* items with a handler that lost its claim and still runs
  ran,          \* history: items whose handler has committed once
  disruptions   \* history: how many claims were lost

definition == <<kind, audience>>
poll == <<status, outcome, version, answer, history, results>>
work == <<phase, tries, step, late, ran, disruptions>>
vars == <<definition, poll, past, at, work>>

NoAnswer == [choice |-> "none", revision |-> 0]
Entry == [callback : Callback, by : Resident, choice : Choices,
          revision : Nat \ {0}]
Outcomes == {"none", "no_audience", "request_ready", "need_evidence",
             "supported", "not_supported",
             "closed", "reopened", "resolution_unconfirmed"}

TypeOK ==
  /\ kind \in Kinds
  /\ audience \in Audiences
  /\ status \in {"open", "closed", "cancelled"}
  /\ outcome \in Outcomes
  /\ version \in Nat \ {0}
  /\ answer \in [Resident -> [choice : Choices \cup {"none"}, revision : Nat]]
  /\ history \in SUBSET Entry
  /\ results \in SUBSET {"threshold_reached", "expired"}
  /\ past \in BOOLEAN
  /\ at \in [Callback -> {"unreceived", "early", "late"}]
  /\ phase \in [Item -> {"absent", "open", "done", "dead", "skipped"}]
  /\ tries \in [Item -> Nat]
  /\ step \in [Item -> {"idle", "running", "ran", "failed"}]
  /\ late \in SUBSET Item
  /\ ran \in SUBSET Item
  /\ disruptions \in Nat

\* open_once: the poll and its deadline job are stored in one transaction.  It
\* takes an empty audience too: that of an emergency, when its result is checked.
Init ==
  /\ kind \in Kinds
  /\ audience \in Audiences
  /\ status = "open" /\ outcome = "none" /\ version = 1
  /\ answer = [r \in Resident |-> NoAnswer]
  /\ history = {} /\ results = {}
  /\ past = FALSE
  /\ at = [c \in Callback |-> "unreceived"]
  /\ phase = [i \in Item |-> IF i = Deadline THEN "open" ELSE "absent"]
  /\ tries = [i \in Item |-> 0]
  /\ step = [i \in Item |-> "idle"]
  /\ late = {} /\ ran = {} /\ disruptions = 0

-----------------------------------------------------------------------------
(* Ingress: the clock is read first, the event is stored later *)

Stamp(c) ==
  /\ at[c] = "unreceived"
  /\ at' = [at EXCEPT ![c] = IF past THEN "late" ELSE "early"]
  /\ UNCHANGED <<definition, poll, past, work>>

\* The storing transaction fails; the platform will deliver the update again.
Unstamp(c) ==
  /\ at[c] # "unreceived" /\ phase[c] = "absent"
  /\ at' = [at EXCEPT ![c] = "unreceived"]
  /\ UNCHANGED <<definition, poll, past, work>>

Store(c) ==
  /\ at[c] # "unreceived" /\ phase[c] = "absent"
  /\ phase' = [phase EXCEPT ![c] = "open"]
  /\ UNCHANGED <<definition, poll, past, at, tries, step, late, ran, disruptions>>

PassDeadline ==
  /\ ~past
  /\ past' = TRUE
  /\ UNCHANGED <<definition, poll, at, work>>

-----------------------------------------------------------------------------
(* The transitions of PollState, each under the lock of the poll row *)

Tally(a) ==
  [eligible |-> Cardinality(audience),
   yes |-> Cardinality({r \in audience : a[r].choice = "yes"}),
   no  |-> Cardinality({r \in audience : a[r].choice = "no"})]

\* Mutant: the events that were processed before are not looked up.
CountsAgain(c) ==
  /\ By[c] \in audience
  /\ at[c] = "early"
  /\ status = "open"
  /\ answer[By[c]].choice # Choice[c]

\* record_answer gets past its early returns: not a repeated event, eligible,
\* received in time, the poll still open, and not the answer already given.
Counts(c) ==
  /\ ~\E h \in history : h.callback = c
  /\ By[c] \in audience
  /\ at[c] = "early"
  /\ status = "open"
  /\ answer[By[c]].choice # Choice[c]

ReachesThreshold(a) ==
  /\ kind = "problem"
  /\ EvaluateProblem(Tally(a), Policy["problem"], FALSE) = "request_ready"

RecordAnswer(c) ==
  LET r == By[c]
      new == [choice |-> Choice[c], revision |-> answer[r].revision + 1] IN
  /\ answer' = [answer EXCEPT ![r] = new]
  /\ history' = history \cup {[callback |-> c, by |-> r, choice |-> new.choice,
                               revision |-> new.revision]}
  /\ version' = version + 1
  /\ IF ReachesThreshold(answer')
     THEN /\ status' = "closed" /\ outcome' = "request_ready"
          /\ results' = results \cup {"threshold_reached"}
     ELSE UNCHANGED <<status, outcome, results>>

\* Mutant: the drain check counts pending rows only.
UndrainedPending ==
  \E c \in Callback : at[c] = "early" /\ phase[c] = "open" /\ step[c] = "idle"

\* The drain check: some callback of the house that was received in time is
\* pending or processing.
Undrained == \E c \in Callback : at[c] = "early" /\ phase[c] = "open"

Finalize ==
  /\ status' = "closed"
  /\ outcome' = Final(kind, Tally(answer), Policy[kind])
  /\ version' = version + 1
  /\ results' = results \cup {"expired"}
  /\ UNCHANGED <<answer, history>>

\* cancel_atomic, when an initiative is revised.  It revokes the buttons too,
\* which stops the same presses as the status does.
Cancel ==
  /\ kind = "initiative"
  /\ status = "open"
  /\ status' = "cancelled"
  /\ version' = version + 1
  /\ UNCHANGED <<definition, outcome, answer, history, results, past, at, work>>

-----------------------------------------------------------------------------
(* Work on an item *)

\* Mutant: an item that failed once is not available again.
ClaimOnce(i) ==
  /\ phase[i] = "open" /\ step[i] = "idle" /\ tries[i] = 0
  /\ i = Deadline => past
  /\ tries' = [tries EXCEPT ![i] = @ + 1]
  /\ step' = [step EXCEPT ![i] = "running"]
  /\ UNCHANGED <<definition, poll, past, at, phase, late, ran, disruptions>>

Claim(i) ==
  /\ phase[i] = "open" /\ step[i] = "idle"
  /\ i = Deadline => past
  /\ tries' = [tries EXCEPT ![i] = @ + 1]
  /\ step' = [step EXCEPT ![i] = "running"]
  /\ UNCHANGED <<definition, poll, past, at, phase, late, ran, disruptions>>

\* A handler ends with the given step: the holder of the claim records it, a
\* handler that lost its claim is just gone.
Leave(i, next) ==
  \/ /\ step[i] = "running"
     /\ step' = [step EXCEPT ![i] = next]
     /\ UNCHANGED late
  \/ /\ i \in late
     /\ late' = late \ {i}
     /\ UNCHANGED step

\* PostgresPollCallbackProcessor.process commits.
Vote(c) ==
  /\ Leave(c, "ran")
  /\ ran' = ran \cup {c}
  /\ IF Counts(c) THEN RecordAnswer(c) ELSE UNCHANGED poll
  /\ UNCHANGED <<definition, past, at, phase, tries, disruptions>>

\* Mutant: the deadline finalises a poll that is closed already.
ExpireAgain ==
  /\ status = "open" => ~Undrained
  /\ Leave(Deadline, "ran")
  /\ ran' = ran \cup {Deadline}
  /\ Finalize
  /\ UNCHANGED <<definition, past, at, phase, tries, disruptions>>

\* handle_poll_expired commits; on a closed poll it changes nothing.
Expire ==
  /\ status = "open" => ~Undrained
  /\ Leave(Deadline, "ran")
  /\ ran' = ran \cup {Deadline}
  /\ IF status = "open" THEN Finalize ELSE UNCHANGED poll
  /\ UNCHANGED <<definition, past, at, phase, tries, disruptions>>

\* POLL_INBOX_NOT_DRAINED
Refuse ==
  /\ status = "open" /\ Undrained
  /\ Leave(Deadline, "failed")
  /\ UNCHANGED <<definition, poll, past, at, phase, tries, ran, disruptions>>

\* Any other exception, before the handler's commit or after it.
Raise(i) ==
  /\ step[i] \in {"running", "ran"}
  /\ step' = [step EXCEPT ![i] = "failed"]
  /\ UNCHANGED <<definition, poll, past, at, phase, tries, late, ran, disruptions>>

Settle(i, verdict) ==
  /\ phase' = [phase EXCEPT ![i] = verdict]
  /\ step' = [step EXCEPT ![i] = "idle"]
  /\ UNCHANGED <<definition, poll, past, at, tries, late, ran, disruptions>>

Done(i) == step[i] = "ran" /\ Settle(i, "done")

Fail(i) ==
  /\ step[i] = "failed"
  /\ Settle(i, IF tries[i] >= MaxAttempts THEN "dead" ELSE "open")

\* skipped_stale: PostgresPollRevisionReader finds the poll no longer open.
Skip ==
  /\ step[Deadline] = "running" /\ status # "open"
  /\ Settle(Deadline, "skipped")

\* A crash, or a lease that ran out under a handler that goes on.
Abandon(i) ==
  /\ step[i] # "idle"
  /\ disruptions < MaxDisruptions
  /\ disruptions' = disruptions + 1
  /\ step' = [step EXCEPT ![i] = "idle"]
  /\ late' \in IF step[i] = "running" THEN {late, late \cup {i}} ELSE {late}
  /\ UNCHANGED <<definition, poll, past, at, phase, tries, ran>>

Next ==
  \/ \E c \in Callback : Stamp(c) \/ Unstamp(c) \/ Store(c) \/ Vote(c)
  \/ \E i \in Item : Claim(i) \/ Raise(i) \/ Done(i) \/ Fail(i) \/ Abandon(i)
  \/ PassDeadline \/ Cancel \/ Expire \/ Refuse \/ Skip

Spec == Init /\ [][Next]_vars

\* The clock runs, and workers take up and end what waits, in some order.
Fairness ==
  /\ WF_vars(PassDeadline)
  /\ WF_vars(Expire \/ Refuse \/ Skip)
  /\ WF_vars(\E c \in Callback : Vote(c))
  /\ WF_vars(\E i \in Item : Claim(i) \/ Done(i) \/ Fail(i))

FairSpec == Spec /\ Fairness

-----------------------------------------------------------------------------
(* Properties *)

\* The outcome of a closed poll is what its rule says, in exact fractions, of
\* the answers it holds, also where there is nobody to ask or nobody answers;
\* and no problem poll stays open once enough residents have confirmed, or is
\* closed early with too few.
OutcomeFollowsAnswers ==
  LET p == Policy[kind]
      all == Cardinality(audience)
      yes == Cardinality({r \in audience : answer[r].choice = "yes"})
      no == Cardinality({r \in audience : answer[r].choice = "no"})
      OfAll(n, ratio) == all > 0 /\ n * ratio[2] >= all * ratio[1]
      OfAnswers(n, ratio) == n * ratio[2] >= (yes + no) * ratio[1]
  IN
  /\ kind = "problem" =>
       /\ OfAll(yes, p.threshold) <=> status = "closed" /\ outcome = "request_ready"
       /\ outcome \in {"none", "no_audience", "request_ready", "need_evidence"}
  /\ kind = "initiative" /\ status = "closed" =>
       /\ outcome = "supported" <=>
            OfAll(yes + no, p.participation) /\ OfAnswers(yes, p.support)
       /\ outcome \in {"no_audience", "supported", "not_supported"}
  /\ kind \in {"problem", "initiative"} /\ status = "closed" =>
       (outcome = "no_audience" <=> all = 0)
  /\ kind = "resolution" /\ status = "closed" =>
       LET reopen == no * p.reopen[2] > (yes + no) * p.reopen[1] IN
       /\ outcome = "reopened" <=> reopen
       /\ outcome = "closed" <=>
            ~reopen /\ OfAll(yes + no, p.response) /\ OfAnswers(yes, p.confirm)
       /\ outcome \in {"closed", "reopened", "resolution_unconfirmed"}

\* A poll announces its end in exactly one domain event, the threshold or the
\* expiry, and in none while it is open or after it was cancelled; whatever
\* handlers run twice, late or against each other.
AnnouncedOnce ==
  /\ Cardinality(results) = IF status = "closed" THEN 1 ELSE 0
  /\ "threshold_reached" \in results => kind = "problem" /\ outcome = "request_ready"

\* The answer of a resident is the last entry of an unbroken history: every
\* revision is there once, each callback made at most one of them, with the
\* button it pressed, and no revision repeats the choice before it.
HistoryExplainsAnswers ==
  /\ \A r \in Resident :
       LET of == {h \in history : h.by = r} IN
       /\ {h.revision : h \in of} = 1..answer[r].revision
       /\ \A h \in of : h.revision = answer[r].revision => h.choice = answer[r].choice
       /\ \A g, h \in of : h.revision = g.revision + 1 => h.choice # g.choice
  /\ \A g, h \in history :
       g.callback = h.callback \/ (g.by = h.by /\ g.revision = h.revision) => g = h
  /\ \A h \in history : h.by = By[h.callback] /\ h.choice = Choice[h.callback]

\* The version that cards and deliveries are keyed with counts every change of
\* the poll: the recorded answers and the one closing that is not a vote.
VersionCountsChanges ==
  version = 1 + Cardinality(history) +
            (IF status = "cancelled" \/ "expired" \in results THEN 1 ELSE 0)

\* Once a poll is closed or cancelled nothing about it changes again.
ClosedIsFrozen == [][status # "open" => UNCHANGED poll]_vars

\* When the deadline closes the poll, every resident with a callback that was
\* stored in time and not given up has an answer in the tally.
ExpiryCountsStored ==
  [][\A c \in Callback :
       /\ "expired" \in results' \ results
       /\ at[c] = "early"
       /\ phase[c] \in {"open", "done"}
       /\ By[c] \in audience
       => answer[By[c]] # NoAnswer]_vars

\* When its deadline has passed, the poll is closed unless its job was given up.
DeadlineSettles == past ~> status # "open" \/ phase[Deadline] = "dead"

-----------------------------------------------------------------------------
(* The inductive invariant *)

\* What is being worked on, or ever was, is stored and has its time of receipt.
WorkIsStored ==
  /\ \A i \in Item : step[i] # "idle" => phase[i] = "open"
  /\ \A i \in late \cup ran : phase[i] # "absent"
  /\ \A c \in Callback : phase[c] # "absent" => at[c] # "unreceived"

\* Only a committed handler settles an item as done, and on an open poll it
\* has left its resident with an answer.
CommittedIsCounted ==
  /\ \A i \in Item : phase[i] = "done" \/ step[i] = "ran" => i \in ran
  /\ \A c \in Callback \cap ran :
       /\ at[c] = "early"
       /\ By[c] \in audience
       /\ status = "open"
       => answer[By[c]] # NoAnswer

\* The outcome and the announcement appear when the poll closes, not before.
OutcomeWithClosing ==
  /\ outcome = "none" <=> status # "closed"
  /\ results = {} <=> status # "closed"

\* The strengthening of the properties above that every step preserves.
IInv ==
  /\ TypeOK
  /\ WorkIsStored
  /\ CommittedIsCounted
  /\ OutcomeWithClosing
  /\ OutcomeFollowsAnswers
  /\ AnnouncedOnce
  /\ HistoryExplainsAnswers
  /\ VersionCountsChanges

=============================================================================
