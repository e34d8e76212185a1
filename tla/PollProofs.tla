----------------------------- MODULE PollProofs -----------------------------
(***************************************************************************)
(* Theorems about module Poll, for every audience, set of callbacks,       *)
(* policy and bound.  Every step changes the poll in one of three ways or  *)
(* not at all (PollSteps), and that is what the invariants about the poll  *)
(* itself are proved from.                                                 *)
(***************************************************************************)
EXTENDS Poll, FiniteSetTheorems, TLAPS

\* _required computes the least number of answers that is at least the given
\* share of the audience.
LEMMA RequiredIsCeiling ==
  ASSUME NEW eligible \in Nat, NEW r \in Ratio, NEW answers \in Nat
  PROVE  answers >= Required(eligible, r) <=> answers * r[2] >= eligible * r[1]
<1> DEFINE x == eligible * r[1]
           d == r[2]
<1>1. x \in Nat /\ d \in Nat \ {0}
  BY DEF Ratio
<1>2. Required(eligible, r) = (x + d - 1) \div d
  BY DEF Required
<1> HIDE DEF x, d
<1>3. answers >= (x + d - 1) \div d <=> answers * d >= x
  BY <1>1, SMTT(20)
<1> QED
  BY <1>2, <1>3 DEF x, d

\* The numbers of residents and of their answers are naturals, and nobody answers
\* where nobody is asked.
LEMMA Counting ==
  ASSUME audience \in Audiences, NEW a
  PROVE  /\ Tally(a).eligible = Cardinality(audience)
         /\ Tally(a).yes = Cardinality({r \in audience : a[r].choice = "yes"})
         /\ Tally(a).no = Cardinality({r \in audience : a[r].choice = "no"})
         /\ Tally(a).eligible \in Nat
         /\ Tally(a).yes \in Nat
         /\ Tally(a).no \in Nat
         /\ Tally(a).eligible = 0 => Tally(a).yes = 0 /\ Tally(a).no = 0
<1>1. IsFiniteSet(audience)
  BY PollAssumption, FS_Subset
<1>2. Cardinality(audience) \in Nat /\ (Cardinality(audience) = 0 <=> audience = {})
  BY <1>1, FS_CardinalityType, FS_EmptySet
<1>3. ASSUME NEW choice
      PROVE  LET of == {r \in audience : a[r].choice = choice} IN
             Cardinality(of) \in Nat /\ (audience = {} => Cardinality(of) = 0)
  <2> DEFINE of == {r \in audience : a[r].choice = choice}
  <2>1. Cardinality(of) \in Nat
    BY <1>1, FS_Subset, FS_CardinalityType
  <2>2. audience = {} => of = {}
    OBVIOUS
  <2> QED BY <2>1, <2>2, FS_EmptySet
<1> QED
  BY <1>2, <1>3 DEF Tally

\* The outcome at the deadline is one of the outcomes of the poll's kind.
LEMMA FinalIsOutcome ==
  ASSUME audience \in Audiences, NEW k \in Kinds, NEW a
  PROVE  /\ Final(k, Tally(a), Policy[k]) \in Outcomes \ {"none"}
         /\ k = "problem" => Final(k, Tally(a), Policy[k])
              \in {"no_audience", "request_ready", "need_evidence"}
<1>1. k \in {"problem", "initiative", "resolution"}
  BY PollAssumption
<1>2. Tally(a).eligible = 0 \/ (Tally(a).eligible # 0 /\ Tally(a).eligible > 0)
  <2>1. Tally(a).eligible \in Nat
    BY Counting
  <2> QED BY <2>1
<1>3. CASE k = "problem"
  <2>1. Final(k, Tally(a), Policy[k]) = EvaluateProblem(Tally(a), Policy[k], TRUE)
    BY <1>3 DEF Final
  <2> QED BY <2>1, <1>2 DEF EvaluateProblem, Outcomes
<1>4. CASE k = "initiative"
  <2>1. Final(k, Tally(a), Policy[k]) = EvaluateInitiative(Tally(a), Policy[k])
    BY <1>4 DEF Final
  <2> QED BY <2>1, <1>2, <1>4 DEF EvaluateInitiative, Outcomes
<1>5. CASE k = "resolution"
  <2>1. Final(k, Tally(a), Policy[k]) = EvaluateResolution(Tally(a), Policy[k])
    BY <1>5 DEF Final
  <2> QED BY <2>1, <1>5 DEF EvaluateResolution, Outcomes
<1> QED
  BY <1>1, <1>3, <1>4, <1>5

-----------------------------------------------------------------------------
(* The ways a step changes the poll *)

\* A step records a counted answer, finalises, cancels, or leaves the poll be.
LEMMA PollSteps ==
  ASSUME [Next]_vars
  PROVE  /\ kind' = kind /\ audience' = audience
         /\ \/ UNCHANGED poll
            \/ \E c \in Callback : Counts(c) /\ RecordAnswer(c)
            \/ status = "open" /\ ~Undrained /\ Finalize
            \/ /\ kind = "initiative" /\ status = "open"
               /\ status' = "cancelled" /\ version' = version + 1
               /\ UNCHANGED <<outcome, answer, history, results>>
<1>1. CASE \E c \in Callback : Vote(c)
  BY <1>1 DEF Vote, definition
<1>2. CASE Expire
  BY <1>2 DEF Expire, definition
<1>3. CASE Cancel
  BY <1>3 DEF Cancel, definition
<1>4. CASE UNCHANGED vars
  BY <1>4 DEF vars, definition
<1>5. CASE \E c \in Callback : Stamp(c) \/ Unstamp(c) \/ Store(c)
  BY <1>5 DEF Stamp, Unstamp, Store, definition
<1>6. CASE \E i \in Item : Claim(i) \/ Raise(i) \/ Done(i) \/ Fail(i) \/ Abandon(i)
  BY <1>6 DEF Claim, Raise, Done, Fail, Abandon, Settle, definition
<1>7. CASE PassDeadline \/ Refuse \/ Skip
  BY <1>7 DEF PassDeadline, Refuse, Skip, Settle, definition
<1> QED
  BY <1>1, <1>2, <1>3, <1>4, <1>5, <1>6, <1>7 DEF Next

-----------------------------------------------------------------------------
(* The type invariant *)

LEMMA TypeInit ==
  ASSUME Init
  PROVE  TypeOK
<1>1. NoAnswer \in [choice : Choices \cup {"none"}, revision : Nat]
  BY DEF NoAnswer
<1>2. answer \in [Resident -> [choice : Choices \cup {"none"}, revision : Nat]]
  BY <1>1 DEF Init
<1>3. /\ kind \in Kinds /\ audience \in Audiences
      /\ status = "open" /\ outcome = "none" /\ version = 1
      /\ history = {} /\ results = {} /\ past = FALSE
      /\ late = {} /\ ran = {} /\ disruptions = 0
  BY DEF Init
<1>4. /\ at \in [Callback -> {"unreceived", "early", "late"}]
      /\ phase \in [Item -> {"absent", "open", "done", "dead", "skipped"}]
      /\ tries \in [Item -> Nat]
      /\ step \in [Item -> {"idle", "running", "ran", "failed"}]
  BY DEF Init
<1>5. outcome \in Outcomes /\ version \in Nat \ {0} /\ disruptions \in Nat
  BY <1>3 DEF Outcomes
<1>6. /\ status \in {"open", "closed", "cancelled"} /\ past \in BOOLEAN
      /\ history \in SUBSET Entry /\ late \in SUBSET Item /\ ran \in SUBSET Item
      /\ results \in SUBSET {"threshold_reached", "expired"}
  BY <1>3
<1> QED
  BY <1>2, <1>3, <1>4, <1>5, <1>6 DEF TypeOK

\* What a counted answer does to the types.
LEMMA RecordAnswerTypes ==
  ASSUME TypeOK, NEW c \in Callback, Counts(c), RecordAnswer(c)
  PROVE  /\ answer' \in [Resident -> [choice : Choices \cup {"none"}, revision : Nat]]
         /\ history' \in SUBSET Entry
         /\ version' \in Nat \ {0}
         /\ status' \in {"open", "closed", "cancelled"}
         /\ outcome' \in Outcomes
         /\ results' \in SUBSET {"threshold_reached", "expired"}
<1> DEFINE r == By[c]
           new == [choice |-> Choice[c], revision |-> answer[r].revision + 1]
<1>1. r \in Resident /\ Choice[c] \in Choices
  BY PollAssumption DEF Counts, TypeOK
<1>2. answer[r].revision \in Nat
  BY <1>1 DEF TypeOK
<1>3. answer' \in [Resident -> [choice : Choices \cup {"none"}, revision : Nat]]
  <2>1. new \in [choice : Choices \cup {"none"}, revision : Nat]
    BY <1>1, <1>2
  <2>2. answer' = [answer EXCEPT ![r] = new]
    BY DEF RecordAnswer
  <2> HIDE DEF new, r
  <2> QED BY <2>1, <2>2 DEF TypeOK
<1>4. history' \in SUBSET Entry
  <2>1. [callback |-> c, by |-> r, choice |-> new.choice, revision |-> new.revision]
          \in Entry
    BY <1>1, <1>2 DEF Entry
  <2> QED BY <2>1 DEF RecordAnswer, TypeOK
<1>5. version' \in Nat \ {0}
  BY DEF RecordAnswer, TypeOK
<1>6. /\ status' \in {"open", "closed", "cancelled"}
      /\ outcome' \in Outcomes
      /\ results' \in SUBSET {"threshold_reached", "expired"}
  BY DEF RecordAnswer, TypeOK, Outcomes
<1> QED
  BY <1>3, <1>4, <1>5, <1>6

LEMMA PollTypes ==
  ASSUME TypeOK, [Next]_vars
  PROVE  /\ kind' \in Kinds /\ audience' \in Audiences
         /\ answer' \in [Resident -> [choice : Choices \cup {"none"}, revision : Nat]]
         /\ history' \in SUBSET Entry
         /\ version' \in Nat \ {0}
         /\ status' \in {"open", "closed", "cancelled"}
         /\ outcome' \in Outcomes
         /\ results' \in SUBSET {"threshold_reached", "expired"}
<1>1. kind' \in Kinds /\ audience' \in Audiences
  BY PollSteps DEF TypeOK
<1>2. CASE UNCHANGED poll
  BY <1>1, <1>2 DEF TypeOK, poll
<1>3. CASE \E c \in Callback : Counts(c) /\ RecordAnswer(c)
  BY <1>1, <1>3, RecordAnswerTypes
<1>4. CASE Finalize
  <2>1. outcome' \in Outcomes
    BY <1>4, FinalIsOutcome DEF Finalize, TypeOK
  <2> QED BY <1>1, <1>4, <2>1 DEF TypeOK, Finalize
<1>5. CASE /\ status' = "cancelled" /\ version' = version + 1
           /\ UNCHANGED <<outcome, answer, history, results>>
  BY <1>1, <1>5 DEF TypeOK
<1> QED
  BY <1>2, <1>3, <1>4, <1>5, PollSteps

LEMMA TypePreserved ==
  ASSUME TypeOK, [Next]_vars
  PROVE  TypeOK'
<1> DEFINE WorkTypes ==
             /\ past \in BOOLEAN
             /\ at \in [Callback -> {"unreceived", "early", "late"}]
             /\ phase \in [Item -> {"absent", "open", "done", "dead", "skipped"}]
             /\ tries \in [Item -> Nat]
             /\ step \in [Item -> {"idle", "running", "ran", "failed"}]
             /\ late \in SUBSET Item
             /\ ran \in SUBSET Item
             /\ disruptions \in Nat
<1>1. SUFFICES WorkTypes'
  BY PollTypes DEF TypeOK
<1>2. WorkTypes /\ Callback \subseteq Item /\ Deadline \in Item
  BY DEF TypeOK, Item
<1>3. CASE \E c \in Callback : Stamp(c) \/ Unstamp(c) \/ Store(c)
  BY <1>2, <1>3 DEF Stamp, Unstamp, Store, work
<1>4. CASE \E c \in Callback : Vote(c)
  BY <1>2, <1>4 DEF Vote, Leave
<1>5. CASE Expire
  BY <1>2, <1>5 DEF Expire, Leave
<1>6. CASE Refuse
  BY <1>2, <1>6 DEF Refuse, Leave
<1>7. CASE PassDeadline \/ Cancel
  BY <1>2, <1>7 DEF PassDeadline, Cancel, work
<1>8. CASE Skip
  BY <1>2, <1>8 DEF Skip, Settle
<1>9. ASSUME NEW i \in Item, Claim(i)
      PROVE  WorkTypes'
  BY <1>2, <1>9 DEF Claim
<1>10. ASSUME NEW i \in Item, Raise(i) \/ Abandon(i)
       PROVE  WorkTypes'
  BY <1>2, <1>10 DEF Raise, Abandon
<1>11. ASSUME NEW i \in Item, Done(i) \/ Fail(i)
       PROVE  WorkTypes'
  BY <1>2, <1>11 DEF Done, Fail, Settle
<1>12. CASE UNCHANGED vars
  BY <1>2, <1>12 DEF vars, work
<1> QED
  BY <1>3, <1>4, <1>5, <1>6, <1>7, <1>8, <1>9, <1>10, <1>11, <1>12 DEF Next

\* Every variable keeps its type, for every audience and set of callbacks.
THEOREM TypeCorrect == Spec => []TypeOK
  BY TypeInit, TypePreserved, PTL DEF Spec

-----------------------------------------------------------------------------
(* The poll after its end *)

\* Whatever handlers run late or again, and whatever the deadline job does: a
\* step from a poll that is not open leaves every part of it as it is.
LEMMA ClosedStep ==
  ASSUME [Next]_vars, status # "open"
  PROVE  UNCHANGED poll
  BY PollSteps DEF Counts

\* A closed or cancelled poll never changes again.
THEOREM ClosedStaysClosed == Spec => ClosedIsFrozen
<1>1. [Next]_vars => [status # "open" => UNCHANGED poll]_vars
  BY ClosedStep
<1> QED
  BY <1>1, PTL DEF Spec, ClosedIsFrozen

-----------------------------------------------------------------------------
(* The outcome *)

LEMMA OutcomeWithClosingStep ==
  ASSUME TypeOK, OutcomeWithClosing, [Next]_vars
  PROVE  OutcomeWithClosing'
<1>1. CASE UNCHANGED poll
  BY <1>1 DEF poll, OutcomeWithClosing
<1>2. CASE \E c \in Callback : Counts(c) /\ RecordAnswer(c)
  <2>1. status = "open" /\ outcome = "none" /\ results = {}
    BY <1>2 DEF Counts, OutcomeWithClosing
  <2>2. \/ status' = "closed" /\ outcome' = "request_ready"
           /\ results' = results \cup {"threshold_reached"}
        \/ UNCHANGED <<status, outcome, results>>
    BY <1>2 DEF RecordAnswer
  <2> QED BY <2>1, <2>2 DEF OutcomeWithClosing
<1>3. CASE status = "open" /\ Finalize
  <2>1. outcome' # "none"
    BY <1>3, FinalIsOutcome DEF Finalize, TypeOK
  <2> QED BY <1>3, <2>1 DEF Finalize, OutcomeWithClosing
<1>4. CASE /\ status = "open" /\ status' = "cancelled"
           /\ UNCHANGED <<outcome, answer, history, results>>
  BY <1>4 DEF OutcomeWithClosing
<1> QED
  BY <1>1, <1>2, <1>3, <1>4, PollSteps

LEMMA AnnouncedOnceStep ==
  ASSUME TypeOK, OutcomeWithClosing, AnnouncedOnce, [Next]_vars
  PROVE  AnnouncedOnce'
<1>0. \A x : Cardinality({x}) = 1
  BY FS_Singleton
<1>1. CASE UNCHANGED poll
  BY <1>1, PollSteps DEF poll, AnnouncedOnce
<1>2. CASE \E c \in Callback : Counts(c) /\ RecordAnswer(c)
  <2>1. status = "open" /\ results = {}
    BY <1>2 DEF Counts, OutcomeWithClosing
  <2>2. CASE ReachesThreshold(answer')
    <3>1. results' = {"threshold_reached"} /\ status' = "closed"
          /\ outcome' = "request_ready" /\ kind = "problem"
      BY <1>2, <2>1, <2>2 DEF RecordAnswer, ReachesThreshold
    <3> QED BY <3>1, <1>0, PollSteps DEF AnnouncedOnce
  <2>3. CASE ~ReachesThreshold(answer')
    <3>1. UNCHANGED <<status, outcome, results>>
      BY <1>2, <2>3 DEF RecordAnswer
    <3> QED BY <3>1, PollSteps DEF AnnouncedOnce
  <2> QED BY <2>2, <2>3
<1>3. CASE status = "open" /\ Finalize
  <2>1. results' = {"expired"} /\ status' = "closed"
    BY <1>3 DEF Finalize, OutcomeWithClosing
  <2> QED BY <2>1, <1>0 DEF AnnouncedOnce
<1>4. CASE /\ status = "open" /\ status' = "cancelled"
           /\ UNCHANGED <<outcome, answer, history, results>>
  BY <1>4, PollSteps DEF AnnouncedOnce
<1> QED
  BY <1>1, <1>2, <1>3, <1>4, PollSteps

\* Each policy ratio is positive, but the one that may reopen an operation.
LEMMA PolicyRatios ==
  LET p == Policy IN
  /\ p["problem"].threshold \in Ratio
  /\ p["initiative"].participation \in Ratio
  /\ p["initiative"].participation[1] > 0
  /\ p["initiative"].support \in Ratio
  /\ p["resolution"].response \in Ratio
  /\ p["resolution"].response[1] > 0
  /\ p["resolution"].confirm \in Ratio
  /\ p["resolution"].reopen \in Ratio
  BY PolicyAssumption

\* The rule for problems says "ready" exactly from the threshold on, and never
\* where nobody is asked.
LEMMA ProblemRule ==
  ASSUME audience \in Audiences, NEW a, NEW expired \in BOOLEAN
  PROVE  LET r == Policy["problem"].threshold
             o == EvaluateProblem(Tally(a), Policy["problem"], expired) IN
         /\ o = "request_ready" <=>
              Tally(a).eligible > 0 /\ Tally(a).yes * r[2] >= Tally(a).eligible * r[1]
         /\ o = "no_audience" <=> Tally(a).eligible = 0
<1> DEFINE t == Tally(a)
           p == Policy["problem"]
<1>1. t.eligible \in Nat /\ t.yes \in Nat
  BY Counting
<1>2. t.yes >= Required(t.eligible, p.threshold)
        <=> t.yes * p.threshold[2] >= t.eligible * p.threshold[1]
  <2>1. t.eligible \in Nat /\ p.threshold \in Ratio
    BY <1>1, PolicyRatios
  <2> HIDE DEF t, p
  <2> QED BY <1>1, <2>1, RequiredIsCeiling
<1>3. CASE t.eligible = 0
  BY <1>3 DEF EvaluateProblem
<1>4. CASE t.eligible # 0
  <2>1. t.eligible > 0
    BY <1>1, <1>4
  <2> HIDE DEF t, p
  <2>2. /\ EvaluateProblem(t, p, expired) = "request_ready"
             <=> t.yes >= Required(t.eligible, p.threshold)
        /\ EvaluateProblem(t, p, expired) # "no_audience"
    BY <1>4, <2>1 DEF EvaluateProblem
  <2> QED BY <1>2, <1>4, <2>1, <2>2 DEF t, p
<1> QED
  BY <1>3, <1>4

\* The position on an initiative: enough of the audience, enough of the answers.
LEMMA InitiativeRule ==
  ASSUME audience \in Audiences, NEW a
  PROVE  LET p == Policy["initiative"]
             t == Tally(a) IN
         EvaluateInitiative(t, p) =
           IF t.eligible = 0 THEN "no_audience"
           ELSE IF /\ (t.yes + t.no) * p.participation[2] >= t.eligible * p.participation[1]
                   /\ t.yes * p.support[2] >= (t.yes + t.no) * p.support[1]
           THEN "supported" ELSE "not_supported"
<1> DEFINE t == Tally(a)
           p == Policy["initiative"]
<1>1. t.eligible \in Nat /\ t.yes \in Nat /\ t.no \in Nat
  BY Counting
<1>2. p.participation \in Ratio
  BY PolicyRatios
<1> HIDE DEF t, p
<1>3. (t.eligible # 0 => t.eligible > 0) /\ t.yes + t.no \in Nat
  BY <1>1
<1>4. t.yes + t.no >= Required(t.eligible, p.participation)
        <=> (t.yes + t.no) * p.participation[2] >= t.eligible * p.participation[1]
  BY <1>1, <1>2, <1>3, RequiredIsCeiling
<1>5. EvaluateInitiative(t, p) =
        IF t.eligible = 0 THEN "no_audience"
        ELSE IF /\ t.yes + t.no >= Required(t.eligible, p.participation)
                /\ AtLeast(t.yes, t.yes + t.no, p.support)
        THEN "supported" ELSE "not_supported"
  BY <1>3 DEF EvaluateInitiative
<1> QED
  BY <1>4, <1>5 DEF AtLeast, t, p

\* The verdict on a resolution: too many "no" reopen, else enough answers and
\* enough "yes" close; a poll without answers does neither.
LEMMA ResolutionRule ==
  ASSUME audience \in Audiences, NEW a
  PROVE  LET p == Policy["resolution"]
             t == Tally(a)
             o == EvaluateResolution(t, p)
             reopen == t.no * p.reopen[2] > (t.yes + t.no) * p.reopen[1] IN
         /\ o = "reopened" <=> reopen
         /\ o = "closed" <=>
              /\ ~reopen
              /\ t.eligible > 0
              /\ (t.yes + t.no) * p.response[2] >= t.eligible * p.response[1]
              /\ t.yes * p.confirm[2] >= (t.yes + t.no) * p.confirm[1]
         /\ o \in {"closed", "reopened", "resolution_unconfirmed"}
<1> DEFINE t == Tally(a)
           p == Policy["resolution"]
<1>1. /\ t.eligible \in Nat /\ t.yes \in Nat /\ t.no \in Nat
      /\ t.eligible = 0 => t.yes = 0 /\ t.no = 0
  BY Counting
<1>2. /\ p.response \in Ratio /\ p.reopen \in Ratio /\ p.response[1] > 0
  BY PolicyRatios
<1> HIDE DEF t, p
<1>3. t.yes + t.no \in Nat
  BY <1>1
<1>4. t.yes + t.no >= Required(t.eligible, p.response)
        <=> (t.yes + t.no) * p.response[2] >= t.eligible * p.response[1]
  BY <1>1, <1>2, <1>3, RequiredIsCeiling
<1>5. p.response[1] \in Nat /\ p.response[2] \in Nat /\ p.reopen[1] \in Nat
      /\ p.reopen[2] \in Nat
  BY <1>2 DEF Ratio
<1>6. CASE t.yes + t.no = 0
  <2>1. t.no = 0
    BY <1>1, <1>6
  <2>2. t.no * p.reopen[2] = 0 /\ (t.yes + t.no) * p.reopen[1] = 0
        /\ (t.yes + t.no) * p.response[2] = 0
    BY <1>5, <1>6, <2>1
  <2>3. t.eligible > 0 => t.eligible * p.response[1] > 0
    BY <1>1, <1>2, <1>5, SMTT(20)
  <2>4. EvaluateResolution(t, p) = "resolution_unconfirmed"
    BY <1>6 DEF EvaluateResolution
  <2>5. ~(t.no * p.reopen[2] > (t.yes + t.no) * p.reopen[1])
        /\ ~(/\ t.eligible > 0
             /\ (t.yes + t.no) * p.response[2] >= t.eligible * p.response[1])
    BY <2>2, <2>3, <1>1, <1>5
  <2> QED BY <2>4, <2>5 DEF t, p
<1>7. CASE t.yes + t.no # 0
  <2>1. t.eligible # 0 /\ t.eligible > 0
    BY <1>1, <1>7
  <2>2. EvaluateResolution(t, p) =
          IF Above(t.no, t.yes + t.no, p.reopen) THEN "reopened"
          ELSE IF /\ t.yes + t.no >= Required(t.eligible, p.response)
                  /\ AtLeast(t.yes, t.yes + t.no, p.confirm)
               THEN "closed" ELSE "resolution_unconfirmed"
    BY <1>7, <2>1 DEF EvaluateResolution
  <2> QED BY <2>1, <2>2, <1>4 DEF Above, AtLeast, t, p
<1> QED
  BY <1>6, <1>7

\* OutcomeFollowsAnswers for given values of the state and a given tally.
RuleHolds(k, s, o, t) ==
  LET p == Policy[k]
      OfAll(n, ratio) == t.eligible > 0 /\ n * ratio[2] >= t.eligible * ratio[1]
      OfAnswers(n, ratio) == n * ratio[2] >= (t.yes + t.no) * ratio[1]
      reopen == t.no * p.reopen[2] > (t.yes + t.no) * p.reopen[1]
  IN
  /\ k = "problem" =>
       /\ OfAll(t.yes, p.threshold) <=> s = "closed" /\ o = "request_ready"
       /\ o \in {"none", "no_audience", "request_ready", "need_evidence"}
  /\ k = "initiative" /\ s = "closed" =>
       /\ o = "supported" <=>
            OfAll(t.yes + t.no, p.participation) /\ OfAnswers(t.yes, p.support)
       /\ o \in {"no_audience", "supported", "not_supported"}
  /\ k \in {"problem", "initiative"} /\ s = "closed" =>
       (o = "no_audience" <=> t.eligible = 0)
  /\ k = "resolution" /\ s = "closed" =>
       /\ o = "reopened" <=> reopen
       /\ o = "closed" <=>
            ~reopen /\ OfAll(t.yes + t.no, p.response) /\ OfAnswers(t.yes, p.confirm)
       /\ o \in {"closed", "reopened", "resolution_unconfirmed"}

LEMMA OutcomeOfTally ==
  /\ OutcomeFollowsAnswers <=> RuleHolds(kind, status, outcome, Tally(answer))
  /\ audience' = audience =>
       (OutcomeFollowsAnswers' <=> RuleHolds(kind', status', outcome', Tally(answer')))
  BY DEF OutcomeFollowsAnswers, RuleHolds, Tally

\* Whatever the answers, the outcome of finalize obeys the rule of its kind.
LEMMA FinalObeysRule ==
  ASSUME audience \in Audiences, NEW k \in Kinds, NEW a
  PROVE  RuleHolds(k, "closed", Final(k, Tally(a), Policy[k]), Tally(a))
<1>1. k \in {"problem", "initiative", "resolution"}
  BY PollAssumption
<1>2. CASE k = "problem"
  <2>1. Final(k, Tally(a), Policy[k])
          = EvaluateProblem(Tally(a), Policy["problem"], TRUE)
    BY <1>2 DEF Final
  <2>2. EvaluateProblem(Tally(a), Policy["problem"], TRUE)
          \in {"no_audience", "request_ready", "need_evidence"}
    BY <1>2, <2>1, FinalIsOutcome
  <2> QED BY <1>2, <2>1, <2>2, ProblemRule DEF RuleHolds
<1>3. CASE k = "initiative"
  <2>1. Final(k, Tally(a), Policy[k])
          = EvaluateInitiative(Tally(a), Policy["initiative"])
    BY <1>3 DEF Final
  <2>2. Tally(a).eligible \in Nat
    BY Counting
  <2> QED BY <1>3, <2>1, <2>2, InitiativeRule DEF RuleHolds
<1>4. CASE k = "resolution"
  <2>1. Final(k, Tally(a), Policy[k])
          = EvaluateResolution(Tally(a), Policy["resolution"])
    BY <1>4 DEF Final
  <2> QED BY <1>4, <2>1, ResolutionRule DEF RuleHolds
<1> QED
  BY <1>1, <1>2, <1>3, <1>4

LEMMA OutcomeFollowsAnswersInit ==
  ASSUME Init
  PROVE  OutcomeFollowsAnswers
<1> DEFINE t == Tally(answer)
           r == Policy["problem"].threshold
<1>1. /\ kind \in Kinds /\ audience \in Audiences
      /\ status = "open" /\ outcome = "none"
  BY DEF Init
<1>2. \A q \in audience : answer[q].choice = "none"
  BY <1>1, PollAssumption DEF Init, NoAnswer
<1>3. {q \in audience : answer[q].choice = "yes"} = {}
  BY <1>2
<1>4. t.yes = 0
  BY <1>3, FS_EmptySet DEF Tally
<1>5. t.eligible \in Nat
  BY <1>1, Counting
<1>6. r \in Ratio /\ r[1] > 0
  BY PolicyAssumption
<1> HIDE DEF t, r
<1>7. r[1] \in Nat /\ r[2] \in Nat
  BY <1>6 DEF Ratio
<1>8. t.yes * r[2] = 0 /\ (t.eligible > 0 => t.eligible * r[1] > 0)
  BY <1>4, <1>5, <1>6, <1>7, SMTT(20)
<1>9. ~(t.eligible > 0 /\ t.yes * r[2] >= t.eligible * r[1])
  BY <1>5, <1>7, <1>8, SMTT(20)
<1>10. RuleHolds(kind, status, outcome, t)
  BY <1>1, <1>9 DEF RuleHolds, r
<1> QED
  BY <1>10, OutcomeOfTally DEF t

LEMMA OutcomeFollowsAnswersStep ==
  ASSUME TypeOK, OutcomeWithClosing, OutcomeFollowsAnswers, [Next]_vars
  PROVE  OutcomeFollowsAnswers'
<1>1. CASE UNCHANGED poll
  BY <1>1, PollSteps DEF poll, OutcomeFollowsAnswers
<1>2. CASE \E c \in Callback : Counts(c) /\ RecordAnswer(c)
  <2>1. status = "open" /\ outcome = "none"
    BY <1>2 DEF Counts, OutcomeWithClosing
  <2>2. kind' = kind /\ audience' = audience /\ audience \in Audiences
    BY PollSteps DEF TypeOK
  <2>3. CASE ReachesThreshold(answer')
    <3>1. status' = "closed" /\ outcome' = "request_ready" /\ kind = "problem"
      BY <1>2, <2>3 DEF RecordAnswer, ReachesThreshold
    <3>2. EvaluateProblem(Tally(answer'), Policy["problem"], FALSE) = "request_ready"
      BY <2>3 DEF ReachesThreshold
    <3>3. RuleHolds(kind', status', outcome', Tally(answer'))
      BY <2>2, <3>1, <3>2, ProblemRule DEF RuleHolds
    <3> QED BY <2>2, <3>3, OutcomeOfTally
  <2>4. CASE ~ReachesThreshold(answer')
    <3>1. status' = "open" /\ outcome' = "none"
      BY <1>2, <2>1, <2>4 DEF RecordAnswer
    <3>2. kind = "problem" =>
            EvaluateProblem(Tally(answer'), Policy["problem"], FALSE) # "request_ready"
      BY <2>4 DEF ReachesThreshold
    <3>3. RuleHolds(kind', status', outcome', Tally(answer'))
      BY <2>2, <3>1, <3>2, ProblemRule DEF RuleHolds
    <3> QED BY <2>2, <3>3, OutcomeOfTally
  <2> QED BY <2>3, <2>4
<1>3. CASE status = "open" /\ Finalize
  <2>1. /\ kind' = kind /\ kind \in Kinds
        /\ audience' = audience /\ audience \in Audiences
        /\ status' = "closed"
        /\ outcome' = Final(kind, Tally(answer), Policy[kind])
        /\ answer' = answer
    BY <1>3, PollSteps DEF Finalize, TypeOK
  <2>2. RuleHolds(kind', status', outcome', Tally(answer'))
    BY <2>1, FinalObeysRule
  <2> QED BY <2>1, <2>2, OutcomeOfTally
<1>4. CASE /\ kind = "initiative" /\ status' = "cancelled"
           /\ UNCHANGED <<outcome, answer, history, results>>
  BY <1>4, PollSteps DEF OutcomeFollowsAnswers
<1> QED
  BY <1>1, <1>2, <1>3, <1>4, PollSteps

-----------------------------------------------------------------------------
(* The history *)

\* One resident's part of the history, for given values of the state.
Of(hist, r) == {h \in hist : h.by = r}

LEMMA HistoryInit ==
  ASSUME Init
  PROVE  HistoryExplainsAnswers
<1>1. history = {} /\ \A r \in Resident : answer[r].revision = 0
  BY DEF Init, NoAnswer
<1> QED
  BY <1>1 DEF HistoryExplainsAnswers

\* A counted answer extends the history by its next revision.
LEMMA HistoryOfRecordAnswer ==
  ASSUME TypeOK, HistoryExplainsAnswers,
         NEW c \in Callback, Counts(c), RecordAnswer(c)
  PROVE  HistoryExplainsAnswers'
<1> DEFINE r == By[c]
           n == answer[r].revision + 1
           e == [callback |-> c, by |-> r, choice |-> Choice[c], revision |-> n]
<1>1. r \in Resident /\ n \in Nat \ {0} /\ n - 1 = answer[r].revision
  BY PollAssumption DEF Counts, TypeOK
<1>2. history' = history \cup {e}
  BY DEF RecordAnswer
<1>3. /\ answer'[r].revision = n /\ answer'[r].choice = Choice[c]
      /\ \A q \in Resident : q # r => answer'[q] = answer[q]
  BY <1>1 DEF RecordAnswer, TypeOK
<1>4. \A h \in history : h \in Entry /\ h.revision \in Nat \ {0}
  BY DEF TypeOK, Entry
<1>5. \A q \in Resident :
        /\ {h.revision : h \in Of(history, q)} = 1..answer[q].revision
        /\ \A h \in Of(history, q) :
             h.revision = answer[q].revision => h.choice = answer[q].choice
        /\ \A g, h \in Of(history, q) :
             h.revision = g.revision + 1 => h.choice # g.choice
  BY DEF HistoryExplainsAnswers, Of
<1>6. \A h \in Of(history, r) : h.revision \in 1..(n - 1)
  BY <1>1, <1>5
<1>7. answer[r].choice # Choice[c] /\ \A h \in history : h.callback # c
  BY DEF Counts
<1>8. e.callback = c /\ e.by = r /\ e.choice = Choice[c] /\ e.revision = n
  OBVIOUS
<1> HIDE DEF r, n, e
<1>9. /\ Of(history', r) = Of(history, r) \cup {e}
      /\ \A q \in Resident : q # r => Of(history', q) = Of(history, q)
  BY <1>2, <1>8 DEF Of
<1>10. ASSUME NEW q \in Resident
       PROVE  /\ {h.revision : h \in Of(history', q)} = 1..answer'[q].revision
              /\ \A h \in Of(history', q) :
                   h.revision = answer'[q].revision => h.choice = answer'[q].choice
              /\ \A g, h \in Of(history', q) :
                   h.revision = g.revision + 1 => h.choice # g.choice
  <2>1. CASE q # r
    BY <2>1, <1>3, <1>5, <1>9
  <2>2. CASE q = r
    <3>1. {h.revision : h \in Of(history', r)} = 1..n
      <4>1. {h.revision : h \in Of(history', r)}
              = {h.revision : h \in Of(history, r)} \cup {e.revision}
        BY <1>9
      <4>2. {h.revision : h \in Of(history, r)} = 1..(n - 1)
        BY <1>1, <1>5
      <4>3. 1..(n - 1) \cup {n} = 1..n
        BY <1>1
      <4> QED BY <4>1, <4>2, <4>3, <1>8
    <3>2. \A h \in Of(history', r) : h.revision = n => h.choice = Choice[c]
      BY <1>1, <1>6, <1>8, <1>9
    <3>3. ASSUME NEW g \in Of(history', r), NEW h \in Of(history', r),
                 h.revision = g.revision + 1
          PROVE  h.choice # g.choice
      <4>1. CASE g = e
        BY <4>1, <3>3, <1>1, <1>6, <1>8, <1>9
      <4>2. CASE g \in Of(history, r) /\ h = e
        <5>1. g.revision = answer[r].revision
          BY <4>2, <3>3, <1>1, <1>6, <1>8
        <5> QED BY <5>1, <4>2, <1>1, <1>5, <1>7, <1>8
      <4>3. CASE g \in Of(history, r) /\ h \in Of(history, r)
        BY <4>3, <3>3, <1>1, <1>5
      <4> QED BY <4>1, <4>2, <4>3, <1>9
    <3> QED BY <2>2, <3>1, <3>2, <3>3, <1>3
  <2> QED BY <2>1, <2>2
<1>11. ASSUME NEW g \in history', NEW h \in history',
              g.callback = h.callback \/ (g.by = h.by /\ g.revision = h.revision)
       PROVE  g = h
  <2>1. CASE g \in history /\ h \in history
    BY <2>1, <1>11 DEF HistoryExplainsAnswers
  <2>2. ASSUME NEW k \in history
        PROVE  k.callback # c /\ ~(k.by = r /\ k.revision = n)
    <3>1. k.by = r => k \in Of(history, r)
      BY DEF Of
    <3> QED BY <3>1, <1>1, <1>6, <1>7
  <2> QED BY <2>1, <2>2, <1>2, <1>8, <1>11
<1>12. \A h \in history' : h.by = By[h.callback] /\ h.choice = Choice[h.callback]
  BY <1>2, <1>8 DEF HistoryExplainsAnswers, r
<1> QED
  BY <1>10, <1>11, <1>12 DEF HistoryExplainsAnswers, Of

LEMMA HistoryStep ==
  ASSUME TypeOK, HistoryExplainsAnswers, [Next]_vars
  PROVE  HistoryExplainsAnswers'
<1>1. CASE UNCHANGED <<answer, history>>
  BY <1>1 DEF HistoryExplainsAnswers
<1>2. CASE \E c \in Callback : Counts(c) /\ RecordAnswer(c)
  BY <1>2, HistoryOfRecordAnswer
<1> QED
  BY <1>1, <1>2, PollSteps DEF poll, Finalize

\* The history is finite, so that it can be counted.
LEMMA VersionStep ==
  ASSUME TypeOK, OutcomeWithClosing, IsFiniteSet(history), VersionCountsChanges,
         [Next]_vars
  PROVE  VersionCountsChanges' /\ IsFiniteSet(history')
<1> DEFINE closing(s, res) == IF s = "cancelled" \/ "expired" \in res THEN 1 ELSE 0
<1>1. version = 1 + Cardinality(history) + closing(status, results)
  BY DEF VersionCountsChanges
<1>2. Cardinality(history) \in Nat
  BY FS_CardinalityType
<1>3. CASE UNCHANGED poll
  BY <1>3 DEF poll, VersionCountsChanges
<1>4. ASSUME NEW c \in Callback, Counts(c), RecordAnswer(c)
      PROVE  VersionCountsChanges' /\ IsFiniteSet(history')
  <2>1. PICK e : e.callback = c /\ history' = history \cup {e}
    BY <1>4 DEF RecordAnswer
  <2>2. e \notin history
    BY <1>4, <2>1 DEF Counts
  <2>3. IsFiniteSet(history') /\ Cardinality(history') = Cardinality(history) + 1
    BY <2>1, <2>2, FS_AddElement
  <2>4. closing(status, results) = 0 /\ closing(status', results') = 0
    BY <1>4 DEF Counts, OutcomeWithClosing, RecordAnswer
  <2>5. version' = version + 1
    BY <1>4 DEF RecordAnswer
  <2> QED BY <1>1, <1>2, <2>3, <2>4, <2>5 DEF VersionCountsChanges
<1>5. CASE status = "open" /\ Finalize
  <2>1. closing(status, results) = 0 /\ closing(status', results') = 1
    BY <1>5 DEF OutcomeWithClosing, Finalize
  <2> QED BY <1>1, <1>2, <1>5, <2>1 DEF VersionCountsChanges, Finalize
<1>6. CASE /\ status = "open" /\ status' = "cancelled" /\ version' = version + 1
           /\ UNCHANGED <<outcome, answer, history, results>>
  <2>1. closing(status, results) = 0 /\ closing(status', results') = 1
    BY <1>6 DEF OutcomeWithClosing
  <2> QED BY <1>1, <1>2, <1>6, <2>1 DEF VersionCountsChanges
<1> QED
  BY <1>3, <1>4, <1>5, <1>6, PollSteps

-----------------------------------------------------------------------------
(* The work on the items *)

LEMMA WorkIsStoredStep ==
  ASSUME TypeOK, WorkIsStored, [Next]_vars
  PROVE  WorkIsStored'
<1>1. Callback \subseteq Item /\ Deadline \in Item /\ Deadline \notin Callback
  BY PollAssumption DEF Item
<1>2. CASE \E c \in Callback : Stamp(c) \/ Unstamp(c)
  BY <1>1, <1>2 DEF Stamp, Unstamp, WorkIsStored, TypeOK, work
<1>3. ASSUME NEW c \in Callback, Store(c)
      PROVE  WorkIsStored'
  BY <1>1, <1>3 DEF Store, WorkIsStored, TypeOK
<1>4. ASSUME NEW c \in Callback, Vote(c)
      PROVE  WorkIsStored'
  BY <1>1, <1>4 DEF Vote, Leave, WorkIsStored, TypeOK
<1>5. CASE Expire
  BY <1>1, <1>5 DEF Expire, Leave, WorkIsStored, TypeOK
<1>6. CASE Refuse
  BY <1>1, <1>6 DEF Refuse, Leave, WorkIsStored, TypeOK
<1>7. CASE PassDeadline \/ Cancel
  BY <1>7 DEF PassDeadline, Cancel, WorkIsStored, work
<1>8. ASSUME NEW i \in Item, NEW verdict, step[i] # "idle", verdict # "absent",
             Settle(i, verdict)
      PROVE  WorkIsStored'
  BY <1>1, <1>8 DEF Settle, WorkIsStored, TypeOK
<1>9. CASE Skip
  BY <1>1, <1>8, <1>9 DEF Skip
<1>10. ASSUME NEW i \in Item, Done(i) \/ Fail(i)
       PROVE  WorkIsStored'
  BY <1>8, <1>10 DEF Done, Fail
<1>11. ASSUME NEW i \in Item, Claim(i)
       PROVE  WorkIsStored'
  BY <1>1, <1>11 DEF Claim, WorkIsStored, TypeOK
<1>12. ASSUME NEW i \in Item, Raise(i)
       PROVE  WorkIsStored'
  BY <1>1, <1>12 DEF Raise, WorkIsStored, TypeOK
<1>13. ASSUME NEW i \in Item, Abandon(i)
       PROVE  WorkIsStored'
  BY <1>1, <1>13 DEF Abandon, WorkIsStored, TypeOK
<1>14. CASE UNCHANGED vars
  BY <1>14 DEF vars, work, WorkIsStored
<1> QED
  BY <1>2, <1>3, <1>4, <1>5, <1>6, <1>7, <1>9, <1>10, <1>11, <1>12, <1>13,
     <1>14 DEF Next

\* The second half of CommittedIsCounted for one callback.
Counted(c) ==
  c \in ran /\ at[c] = "early" /\ By[c] \in audience /\ status = "open"
    => answer[By[c]] # NoAnswer

\* An answer that was given is only ever replaced by another answer.
LEMMA AnswersStay ==
  ASSUME TypeOK, [Next]_vars, NEW r \in Resident, answer[r] # NoAnswer
  PROVE  answer'[r] # NoAnswer
<1>1. CASE UNCHANGED answer
  BY <1>1
<1>2. ASSUME NEW c \in Callback, RecordAnswer(c)
      PROVE  answer'[r] # NoAnswer
  <2>1. Choice[c] # "none"
    BY PollAssumption DEF Choices
  <2> QED BY <1>2, <2>1 DEF RecordAnswer, TypeOK, NoAnswer
<1> QED
  BY <1>1, <1>2, PollSteps DEF poll, Finalize

LEMMA VoteCounts ==
  ASSUME TypeOK, NEW c \in Callback, Vote(c), at[c] = "early",
         By[c] \in audience, status' = "open",
         HistoryExplainsAnswers
  PROVE  answer'[By[c]] # NoAnswer
<1> DEFINE r == By[c]
<1>1. Choice[c] # "none"
  BY PollAssumption DEF Choices
<1>2. CASE Counts(c)
  <2>1. answer'[r].choice = Choice[c]
    BY <1>2, PollAssumption DEF Vote, RecordAnswer, TypeOK, Counts
  <2> QED BY <1>1, <2>1 DEF NoAnswer
<1>3. CASE ~Counts(c)
  <2>1. answer' = answer /\ status = "open"
    BY <1>3 DEF Vote, poll
  <2>2. CASE \E h \in history : h.callback = c
    <3>1. PICK h \in history : h.by = r
      BY <2>2 DEF HistoryExplainsAnswers
    <3>2. r \in Resident
      BY PollAssumption DEF TypeOK
    <3>3. h.revision \in 1..answer[r].revision
      BY <3>2, <3>1 DEF HistoryExplainsAnswers
    <3>4. answer[r].revision # 0
      BY <3>2, <3>3 DEF TypeOK
    <3> QED BY <3>4, <2>1 DEF NoAnswer
  <2>3. CASE answer[r].choice = Choice[c]
    BY <1>1, <2>1, <2>3 DEF NoAnswer
  <2> QED BY <1>3, <2>1, <2>2, <2>3 DEF Counts
<1> QED
  BY <1>2, <1>3

LEMMA CommittedIsCountedStep ==
  ASSUME TypeOK, WorkIsStored, HistoryExplainsAnswers, CommittedIsCounted,
         [Next]_vars
  PROVE  CommittedIsCounted'
<1>1. Callback \subseteq Item /\ Deadline \in Item /\ Deadline \notin Callback
  BY PollAssumption DEF Item
<1>2. /\ status' = "open" => status = "open"
      /\ audience' = audience
      /\ \A c \in Callback : By[c] \in audience => By[c] \in Resident
  BY PollSteps, PollAssumption DEF poll, Counts, TypeOK
<1> DEFINE Settled == \A i \in Item : phase[i] = "done" \/ step[i] = "ran" => i \in ran
<1>3. Settled /\ \A c \in Callback : Counted(c)
  BY DEF CommittedIsCounted, Counted
<1>4. SUFFICES Settled' /\ \A c \in Callback : Counted(c)'
  BY DEF CommittedIsCounted, Counted
<1>5. ASSUME NEW c \in Callback, c \in ran, at'[c] = at[c]
      PROVE  Counted(c)'
  BY <1>2, <1>3, <1>5, AnswersStay DEF Counted
<1>6. ASSUME NEW c \in Callback, Stamp(c) \/ Unstamp(c)
      PROVE  Settled' /\ \A b \in Callback : Counted(b)'
  <2>1. c \notin ran /\ UNCHANGED <<phase, step, ran>>
    BY <1>6 DEF Stamp, Unstamp, WorkIsStored, work
  <2>2. \A b \in Callback : b # c => at'[b] = at[b]
    BY <1>6 DEF Stamp, Unstamp, TypeOK
  <2>3. \A b \in Callback : Counted(b)'
    BY <2>1, <2>2, <1>5 DEF Counted
  <2> QED BY <2>1, <2>3, <1>3
<1>7. ASSUME UNCHANGED <<at, ran>>, Settled'
      PROVE  Settled' /\ \A c \in Callback : Counted(c)'
  BY <1>5, <1>7 DEF Counted
<1>8. ASSUME NEW c \in Callback, Vote(c)
      PROVE  Settled' /\ \A b \in Callback : Counted(b)'
  <2>1. Settled'
    BY <1>1, <1>3, <1>8 DEF Vote, Leave, TypeOK
  <2>2. ran' = ran \cup {c} /\ at' = at
    BY <1>8 DEF Vote
  <2>3. Counted(c)'
    BY <1>2, <1>8, <2>2, VoteCounts DEF Counted
  <2>4. \A b \in Callback : b # c => Counted(b)'
    BY <2>2, <1>5 DEF Counted
  <2> QED BY <2>1, <2>3, <2>4
<1>9. CASE Expire
  <2>1. Settled'
    BY <1>1, <1>3, <1>9 DEF Expire, Leave, TypeOK
  <2>2. ran' = ran \cup {Deadline} /\ at' = at
    BY <1>9 DEF Expire
  <2>3. \A b \in Callback : Counted(b)'
    BY <1>1, <2>2, <1>5 DEF Counted
  <2> QED BY <2>1, <2>3
<1>10. ASSUME NEW c \in Callback, Store(c)
       PROVE  UNCHANGED <<at, ran>> /\ Settled'
  BY <1>1, <1>3, <1>10 DEF Store, TypeOK
<1>11. CASE Refuse
  <2>1. UNCHANGED <<at, ran>> /\ Settled'
    BY <1>1, <1>3, <1>11 DEF Refuse, Leave, TypeOK
  <2> QED BY <2>1, <1>7
<1>12. CASE PassDeadline \/ Cancel \/ UNCHANGED vars
  <2>1. UNCHANGED <<at, ran>> /\ Settled'
    BY <1>3, <1>12 DEF PassDeadline, Cancel, vars, work
  <2> QED BY <2>1, <1>7
<1>13. CASE Skip
  <2>1. UNCHANGED <<at, ran>> /\ Settled'
    BY <1>1, <1>3, <1>13 DEF Skip, Settle, TypeOK
  <2> QED BY <2>1, <1>7
<1>14. ASSUME NEW i \in Item, Claim(i) \/ Raise(i) \/ Abandon(i)
       PROVE  UNCHANGED <<at, ran>> /\ Settled'
  BY <1>3, <1>14 DEF Claim, Raise, Abandon, TypeOK
<1>15. ASSUME NEW i \in Item, Done(i) \/ Fail(i)
       PROVE  UNCHANGED <<at, ran>> /\ Settled'
  BY <1>3, <1>15 DEF Done, Fail, Settle, TypeOK
<1> QED
  BY <1>6, <1>7, <1>8, <1>9, <1>10, <1>11, <1>12, <1>13, <1>14, <1>15 DEF Next

-----------------------------------------------------------------------------
(* The inductive invariant and what follows from it *)

IndInv == IInv /\ IsFiniteSet(history)

LEMMA IndInvInit ==
  ASSUME Init
  PROVE  IndInv
<1>1. TypeOK
  BY TypeInit
<1>2. history = {} /\ results = {} /\ status = "open" /\ outcome = "none"
      /\ version = 1
  BY DEF Init
<1>3. IsFiniteSet(history) /\ Cardinality(history) = 0 /\ Cardinality(results) = 0
  BY <1>2, FS_EmptySet
<1>4. OutcomeWithClosing /\ AnnouncedOnce /\ VersionCountsChanges
  BY <1>2, <1>3 DEF OutcomeWithClosing, AnnouncedOnce, VersionCountsChanges
<1>5. WorkIsStored /\ CommittedIsCounted
  BY PollAssumption DEF Init, WorkIsStored, CommittedIsCounted, Item
<1> QED
  BY <1>1, <1>3, <1>4, <1>5, HistoryInit, OutcomeFollowsAnswersInit DEF IndInv, IInv

LEMMA IndInvStep ==
  ASSUME IndInv, [Next]_vars
  PROVE  IndInv'
<1>1. TypeOK' /\ WorkIsStored' /\ CommittedIsCounted'
  BY TypePreserved, WorkIsStoredStep, CommittedIsCountedStep DEF IndInv, IInv
<1>2. OutcomeWithClosing' /\ OutcomeFollowsAnswers' /\ AnnouncedOnce'
  BY OutcomeWithClosingStep, OutcomeFollowsAnswersStep, AnnouncedOnceStep
  DEF IndInv, IInv
<1>3. HistoryExplainsAnswers' /\ VersionCountsChanges' /\ IsFiniteSet(history')
  BY HistoryStep, VersionStep DEF IndInv, IInv
<1> QED
  BY <1>1, <1>2, <1>3 DEF IndInv, IInv

LEMMA Invariance == Spec => []IndInv
  BY IndInvInit, IndInvStep, PTL DEF Spec

\* The strengthening that the next theorems are read from is invariant.
THEOREM InductiveInvariant == Spec => []IInv
  BY Invariance, PTL DEF IndInv

\* A closed poll has the outcome that its rule gives for its answers, in exact
\* fractions, for every audience and every policy; and a problem poll closes
\* with the vote that reaches its threshold, not before and not after.
THEOREM OutcomeIsRight == Spec => []OutcomeFollowsAnswers
  BY InductiveInvariant, PTL DEF IInv

\* A poll announces its end once, as its threshold or as its expiry, however
\* often its callbacks and its deadline job are run.
THEOREM OneAnnouncement == Spec => []AnnouncedOnce
  BY InductiveInvariant, PTL DEF IInv

\* The current answers are what the gapless history of counted presses says.
THEOREM HistoryIsComplete == Spec => []HistoryExplainsAnswers
  BY InductiveInvariant, PTL DEF IInv

\* The version is one plus the number of changes of the poll.
THEOREM VersionIsLedger == Spec => []VersionCountsChanges
  BY InductiveInvariant, PTL DEF IInv

LEMMA ExpiryStep ==
  ASSUME IndInv, [Next]_vars, NEW c \in Callback,
         "expired" \in results' \ results, at[c] = "early",
         phase[c] \in {"open", "done"}, By[c] \in audience
  PROVE  answer[By[c]] # NoAnswer
<1>1. status = "open" /\ ~Undrained
  <2>1. ASSUME NEW b \in Callback, RecordAnswer(b)
        PROVE  results' \subseteq results \cup {"threshold_reached"}
    BY <2>1 DEF RecordAnswer
  <2>2. UNCHANGED poll => results' = results
    BY DEF poll
  <2> QED BY <2>1, <2>2, PollSteps
<1>2. c \in ran
  BY <1>1 DEF Undrained, IndInv, IInv, CommittedIsCounted, Item
<1> QED
  BY <1>1, <1>2 DEF IndInv, IInv, CommittedIsCounted

\* The deadline counts every resident whose callback was stored in time and
\* not given up: the drain check and the row lock leave no gap between them.
THEOREM ExpiryIsDrained == Spec => ExpiryCountsStored
<1>1. IndInv /\ [Next]_vars =>
        [\A c \in Callback :
           /\ "expired" \in results' \ results
           /\ at[c] = "early"
           /\ phase[c] \in {"open", "done"}
           /\ By[c] \in audience
           => answer[By[c]] # NoAnswer]_vars
  BY ExpiryStep
<1> QED
  BY <1>1, Invariance, PTL DEF Spec, ExpiryCountsStored

=============================================================================
