------------------------------ MODULE CaseLife ------------------------------
(***************************************************************************)
(* What a case promises its residents, as if the house, its executor and   *)
(* all the workers were one machine: one draft is ordered under one key    *)
(* and can no longer change; the executor takes that order and no other,   *)
(* and reports on it; the house learns the reports forwards; it asks the   *)
(* residents when it knows that the work is done; and what they answer,    *)
(* and nothing else, is the verdict, once and for all.  Rows, sessions,    *)
(* versions, retries and lost leases are the business of the modules that  *)
(* implement this one.                                                     *)
(***************************************************************************)
EXTENDS Naturals, Sequences

CONSTANTS None,
          Draft, Key,
          Report,    \* records with the status that the executor reports
          Outcome    \* of the residents' answers

VARIABLES order,     \* what the executor is asked for, None while it may change
          taken,     \* the order that the executor has taken, None before
          reports,   \* what the executor has reported
          known,     \* how many of the reports the house knows
          answer,    \* of the residents: "none", "open" while they are asked
          verdict    \* on the case, None before

vars == <<order, taken, reports, known, answer, verdict>>

Order == [draft : Draft, key : Key]

Init ==
  /\ order = None /\ taken = None
  /\ reports = <<>> /\ known = 0
  /\ answer = "none" /\ verdict = None

Seal ==
  /\ order = None
  /\ order' \in Order
  /\ UNCHANGED <<taken, reports, known, answer, verdict>>

Take ==
  /\ order \in Order
  /\ taken = None
  /\ taken' = order
  /\ UNCHANGED <<order, reports, known, answer, verdict>>

\* Registered first, then at work, and nothing after done.
MayReport(status) ==
  IF reports = <<>> THEN status = "registered"
  ELSE /\ reports[Len(reports)].status # "done"
       /\ status \in {"in_progress", "done"}

Tell ==
  /\ taken \in Order
  /\ \E r \in Report : MayReport(r.status) /\ reports' = Append(reports, r)
  /\ UNCHANGED <<order, taken, known, answer, verdict>>

\* Reports may be passed over, and none is unlearned.
Learn ==
  /\ known' \in (known + 1)..Len(reports)
  /\ UNCHANGED <<order, taken, reports, answer, verdict>>

Ask ==
  /\ known \in 1..Len(reports)
  /\ reports[known].status = "done"
  /\ answer = "none"
  /\ answer' = "open"
  /\ UNCHANGED <<order, taken, reports, known, verdict>>

Reply ==
  /\ answer = "open"
  /\ answer' \in Outcome
  /\ UNCHANGED <<order, taken, reports, known, verdict>>

Decide ==
  /\ answer \in Outcome
  /\ verdict = None
  /\ verdict' = answer
  /\ UNCHANGED <<order, taken, reports, known, answer>>

Next == Seal \/ Take \/ Tell \/ Learn \/ Ask \/ Reply \/ Decide

Spec == Init /\ [][Next]_vars

=============================================================================
