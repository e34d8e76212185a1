----------------------------- MODULE CaseOpening -----------------------------
(***************************************************************************)
(* What the house promises those who report problems, as if one clerk kept *)
(* one book: a place has one open case; whoever reports a problem begins a *)
(* case, or joins an open one that nothing in the report tells apart; a    *)
(* case is put to its neighbours if its author said so, dropped if its     *)
(* author said so, and left waiting otherwise; they are asked once, and    *)
(* what they answer, and nothing else, decides it.  Searches, versions,    *)
(* operations that are remembered, runs of the agent, events, retries and  *)
(* lost leases are the business of the modules that implement this one.    *)
(***************************************************************************)
CONSTANTS Case, None,
          Report,
          Plain,      \* reports that describe one clear problem
          Resident,
          FirstOf,    \* the report with which each case begins
          PlaceOf,    \* the place of each case
          Matching,   \* places of which each report names nothing that differs
          AuthorOf    \* the resident who sent each report

VARIABLES stage,      \* how far each case has come
          joined,     \* the cases of each report
          said,       \* what residents have said about cases
          answer      \* of the neighbours of each case

vars == <<stage, joined, said, answer>>

Outcome == {"request_ready", "needs_evidence"}

\* Whoever says yes or no names a case, or means one that is waiting.
Saying == [by : Resident, case : Case \cup {None}, yes : BOOLEAN]

Open(c) == stage[c] \notin {"none", "closed"}
Said(c, yes) ==
  \E s \in said : s.by = AuthorOf[FirstOf[c]] /\ s.case \in {c, None} /\ s.yes = yes

Init ==
  /\ stage = [c \in Case |-> "none"]
  /\ joined = [r \in Report |-> {}]
  /\ said = {}
  /\ answer = [c \in Case |-> "none"]

Come(c, from, to) ==
  /\ stage[c] = from
  /\ stage' = [stage EXCEPT ![c] = to]

\* A report that describes one problem has one case.
Joins(r, c) ==
  /\ c \notin joined[r]
  /\ r \in Plain => joined[r] = {}
  /\ joined' = [joined EXCEPT ![r] = @ \cup {c}]

Begin(c) ==
  /\ \A d \in Case : Open(d) => PlaceOf[d] # PlaceOf[c]
  /\ Come(c, "none", "awaiting_confirmation")
  /\ Joins(FirstOf[c], c)
  /\ UNCHANGED <<said, answer>>

\* A report may join a case of another place, if it is vague about its own; and
\* the language model may take any open case for the same.
Join(r, c) ==
  /\ Open(c)
  /\ r \in Plain => PlaceOf[c] \in Matching[r]
  /\ Joins(r, c)
  /\ UNCHANGED <<stage, said, answer>>

Say ==
  /\ \E s \in Saying : said' = said \cup {s}
  /\ UNCHANGED <<stage, joined, answer>>

Agree(c) ==
  /\ Said(c, TRUE)
  /\ Come(c, "awaiting_confirmation", "detected")
  /\ UNCHANGED <<joined, said, answer>>

Refuse(c) ==
  /\ Said(c, FALSE)
  /\ Come(c, "awaiting_confirmation", "closed")
  /\ UNCHANGED <<joined, said, answer>>

Ask(c) ==
  /\ Come(c, "detected", "collecting")
  /\ answer[c] = "none"
  /\ answer' = [answer EXCEPT ![c] = "open"]
  /\ UNCHANGED <<joined, said>>

\* The problem concerns nobody who could be asked.
AskNobody(c) ==
  /\ Come(c, "detected", "needs_evidence")
  /\ UNCHANGED <<joined, said, answer>>

Answer(c) ==
  /\ answer[c] = "open"
  /\ \E outcome \in Outcome : answer' = [answer EXCEPT ![c] = outcome]
  /\ UNCHANGED <<stage, joined, said>>

Decide(c) ==
  /\ answer[c] \in Outcome
  /\ Come(c, "collecting", answer[c])
  /\ UNCHANGED <<joined, said, answer>>

\* CaseLife has what is done about the problem.
Close(c) ==
  /\ Come(c, "request_ready", "closed")
  /\ UNCHANGED <<joined, said, answer>>

Next ==
  \/ Say
  \/ \E c \in Case :
       \/ Begin(c) \/ Agree(c) \/ Refuse(c) \/ Ask(c) \/ AskNobody(c)
       \/ Answer(c) \/ Decide(c) \/ Close(c)
       \/ \E r \in Report : Join(r, c)

Spec == Init /\ [][Next]_vars

=============================================================================
