------------------------------- MODULE Proposal -------------------------------
(***************************************************************************)
(* What the house promises the author of an initiative and those who are   *)
(* asked about it, as if it were an assembly: one wording is on the table, *)
(* and the vote is on it alone; a new wording withdraws the vote on the    *)
(* old one with all its answers; only who is silent is asked again, and    *)
(* twice at most; the result of the vote on the last wording decides, for  *)
(* good, and is then written down.  Revisions of rows, polls and their     *)
(* versions, jobs, plans, events, retries and lost leases are the business *)
(* of the module that implements this one.                                 *)
(***************************************************************************)
EXTENDS Naturals

CONSTANTS First,     \* the wording of the initiative as it was found
          Later,     \* wordings that its author may put in its place
          Resident,  \* whose position is asked
          None

VARIABLES stage,     \* how far the initiative has come
          wording,   \* what is on the table
          vote,      \* the vote on each wording
          answered,  \* who has answered in the vote that is open
          reminded,  \* how often each resident was asked again, by wording
          written    \* wordings whose result was written down

vars == <<stage, wording, vote, answered, reminded, written>>

Wording == {First} \cup Later
Outcome == {"supported", "not_supported"}

Init ==
  /\ stage = "detected"
  /\ wording = None
  /\ vote = [k \in Wording |-> "none"]
  /\ answered = {}
  /\ reminded = [d \in Wording \X Resident |-> 0]
  /\ written = {}

Table(k) == wording' = k /\ answered' = {}

Begin ==
  /\ stage = "detected" /\ stage' = "collecting"
  /\ vote[First] = "none" /\ vote' = [vote EXCEPT ![First] = "open"]
  /\ Table(First)
  /\ UNCHANGED <<reminded, written>>

\* There is nobody whose position could be asked.
AskNobody ==
  /\ stage = "detected" /\ stage' = "not_supported"
  /\ UNCHANGED <<wording, vote, answered, reminded, written>>

\* A vote that has ended keeps its result, which decides nothing any more.
Revise(k) ==
  /\ stage = "collecting"
  /\ vote[k] = "none"
  /\ vote' = [vote EXCEPT ![wording] = IF @ = "open" THEN "cancelled" ELSE @,
                          ![k] = "open"]
  /\ Table(k)
  /\ UNCHANGED <<stage, reminded, written>>

Voting == stage = "collecting" /\ vote[wording] = "open"

Answer(r) ==
  /\ Voting /\ r \notin answered
  /\ answered' = answered \cup {r}
  /\ UNCHANGED <<stage, wording, vote, reminded, written>>

\* Silence supports nothing.
End(outcome) ==
  /\ Voting
  /\ outcome = "supported" => answered # {}
  /\ vote' = [vote EXCEPT ![wording] = outcome]
  /\ answered' = {}
  /\ UNCHANGED <<stage, wording, reminded, written>>

Remind(silent) ==
  /\ Voting
  /\ \A r \in silent : r \notin answered /\ reminded[<<wording, r>>] < 2
  /\ reminded' = [d \in Wording \X Resident |->
                    IF d \in {wording} \X silent THEN reminded[d] + 1 ELSE reminded[d]]
  /\ UNCHANGED <<stage, wording, vote, answered, written>>

Decide ==
  /\ stage = "collecting"
  /\ vote[wording] \in Outcome
  /\ stage' = IF vote[wording] = "supported" THEN "request_ready" ELSE "not_supported"
  /\ UNCHANGED <<wording, vote, answered, reminded, written>>

WriteDown ==
  /\ stage # "collecting"
  /\ wording \in Wording /\ vote[wording] \in Outcome
  /\ written' = written \cup {wording}
  /\ UNCHANGED <<stage, wording, vote, answered, reminded>>

Next ==
  \/ Begin \/ AskNobody \/ Decide \/ WriteDown
  \/ \E k \in Later : Revise(k)
  \/ \E r \in Resident : Answer(r)
  \/ \E outcome \in Outcome : End(outcome)
  \/ \E silent \in SUBSET Resident : Remind(silent)

Spec == Init /\ [][Next]_vars

=============================================================================
