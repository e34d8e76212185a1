------------------------------- MODULE MCPoll -------------------------------
\* Two rounds of polls.  One asks two residents, of whom one presses one button
\* and then the other, and everything that can fail does.  The other asks all
\* three or nobody: three residents vote, two of them for and one against, any
\* of them in time or not, and nothing fails but the check of the deadline job.
EXTENDS Poll, TLC

CONSTANTS r1, r2, r3, c1, c2, c3, c4

MCResident == {r1, r2, r3}
AllKinds == {"problem", "initiative", "resolution"}
NobodyTwoOrThree == {{}, {r1, r3}, MCResident}

MCCallback == {c1, c2, c3, c4}
MCBy == (c1 :> r1) @@ (c2 :> r1) @@ (c3 :> r2) @@ (c4 :> r3)
MCChoice == (c1 :> "yes") @@ (c2 :> "no") @@ (c3 :> "yes") @@ (c4 :> "no")

\* Half of two is one and half of three is two; two of three are just the
\* support and the confirmation that are asked for, and one of three is just
\* not enough to reopen.
MCPolicy ==
  [problem    |-> [threshold |-> <<1, 2>>],
   initiative |-> [participation |-> <<1, 2>>, support |-> <<2, 3>>],
   resolution |-> [response |-> <<1, 2>>, confirm |-> <<2, 3>>,
                   reopen |-> <<1, 3>>]]

Faulty == Cardinality(audience) = 2
Pressed == IF Faulty THEN {c1, c2} ELSE {c1, c3, c4}

\* Next of one of the two rounds.
MCNext ==
  \/ \E c \in Pressed : Stamp(c) \/ Store(c) \/ Vote(c)
  \/ \E i \in Item : Claim(i) \/ Done(i) \/ Fail(i)
  \/ PassDeadline \/ Cancel \/ Expire \/ Refuse \/ Skip
  \/ /\ Faulty
     /\ \/ \E c \in Pressed : Unstamp(c)
        \/ \E i \in Item : Raise(i) \/ Abandon(i)

MCSpec == Init /\ [][MCNext]_vars /\ Fairness
=============================================================================
