------------------------------- MODULE MCIntake -------------------------------
\* Two residents report problems.  One of the messages may be left to the agent,
\* whose first call may create a case of the hall and the second one of the roof.
EXTENDS Intake, TLC

CONSTANTS r1, r2, ann, bob, hall, roof, w1, w2

MCPlaceOf == [o \in Operation |-> IF o[2] = 2 THEN roof ELSE hall]
MCAuthorOf == [r \in Report |-> IF r = r2 THEN bob ELSE ann]

\* Neither report names a floor, and so neither tells the hall from the roof.
MCMatching == [r \in Report |-> {hall, roof}]

\* Next, but of a second call and a disturbance only one happens, whichever
\* comes first.
SecondCall ==
  \/ \E r \in ByAgent : Known(<<r, 2>>)
  \/ \E w \in Worker : At(w, "think") /\ View(w).call = 2
OnlyOne == (SecondCall => disruptions = 0)'

MCNext ==
  \/ Environment
  \/ \E c \in Operation : PollIsOver(c)
  \/ \E w \in Worker : Work(w) /\ OnlyOne
  \/ \E e \in Event : ClaimEvent(e)
  \/ Disturb /\ UNCHANGED <<caseVars, intakeVars>> /\ OnlyOne

MCSpec == Init /\ [][MCNext]_vars /\ Fairness
=============================================================================
