------------------------------ MODULE MCOutbox ------------------------------
\* A message, with a file or without, and two edits of it.
EXTENDS Outbox, TLC

CONSTANTS card, edit1, edit2

CardDeliveries == {card, edit1, edit2}
CardTarget == (card :> None) @@ [i \in {edit1, edit2} |-> card]

\* Next, but of a disruption and an upload whose success was hidden only one
\* happens, whichever comes first.
OnlyOne == ((\E i \in Delivery : hidden[i] > 0) => disruptions = 0)'

MCNext ==
  \/ \E i \in Delivery : Enqueue(i) \/ Withdraw(i) \/ (Lapse(i) /\ OnlyOne)
  \/ \E w \in Worker : \/ \E i \in Delivery : Claim(w, i)
                       \/ Read(w) \/ SaveToken(w) \/ Call(w) \/ Settle(w)
                       \/ Upload(w) /\ OnlyOne
                       \/ Crash(w) /\ OnlyOne

MCSpec == Init /\ [][MCNext]_vars /\ Fairness
=============================================================================
