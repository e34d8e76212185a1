---------------------------- MODULE MCEnrollment -----------------------------
\* A user with codes for two residents, and another who was given one of them.
EXTENDS Enrollment, TLC

CONSTANTS ann, bob, i1, i2, u1, u2

Code(u, i) == [kind |-> "code", user |-> u, invitation |-> i]

MCUpdate == {Code(u1, i1), Code(u1, i2), Code(u2, i1)}
            \cup [kind : {"started", "stopped"}, user : {u1}]
            \cup {[kind |-> "house", user |-> u1, choice |-> 1], [kind |-> "odd"]}
MCResidentOf == i1 :> ann @@ i2 :> bob
MCHouseOf == i1 :> 1 @@ i2 :> 2
=============================================================================
