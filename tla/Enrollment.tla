----------------------------- MODULE Enrollment ------------------------------
(***************************************************************************)
(* Residents are linked to users of MAX by invitations that a demo         *)
(* operator issues, choose one of their houses, and start or stop the bot, *)
(* which says whether they can be written to.  The handler answers the     *)
(* user directly, after its commit, and so again when the event is tried   *)
(* again.  (infrastructure/postgres/enrollment.py,                         *)
(* application/residents/enrollment.py, infrastructure/max/onboarding.py)  *)
(***************************************************************************)
EXTENDS Ingress, FiniteSets

CONSTANTS User, Invitation, Resident, House,
          ResidentOf, HouseOf, \* of the residency an invitation was issued for
          MaxLapses,  \* bound on invitations that expire and residencies that end
          None

ASSUME InvitationAssumption ==
  /\ ResidentOf \in [Invitation -> Resident] /\ HouseOf \in [Invitation -> House]
  /\ House \subseteq Nat
  /\ None \notin User \cup House
  /\ \A x \in Update : x.kind = "code" => x.user \in User /\ x.invitation \in Invitation

VARIABLES issued, \* the invitations the operator has issued
          used,   \* those that were redeemed, each confirming its residency
          over,   \* those that expired
          left,   \* the residencies that ended
          link,   \* the user a resident is linked to
          active, \* the house a resident has chosen
          reachable, \* residents the bot may write to
          answers \* <<event, verdict>> of the answers to a code

homeVars == <<issued, used, over, left, link, active, reachable>>
enrollmentVars == <<ingressVars, workVars, disruptions, homeVars, answers>>

EnrollmentTypeOK ==
  /\ IngressTypeOK
  /\ issued \subseteq Invitation /\ used \subseteq issued /\ over \subseteq issued
  /\ left \subseteq Resident \X House
  /\ link \in [Resident -> User \cup {None}]
  /\ active \in [Resident -> House \cup {None}]
  /\ reachable \subseteq Resident
  /\ answers \subseteq Key \X {"accepted", "denied"}

EnrollmentInit ==
  /\ IngressInit
  /\ issued = {} /\ used = {} /\ over = {} /\ left = {} /\ reachable = {} /\ answers = {}
  /\ link = [r \in Resident |-> None]
  /\ active = [r \in Resident |-> None]

Residency(i) == <<ResidentOf[i], HouseOf[i]>>

Issue(i) ==
  /\ i \notin issued /\ Residency(i) \notin left
  /\ issued' = issued \cup {i}
  /\ UNCHANGED <<ingressVars, workVars, disruptions, used, over, left, link,
                 active, reachable, answers>>

MayLapse == Cardinality(over) + Cardinality(left) < MaxLapses

Expires(i) ==
  /\ MayLapse
  /\ i \in issued \ over
  /\ over' = over \cup {i}
  /\ UNCHANGED <<ingressVars, workVars, disruptions, issued, used, left, link,
                 active, reachable, answers>>

Ends(i) ==
  /\ MayLapse
  /\ i \in issued /\ Residency(i) \notin left
  /\ left' = left \cup {Residency(i)}
  /\ UNCHANGED <<ingressVars, workVars, disruptions, issued, used, over, link,
                 active, reachable, answers>>

LinkedTo(u) == {r \in Resident : link[r] = u}

\* The houses a resident has a confirmed residency in: an invitation confirms it
\* when it is used, and may expire afterwards.
Homes(r) == {h \in House : /\ <<r, h>> \notin left
                           /\ \E i \in used : Residency(i) = <<r, h>>}

\* Houses are listed in the order of their ids: the n-th of the list.
Choice(r, n) ==
  {h \in Homes(r) : Cardinality({k \in Homes(r) : k <= h}) = n}

Handles(w, step, kind) == At(w, step) /\ About(w).kind = kind

-----------------------------------------------------------------------------
\* The bot is started or stopped.  The state of the house is sent after a start.
HandleLifecycle(w) ==
  LET x == About(w) IN
  /\ At(w, "start") /\ x.kind \in {"started", "stopped"}
  /\ reachable' = IF x.kind = "started" THEN reachable \cup LinkedTo(x.user)
                  ELSE reachable \ LinkedTo(x.user)
  /\ Proceed(w, IF x.kind = "started" THEN "send" ELSE "end")
  /\ UNCHANGED <<ingressVars, disruptions, issued, used, over, left, link, active, answers>>

HandleHouse(w) ==
  LET x == About(w) IN
  /\ Handles(w, "start", "house")
  /\ active' = [r \in Resident |->
                  IF r \in LinkedTo(x.user) /\ Choice(r, x.choice) # {}
                  THEN CHOOSE h \in House : h \in Choice(r, x.choice) ELSE active[r]]
  /\ Proceed(w, "send")
  /\ UNCHANGED <<ingressVars, disruptions, issued, used, over, left, link,
                 reachable, answers>>

\* Mutant: a code that was used is refused, whoever repeats it.
UsedByAnyone(i, u) == i \in used

UsedByAnother(i, u) == i \in used /\ link[ResidentOf[i]] # u

Lapsed(i) == i \in over \/ Residency(i) \in left

Denied(i, u) ==
  \/ i \notin issued \/ Lapsed(i)
  \/ UsedByAnother(i, u)
  \/ link[ResidentOf[i]] \notin {None, u}
  \/ LinkedTo(u) \ {ResidentOf[i]} # {}

\* The rows of the resident and the invitation are locked until the commit.
Locked(r) == \E w \in Worker : /\ Handles(w, "linking", "code")
                               /\ ResidentOf[About(w).invitation] = r

ReadCode(w) ==
  LET x == About(w) IN
  /\ Handles(w, "start", "code")
  /\ x.invitation \in issued => ~ Locked(ResidentOf[x.invitation])
  /\ IF Denied(x.invitation, x.user) THEN Read(w, "send", "denied")
     ELSE Goto(w, "linking")
  /\ UNCHANGED <<ingressVars, event, disruptions, homeVars, answers>>

\* Mutant: the column of the users has no unique index.
NoIndex(r, u) == FALSE

\* The unique index over the users of the residents.
Taken(r, u) == LinkedTo(u) \ {r} # {}

Link(w) ==
  LET x == About(w)
      r == ResidentOf[x.invitation] IN
  /\ Handles(w, "linking", "code")
  /\ IF Taken(r, x.user)
     THEN Raise(w) /\ UNCHANGED homeVars
     ELSE /\ Read(w, "send", "accepted") /\ UNCHANGED <<event, issued, over, left>>
          /\ link' = [link EXCEPT ![r] = x.user]
          /\ active' = [active EXCEPT ![r] = IF @ = None THEN HouseOf[x.invitation] ELSE @]
          /\ used' = used \cup {x.invitation}
          /\ reachable' = reachable \cup {r}
  /\ UNCHANGED <<ingressVars, disruptions, answers>>

\* The answer goes to MAX directly; if that fails the whole event is repeated.
SendAnswer(w) ==
  /\ At(w, "send")
  /\ answers' = IF View(w) = Nobody THEN answers ELSE answers \cup {<<Subject(w), View(w)>>}
  /\ Finish(w)
  /\ UNCHANGED <<ingressVars, disruptions, homeVars>>

AnswerFails(w) ==
  /\ At(w, "send")
  /\ Raise(w)
  /\ UNCHANGED <<ingressVars, disruptions, homeVars, answers>>

End(w) ==
  /\ At(w, "end")
  /\ Finish(w)
  /\ UNCHANGED <<ingressVars, disruptions, homeVars, answers>>

ClaimUpdate(w) ==
  /\ \E n \in Key : Claim(w, n)
  /\ UNCHANGED <<ingressVars, homeVars, answers>>

Handle(w) == \/ ClaimUpdate(w) \/ HandleLifecycle(w) \/ HandleHouse(w)
             \/ ReadCode(w) \/ Link(w) \/ SendAnswer(w) \/ AnswerFails(w) \/ End(w)

\* A code is in the hands of a user only after it was issued.
HappensNow(x) ==
  /\ x.kind = "code" => x.invitation \in issued
  /\ Happens(x)
  /\ UNCHANGED <<homeVars, answers>>

EnrollmentNext ==
  \/ \E x \in Update : HappensNow(x)
  \/ Enter /\ UNCHANGED <<homeVars, answers>>
  \/ \E i \in Invitation : Issue(i) \/ Expires(i) \/ Ends(i)
  \/ \E w \in Worker : Handle(w)
  \/ Disturb /\ UNCHANGED <<ingressVars, homeVars, answers>>

EnrollmentSpec == EnrollmentInit /\ [][EnrollmentNext]_enrollmentVars
EnrollmentFairSpec == EnrollmentSpec /\ IngressFairness

-----------------------------------------------------------------------------
\* A user of MAX is one resident: two codes that one user redeems at once, in
\* two workers, do not link two residents to them
\* (redeem_invitation and the unique index of residents.max_user_id).
OneResidentPerUser == \A u \in User : Cardinality(LinkedTo(u)) <= 1

\* Nobody is told that a code was refused that has linked them, though the
\* event is repeated after a crash or a failed answer, unless the invitation has
\* expired meanwhile or the residency has ended; nor that it was accepted who is
\* not linked, or no longer, because another user redeemed the code meanwhile
\* (MaxOnboardingHandler.handle, redeem_invitation).
AnswersAreTrue ==
  \A a \in answers :
    LET x == feed[a[1]]
        linked == x.invitation \in used /\ link[ResidentOf[x.invitation]] = x.user IN
    /\ a[2] = "accepted" => linked
    /\ a[2] = "denied" /\ linked => Lapsed(x.invitation)
=============================================================================
