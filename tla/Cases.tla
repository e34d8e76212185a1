-------------------------------- MODULE Cases --------------------------------
(***************************************************************************)
(* The rows that a report of a problem leads to, and the short             *)
(* transactions on them: cases, the messages linked to them, the           *)
(* operations that are remembered, and the poll of a case.  A place stands *)
(* for kind, entrance, floor and object: the terms by which, under its     *)
(* lock, the code tells whether two cases are the same.  The search goes   *)
(* by less: by what a report names and by its words.  Cases live here as   *)
(* problems do; to a search, which does not ask for the kind, one of       *)
(* another kind is a case of another place.                                *)
(* (infrastructure/postgres/case_writer.py, case_candidates.py,            *)
(* case_evidence.py, application/cases/, application/agent/)               *)
(***************************************************************************)
EXTENDS Naturals, FiniteSets

CONSTANTS Report,      \* messages that describe one problem each
          ByAgent,     \* those of them that are left to the language model
          AuthorOf,    \* the resident who sent each report
          PlaceOf,     \* the place of the case that each operation may create
          Matching,    \* places of which each report names nothing that differs
          Located,     \* reports that name both their entrance and their object
          MaxCalls,    \* bound on the tool calls of a run of the agent
          None

\* An operation is the message itself, or a call of the run on that message.
\* A case is named after the operation that creates it.
Operation == {o \in Report \X (0..MaxCalls) : o[1] \in ByAgent <=> o[2] > 0}

ASSUME CaseAssumption ==
  /\ None \notin Operation
  /\ ByAgent \subseteq Report
  /\ MaxCalls \in Nat
  /\ \A r \in Report \ ByAgent : PlaceOf[<<r, 0>>] \in Matching[r]

VARIABLES cases,     \* the row of each case
          linked,    \* cases to which each report is linked
          remembered,\* what each operation has done
          poll       \* the poll of each case

caseVars == <<cases, linked, remembered, poll>>

CaseStatus == {"none", "awaiting_confirmation", "detected", "collecting",
               "request_ready", "needs_evidence", "closed"}

NoRow    == [status |-> "none", version |-> 0, recent |-> FALSE]
Untried  == [case |-> None, version |-> 0]
PollState == {"none", "open", "request_ready", "needs_evidence"}

CasesTypeOK ==
  /\ cases \in [Operation -> [status : CaseStatus, version : Nat, recent : BOOLEAN]]
  /\ linked \in [Report -> SUBSET Operation]
  /\ remembered \in [Operation -> [case : Operation \cup {None}, version : Nat]]
  /\ poll \in [Operation -> PollState]

CasesInit ==
  /\ cases = [c \in Operation |-> NoRow]
  /\ linked = [r \in Report |-> {}]
  /\ remembered = [o \in Operation |-> Untried]
  /\ poll = [c \in Operation |-> "none"]

Exists(c) == cases[c].status # "none"
IsOpen(c) == cases[c].status \notin {"none", "closed"}
PlaceOfCase(c) == PlaceOf[c]

\* The origin of a case is its first message, and its author may confirm it.
Origin(c) == AuthorOf[c[1]]

\* search_candidates: cases, of whatever kind and state, that differ in nothing
\* the report names, unless they were closed longer ago than thirty days.
Candidate(r) ==
  {c \in Operation : /\ Exists(c) /\ PlaceOfCase(c) \in Matching[r]
                     /\ cases[c].status = "closed" => cases[c].recent}

\* Their rank is a matter of their texts, and so is whether they are found at
\* all, unless the report names entrance and object: one of them or None.
FoundFirst(r) ==
  Candidate(r) \cup (IF r \in Located /\ Candidate(r) # {} THEN {} ELSE {None})

\* Every write to a case moves its version on.
Moved(c, status) ==
  [cases EXCEPT ![c].status = status, ![c].version = @ + 1,
                ![c].recent = (status = "closed")]

-----------------------------------------------------------------------------

\* An operation that is known answers again if it is the same command, and
\* raises if it is another.
Known(o) == remembered[o] # Untried
Same(o, case, version) == remembered[o] = [case |-> case, version |-> version]

\* Mutant: what the search had found is not looked at again under the lock.
CanCreateUnchecked(o) == Same(o, o, 0) \/ ~ Known(o)

\* create_case, under the lock of its place: nothing open may be there.
CanCreate(o) ==
  \/ Same(o, o, 0)
  \/ /\ ~ Known(o)
     /\ \A c \in Operation : IsOpen(c) => PlaceOfCase(c) # PlaceOfCase(o)

Create(o) ==
  IF Known(o) THEN UNCHANGED <<cases, linked, remembered>>
  ELSE /\ cases' = [cases EXCEPT ![o] = [status |-> "awaiting_confirmation",
                                         version |-> 1, recent |-> FALSE]]
       /\ linked' = [linked EXCEPT ![o[1]] = @ \cup {o}]
       /\ remembered' = [remembered EXCEPT ![o] = [case |-> o, version |-> 0]]

\* Mutant: a report is attached to a case that is closed.
CanAttachClosed(o, c, version) ==
  Same(o, c, version) \/ (~ Known(o) /\ cases[c].version = version /\ c \notin linked[o[1]])

\* attach_message: to the case as it was found, unless that is closed.
CanAttach(o, c, version) ==
  \/ Same(o, c, version)
  \/ /\ ~ Known(o)
     /\ cases[c].version = version
     /\ cases[c].status # "closed"
     /\ c \notin linked[o[1]]

Attach(o, c, version) ==
  IF Known(o) THEN UNCHANGED <<cases, linked, remembered>>
  ELSE /\ cases' = Moved(c, cases[c].status)
       /\ linked' = [linked EXCEPT ![o[1]] = @ \cup {c}]
       /\ remembered' = [remembered EXCEPT ![o] = [case |-> c, version |-> version]]

-----------------------------------------------------------------------------

\* The author of a case starts its poll or drops it, once.
MayConfirm(a, c) == cases[c].status = "awaiting_confirmation" /\ Origin(c) = a

Confirm(c, yes) == cases' = Moved(c, IF yes THEN "detected" ELSE "closed")

\* Mutant: the case waits for a poll that is not opened.
OpenPollForgotten(c) == cases' = Moved(c, "collecting") /\ UNCHANGED poll

\* A confirmed problem is put to the residents it concerns, if there are any.
OpenPoll(c) ==
  \/ /\ cases' = Moved(c, "collecting")
     /\ poll' = [poll EXCEPT ![c] = "open"]
  \/ /\ cases' = Moved(c, "needs_evidence")
     /\ UNCHANGED poll

\* The result of the poll, which compares no version, decides a case that waits.
Decide(c) == cases' = Moved(c, poll[c])
=============================================================================
