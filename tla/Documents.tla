------------------------------- MODULE Documents -------------------------------
(***************************************************************************)
(* Who keeps files: the worker that renders documents, the command that    *)
(* adds a photo to a case, and the hourly maintenance, which also removes  *)
(* what residents wrote.  A file is stored before the transaction that     *)
(* records it, by an attempt that may have been overtaken by another or    *)
(* may die at any step, and every attempt draws a key of its own.          *)
(* (application/documents/worker.py, agent/resident_production.py,         *)
(* infrastructure/postgres/case_evidence.py, application/jobs/maintenance) *)
(***************************************************************************)
EXTENDS Naturals, FileStore

CONSTANTS Document,       \* documents that other modules have prepared
          Photo,          \* commands /evidence, each with a photo for the case
          MaxAttempts,    \* tries of a document or of a command
          MaxDisruptions, \* bound on crashes and on leases that run out
          None

Attempt == (Document \cup Photo) \X (1..MaxAttempts)

\* Documents and commands are different rows, and None is no attempt at either.
ASSUME DocumentAssumption ==
  /\ Document \cap Photo = {}
  /\ None \notin Attempt
  /\ MaxAttempts \in Nat \ {0}

VARIABLES document,  \* the rows of the documents
          sent,      \* documents whose file has been delivered
          case,      \* the case of the photos
          evidence,  \* the attempt that recorded each photo
          assessed,  \* photos that their author has judged
          stage,     \* where each attempt is
          seen,      \* the version of the case that an attempt has read
          keeper,    \* the maintenance
          overdue,   \* some payload is older than its term
          disruptions

photoVars == <<case, evidence, assessed, seen>>
keeperVars == <<keeper, overdue>>
vars == <<document, sent, photoVars, stage, keeperVars, disruptions, fileVars>>

Stage == {"none", "work", "metadata", "record", "delete", "delete rest",
          "done", "failed", "crashed"}
AtWork == Stage \ {"none", "done", "failed", "crashed"}

TypeOK ==
  /\ document \in [Document -> [status : {"none", "queued", "rendering", "ready", "failed"},
                                attempts : 0..MaxAttempts, leased : BOOLEAN]]
  /\ sent \subseteq Document
  /\ case \in [version : Nat, open : BOOLEAN]
  /\ evidence \in [Photo -> Attempt \cup {None}]
  /\ assessed \subseteq Photo
  /\ stage \in [Attempt -> Stage]
  /\ seen \in [Attempt -> Nat]
  /\ keeper \in [step : {"idle", "look", "delete rest"}, todo : SUBSET Attempt,
                 file : Attempt \cup {None}]
  /\ overdue \in BOOLEAN
  /\ FilesTypeOK(Attempt)

Resting == [step |-> "idle", todo |-> {}, file |-> None]

Init ==
  /\ document = [d \in Document |-> [status |-> "none", attempts |-> 0, leased |-> FALSE]]
  /\ sent = {}
  /\ case = [version |-> 1, open |-> TRUE]
  /\ evidence = [p \in Photo |-> None] /\ assessed = {}
  /\ stage = [a \in Attempt |-> "none"]
  /\ seen = [a \in Attempt |-> 0]
  /\ keeper = Resting /\ overdue = FALSE
  /\ disruptions = 0
  /\ FilesInit

\* Mutant: the key of the file is that of the command.
FileOfCommand(a) == <<a[1], 1>>

\* Every put draws a key.
FileOf(a) == a

Disturb == disruptions < MaxDisruptions /\ disruptions' = disruptions + 1
Move(a, to) == stage' = [stage EXCEPT ![a] = to]

-----------------------------------------------------------------------------
(* The rows of the documents *)

Prepare(d) ==
  /\ document[d].status = "none"
  /\ document' = [document EXCEPT ![d].status = "queued"]
  /\ UNCHANGED <<sent, photoVars, stage, keeperVars, disruptions, fileVars>>

\* Mutant: a document left behind by its worker is not claimed.
Waiting(d) == document[d].status = "queued"

Claimable(d) ==
  document[d].status = "queued" \/ (document[d].status = "rendering" /\ ~ document[d].leased)

ClaimDocument(d) ==
  LET n == document[d].attempts + 1 IN
  /\ Claimable(d)
  /\ IF n > MaxAttempts
     THEN document' = [document EXCEPT ![d].status = "failed"] /\ UNCHANGED stage
     ELSE /\ document' = [document EXCEPT ![d] = [status |-> "rendering", attempts |-> n,
                                                  leased |-> TRUE]]
          /\ Move(<<d, n>>, "work")
  /\ UNCHANGED <<sent, photoVars, keeperVars, disruptions, fileVars>>

\* The heartbeat holds the lease, unless the worker is dead, or held up.
LeaseEnds(d) ==
  LET row == document[d] IN
  /\ row.status = "rendering" /\ row.leased
  /\ IF stage[<<d, row.attempts>>] \in AtWork THEN Disturb ELSE UNCHANGED disruptions
  /\ document' = [document EXCEPT ![d].leased = FALSE]
  /\ UNCHANGED <<sent, photoVars, stage, keeperVars, fileVars>>

\* _locked_lease
Holds(a) ==
  /\ a[1] \in Document
  /\ document[a[1]] = [status |-> "rendering", attempts |-> a[2], leased |-> TRUE]

\* Mutant: the lease is not looked at again when the outcome is written.
ReleasedUnfenced(a, status) ==
  IF a[1] \in Document THEN [document EXCEPT ![a[1]].status = status, ![a[1]].leased = FALSE]
  ELSE document

Released(a, status) ==
  IF Holds(a) THEN [document EXCEPT ![a[1]].status = status, ![a[1]].leased = FALSE]
  ELSE document

\* _fail, and the raise of a command, which the inbox repeats.
Fail(a) ==
  /\ document' = Released(a, IF a[2] = MaxAttempts THEN "failed" ELSE "queued")
  /\ Move(a, "failed") /\ seen' = [seen EXCEPT ![a] = 0]

\* Outbox has the delivery, which is enqueued with the row.
Send(d) ==
  /\ document[d].status = "ready" /\ d \notin sent
  /\ Readable(FileOf(<<d, document[d].attempts>>))
  /\ sent' = sent \cup {d}
  /\ UNCHANGED <<document, photoVars, stage, keeperVars, disruptions, fileVars>>

-----------------------------------------------------------------------------
(* An attempt stores its file and records it *)

\* /evidence begins, or begins again after a failure, or beside a worker that
\* has lost its lease; it reads the case, unless the photo is there already.
LoadPhoto(p, n) ==
  LET a == <<p, n>>  before == <<p, n - 1>> IN
  /\ stage[a] = "none"
  /\ \/ n = 1 /\ UNCHANGED disruptions
     \/ n > 1 /\ stage[before] \in {"failed", "crashed"} /\ UNCHANGED disruptions
     \/ n > 1 /\ stage[before] \in AtWork /\ Disturb
  /\ IF evidence[p] = None /\ case.open
     THEN Move(a, "work") /\ seen' = [seen EXCEPT ![a] = case.version]
     ELSE Move(a, "done") /\ UNCHANGED seen
  /\ UNCHANGED <<document, sent, case, evidence, assessed, keeperVars, fileVars>>

Stores(a) == WriteContent(FileOf(a)) /\ Move(a, "metadata") /\ UNCHANGED <<document, seen>>
FailsEarly(a) == Fail(a) /\ UNCHANGED fileVars

\* A document is rendered, which may fail, and the lease renewed, which may be
\* lost, before the first part of the file is written;
Render(a) ==
  /\ stage[a] = "work" /\ a[1] \in Document
  /\ (Holds(a) /\ Stores(a)) \/ FailsEarly(a)
  /\ UNCHANGED <<sent, case, evidence, assessed, keeperVars, disruptions>>

\* a photo is downloaded from MAX, which may fail too.
Download(a) ==
  /\ stage[a] = "work" /\ a[1] \in Photo
  /\ Stores(a) \/ FailsEarly(a)
  /\ UNCHANGED <<sent, case, evidence, assessed, keeperVars, disruptions>>

Store(a) ==
  /\ stage[a] = "metadata"
  /\ \/ WriteMetadata(FileOf(a)) /\ Move(a, "record") /\ UNCHANGED <<document, seen>>
     \/ TakeBack(FileOf(a)) /\ Fail(a)
  /\ UNCHANGED <<sent, case, evidence, assessed, keeperVars, disruptions>>

\* _finish: row, delivery and event, if the lease is held.  Without it, or after
\* an error, the file stays behind until it expires.
Finish(a) ==
  /\ stage[a] = "record" /\ a[1] \in Document
  /\ \/ document' = Released(a, "ready") /\ Move(a, "done") /\ UNCHANGED seen
     \/ Fail(a)
  /\ UNCHANGED <<sent, case, evidence, assessed, keeperVars, disruptions, fileVars>>

\* A photo is recorded once, on the version that was read; whatever else happens,
\* or if the message has more than one, what was stored is deleted.
AddPhoto(a) ==
  LET p == a[1] IN
  /\ stage[a] = "record" /\ p \in Photo
  /\ \/ /\ case = [version |-> seen[a], open |-> TRUE] /\ evidence[p] = None
        /\ evidence' = [evidence EXCEPT ![p] = a]
        /\ case' = [case EXCEPT !.version = @ + 1]
        /\ Move(a, "done")
     \/ Move(a, "delete") /\ UNCHANGED <<case, evidence>>
  /\ seen' = [seen EXCEPT ![a] = 0]
  /\ UNCHANGED <<document, sent, assessed, keeperVars, disruptions, fileVars>>

\* A resident who is told of a failure gives the command again.
DeletePhoto(a) ==
  /\ \/ stage[a] = "delete" /\ Readable(FileOf(a)) /\ Delete(FileOf(a), 1) /\ Move(a, "delete rest")
     \/ stage[a] = "delete" /\ ~ Readable(FileOf(a)) /\ Move(a, "failed") /\ UNCHANGED fileVars
     \/ stage[a] = "delete rest" /\ Delete(FileOf(a), 2) /\ Move(a, "done")
  /\ UNCHANGED <<document, sent, photoVars, keeperVars, disruptions>>

CrashAttempt(a) ==
  /\ stage[a] \in AtWork
  /\ Disturb
  /\ Move(a, "crashed") /\ seen' = [seen EXCEPT ![a] = 0]
  /\ UNCHANGED <<document, sent, case, evidence, assessed, keeperVars, fileVars>>

\* Other writes to the case: its author judges a photo, or it is closed.
AssessPhoto(p) ==
  /\ evidence[p] # None /\ p \notin assessed /\ case.open
  /\ assessed' = assessed \cup {p}
  /\ case' = [case EXCEPT !.version = @ + 1]
  /\ UNCHANGED <<document, sent, evidence, seen, stage, keeperVars, disruptions, fileVars>>

CloseCase ==
  /\ case.open
  /\ case' = [case EXCEPT !.open = FALSE, !.version = @ + 1]
  /\ UNCHANGED <<document, sent, evidence, assessed, seen, stage, keeperVars, disruptions, fileVars>>

-----------------------------------------------------------------------------
(* Time and maintenance *)

\* Thirty days, in which all that has begun comes to an end.
ThirtyDays ==
  /\ metadata \ expired # {}
  /\ \A a \in Attempt : stage[a] \notin AtWork
  /\ \A d \in Document : document[d].status \in {"none", "failed"} \/ d \in sent
  /\ expired' = expired \cup metadata
  /\ UNCHANGED <<document, sent, photoVars, stage, keeperVars, disruptions, content, metadata>>

\* The hourly run, by which time there are payloads of events to remove again.
StartPurge ==
  /\ keeper = Resting
  /\ keeper' = [Resting EXCEPT !.step = "look", !.todo = metadata]
  /\ overdue' = TRUE
  /\ UNCHANGED fileVars

\* purge_expired reads every file whose metadata it finds.  One that cannot be
\* read ends the run, for this house and those that follow.
Look(f) ==
  /\ keeper.step = "look" /\ f \in keeper.todo
  /\ \/ ~ Readable(f) /\ keeper' = Resting /\ UNCHANGED fileVars
     \/ /\ Readable(f) /\ f \notin expired
        /\ keeper' = [keeper EXCEPT !.todo = @ \ {f}] /\ UNCHANGED fileVars
     \/ /\ Readable(f) /\ f \in expired /\ Delete(f, 1)
        /\ keeper' = [step |-> "delete rest", todo |-> keeper.todo \ {f}, file |-> f]
  /\ UNCHANGED overdue

DeleteRest ==
  /\ keeper.step = "delete rest" /\ Delete(keeper.file, 2)
  /\ keeper' = [keeper EXCEPT !.step = "look", !.file = None]
  /\ UNCHANGED overdue

\* Only then are the payloads of events and deliveries removed.
Redact ==
  /\ keeper.step = "look" /\ keeper.todo = {}
  /\ keeper' = Resting
  /\ overdue' = FALSE
  /\ UNCHANGED fileVars

CrashKeeper ==
  /\ keeper # Resting /\ Disturb
  /\ keeper' = Resting
  /\ UNCHANGED <<document, sent, photoVars, stage, overdue, fileVars>>

Maintain ==
  /\ StartPurge \/ (\E f \in Attempt : Look(f)) \/ DeleteRest \/ Redact
  /\ UNCHANGED <<document, sent, photoVars, stage, disruptions>>

-----------------------------------------------------------------------------

Work(a) == Render(a) \/ Download(a) \/ Store(a) \/ Finish(a) \/ AddPhoto(a) \/ DeletePhoto(a)

Orphaned(d) ==
  /\ document[d].status = "rendering"
  /\ stage[<<d, document[d].attempts>>] \notin AtWork
  /\ LeaseEnds(d)

Next ==
  \/ \E d \in Document : Prepare(d) \/ ClaimDocument(d) \/ LeaseEnds(d) \/ Send(d)
  \/ \E p \in Photo, n \in 1..MaxAttempts : LoadPhoto(p, n)
  \/ \E a \in Attempt : Work(a) \/ CrashAttempt(a)
  \/ \E p \in Photo : AssessPhoto(p)
  \/ CloseCase
  \/ ThirtyDays
  \/ Maintain
  \/ CrashKeeper

Spec == Init /\ [][Next]_vars

\* Workers and maintenance run for ever, leases of the dead run out, and time passes.
Fairness ==
  /\ WF_vars(\E a \in Attempt : Work(a))
  /\ WF_vars(\E d \in Document : ClaimDocument(d))
  /\ WF_vars(\E d \in Document : Orphaned(d))
  /\ WF_vars(\E d \in Document : Send(d))
  /\ WF_vars(Maintain)
  /\ WF_vars(ThirtyDays)

FairSpec == Spec /\ Fairness

-----------------------------------------------------------------------------
(* The documents as a work table *)

PhaseOf(d) ==
  CASE document[d].status = "none" -> "absent"
    [] document[d].status \in {"queued", "rendering"} -> "open"
    [] document[d].status = "ready" -> "done"
    [] document[d].status = "failed" -> "dead"

\* The work on a document has taken effect when a file of it is complete on disk,
\* for which it may be too late.
Filed == {d \in Document : \E n \in 1..MaxAttempts : FileOf(<<d, n>>) \in metadata \cup expired}

Queue == INSTANCE WorkQueue WITH
  Item <- Document, Perishable <- {}, phase <- [d \in Document |-> PhaseOf(d)],
  tries <- [d \in Document |-> document[d].attempts], ran <- Filed

-----------------------------------------------------------------------------
(* Properties *)

\* A photo that is recorded and a document that is ready can be read until their
\* term, though attempts that lost delete or leave what they have stored.
RecordedFilesAreReadable ==
  \A a \in Attempt \ expired :
    \/ a[1] \in Photo /\ evidence[a[1]] = a
    \/ /\ a[1] \in Document
       /\ document[a[1]].status = "ready" /\ document[a[1]].attempts = a[2]
    => Readable(FileOf(a))

\* Content without metadata, which nothing ever removes, is left only by a crash.
LeftoversAreOfCrashes ==
  \A a \in content \ metadata :
    stage[a] \in {"metadata", "delete rest", "crashed"} \/ keeper.file = a \/ a \in expired

\* A document is ready only with a file that was stored whole, and given up only
\* after its last attempt, and both for good, whichever of its attempts overtake
\* each other: what every work table promises.
ImplementsWorkQueue == Queue!Spec

\* Payloads are removed in the end: no file stops the maintenance for ever.
PayloadsAreRedacted == overdue ~> ~ overdue

\* A document is delivered or given up, whatever its workers go through.
EveryDocumentSettles ==
  \A d \in Document : (document[d].status # "none") ~> (d \in sent \/ document[d].status = "failed")
=============================================================================
