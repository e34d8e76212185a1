---------------------------- MODULE DocumentsProofs ----------------------------
(***************************************************************************)
(* What rows record can be read, and what nobody finds again is left by    *)
(* crashes, for any documents, photos, attempts and faults; and the rows   *)
(* of the documents are a work table like the others.                      *)
(*                                                                         *)
(* Every attempt has a file of its own, of which it alone knows how much   *)
(* is on disk while it is at work; what expires belongs to attempts that   *)
(* are over, and what is recorded to one that is done.                     *)
(***************************************************************************)
EXTENDS Documents, TLAPS

\* Attempts that a document has not come to have not begun.
Counted ==
  \A d \in Document, n \in 1..MaxAttempts :
    n > document[d].attempts => stage[<<d, n>>] = "none"

\* What an attempt has on disk in each of its stages.
OnDiskOf(a) ==
  /\ stage[a] \in {"none", "work"} => a \notin content \cup metadata
  /\ stage[a] = "metadata" => a \in content \ metadata
  /\ stage[a] \in {"record", "delete"} => a \in content \cap metadata
  /\ stage[a] = "delete rest" => a \notin metadata

OnDisk == \A a \in Attempt : OnDiskOf(a)

\* What expires belongs to an attempt that is over, and only that is purged.
Terms ==
  /\ \A a \in expired : stage[a] \notin AtWork \cup {"none"}
  /\ keeper.file \in expired \cup {None}
  /\ keeper.step = "delete rest" => keeper.file # None

\* What is recorded is the work of an attempt that is done.
Recorded(a) ==
  \/ a[1] \in Photo /\ evidence[a[1]] = a
  \/ a[1] \in Document /\ document[a[1]].status = "ready" /\ document[a[1]].attempts = a[2]

RecordedIsDone == \A a \in Attempt : Recorded(a) => stage[a] = "done"

IInv ==
  /\ TypeOK /\ Counted /\ OnDisk /\ Terms /\ RecordedIsDone
  /\ RecordedFilesAreReadable /\ LeftoversAreOfCrashes

-----------------------------------------------------------------------------
(* The steps *)

LEMMA AttemptsArePairs ==
  /\ \A d \in Document \cup Photo, n \in 1..MaxAttempts : <<d, n>> \in Attempt
  /\ \A a \in Attempt : a = <<a[1], a[2]>> /\ a[1] \in Document \cup Photo /\ a[2] \in 1..MaxAttempts
<1>1. \A a \in Attempt : a = <<a[1], a[2]>> /\ a[1] \in Document \cup Photo /\ a[2] \in 1..MaxAttempts
  BY DEF Attempt
<1> QED
  BY <1>1 DEF Attempt

\* A row as the database has it.
DocumentRow == [status : {"none", "queued", "rendering", "ready", "failed"},
                attempts : 0..MaxAttempts, leased : BOOLEAN]

LEMMA RowsCount ==
  ASSUME TypeOK
  PROVE  /\ MaxAttempts \in Nat
         /\ \A d \in Document : document[d].attempts \in Nat
<1>1. MaxAttempts \in Nat
  BY DocumentAssumption
<1>2. document \in [Document -> DocumentRow]
  BY DEF TypeOK, DocumentRow
<1>3. \A d \in Document : document[d] \in DocumentRow
  BY <1>2
<1>4. \A r \in DocumentRow : r.attempts \in 0..MaxAttempts
  BY DEF DocumentRow
<1> QED
  BY <1>1, <1>3, <1>4

LEMMA InitKeeps ==
  ASSUME Init
  PROVE  IInv
<1> USE DEF Init, FilesInit
<1>1. TypeOK
  <2>1. document \in [Document -> [status : {"none", "queued", "rendering", "ready", "failed"},
                                   attempts : 0..MaxAttempts, leased : BOOLEAN]]
    BY DocumentAssumption
  <2>2. stage \in [Attempt -> Stage] /\ seen \in [Attempt -> Nat]
        /\ evidence \in [Photo -> Attempt \cup {None}]
    BY DEF Stage
  <2>3. keeper \in [step : {"idle", "look", "delete rest"}, todo : SUBSET Attempt,
                    file : Attempt \cup {None}]
    BY DEF Resting
  <2> QED
    BY <2>1, <2>2, <2>3 DEF TypeOK, FilesTypeOK
<1>2. Counted /\ OnDisk /\ Terms
  BY DEF Counted, OnDisk, OnDiskOf, Terms, Resting, Attempt
<1>3. RecordedIsDone /\ RecordedFilesAreReadable /\ LeftoversAreOfCrashes
  <2>1. None \notin Attempt
    BY DocumentAssumption
  <2>2. \A a \in Attempt : ~ Recorded(a)
    BY <2>1 DEF Recorded
  <2> QED
    BY <2>2 DEF RecordedIsDone, Recorded, RecordedFilesAreReadable, LeftoversAreOfCrashes
<1> QED
  BY <1>1, <1>2, <1>3 DEF IInv

\* Steps that touch neither files, attempts, their records nor the keeper.
LEMMA QuietKeeps ==
  ASSUME IInv, TypeOK', UNCHANGED <<stage, fileVars, keeper, evidence>>,
         \A d \in Document :
           /\ document'[d].attempts >= document[d].attempts
           /\ document'[d].status = "ready" =>
                document[d].status = "ready" /\ document'[d].attempts = document[d].attempts
  PROVE  IInv'
<1> USE DEF IInv, fileVars
<1>1. Counted'
  <2> SUFFICES ASSUME NEW d \in Document, NEW n \in 1..MaxAttempts,
          n > document'[d].attempts
               PROVE  stage[<<d, n>>] = "none"
    BY DEF Counted
  <2>1. document[d].attempts \in 0..MaxAttempts /\ document'[d].attempts \in 0..MaxAttempts
    BY DEF TypeOK
  <2>2. n > document[d].attempts
    BY <2>1, DocumentAssumption
  <2> QED
    BY <2>2 DEF Counted
<1>2. OnDisk' /\ Terms' /\ LeftoversAreOfCrashes'
  BY DEF OnDisk, OnDiskOf, Terms, LeftoversAreOfCrashes
<1>3. \A a \in Attempt : Recorded(a)' => Recorded(a)
  BY DEF Recorded
<1>4. RecordedIsDone'
  BY <1>3 DEF RecordedIsDone
<1>5. RecordedFilesAreReadable'
  BY <1>3 DEF RecordedFilesAreReadable, Recorded, Readable, FileOf
<1> QED
  BY <1>1, <1>2, <1>4, <1>5

\* A step of one attempt, that leaves the files of all others alone.
LEMMA AttemptKeeps ==
  ASSUME IInv, TypeOK', Counted', UNCHANGED <<expired, keeper>>,
         NEW a \in Attempt, stage[a] \in AtWork \cup {"none"},
         \A b \in Attempt \ {a} :
           /\ stage'[b] = stage[b]
           /\ b \in content' <=> b \in content
           /\ b \in metadata' <=> b \in metadata
           /\ Recorded(b)' => Recorded(b),
         Recorded(a)' => stage'[a] = "done" /\ a \in content' \cap metadata',
         OnDiskOf(a)',
         a \in content' \ metadata' => stage'[a] \in {"metadata", "delete rest", "crashed"}
  PROVE  IInv'
<1> USE DEF IInv
<1>1. a \notin expired
  BY DEF Terms
<1>2. OnDisk'
  BY DEF OnDisk, OnDiskOf
<1>3. Terms'
  BY <1>1 DEF Terms, FilesTypeOK, TypeOK
<1>4. RecordedIsDone'
  BY DEF RecordedIsDone
<1>5. RecordedFilesAreReadable'
  BY DEF RecordedFilesAreReadable, Recorded, Readable, FileOf
<1>6. LeftoversAreOfCrashes'
  BY DEF LeftoversAreOfCrashes, TypeOK, FilesTypeOK
<1> QED
  BY <1>2, <1>3, <1>4, <1>5, <1>6

\* A step of the maintenance, which deletes only what has expired.
LEMMA PurgeKeeps ==
  ASSUME IInv, TypeOK', UNCHANGED <<document, evidence, stage>>,
         expired \subseteq expired', content' \subseteq content,
                 metadata' \subseteq metadata,
         content \ expired \subseteq content', metadata \ expired \subseteq metadata',
         Terms', LeftoversAreOfCrashes'
  PROVE  IInv'
<1> USE DEF IInv
<1>1. \A a \in Attempt : stage[a] \in AtWork \cup {"none"} => a \notin expired
  BY DEF Terms
<1>2. OnDisk'
  BY <1>1 DEF OnDisk, OnDiskOf, AtWork, Stage
<1>3. Counted' /\ RecordedIsDone'
  BY DEF Counted, RecordedIsDone, Recorded
<1>4. RecordedFilesAreReadable'
  BY DEF RecordedFilesAreReadable, Readable, FileOf
<1> QED
  BY <1>2, <1>3, <1>4

LEMMA RowsKeep ==
  ASSUME IInv, NEW d \in Document,
         Prepare(d) \/ Send(d) \/ LeaseEnds(d)
  PROVE  IInv'
<1> USE DEF IInv
<1>1. UNCHANGED <<stage, fileVars, keeper, evidence>>
  BY DEF Prepare, Send, LeaseEnds, photoVars, keeperVars
<1>2. TypeOK'
  <2>1. CASE Send(d)
    BY <2>1 DEF Send, photoVars, keeperVars, fileVars,
       TypeOK, FilesTypeOK
  <2>2. CASE Prepare(d)
    BY <2>2 DEF Prepare, photoVars, keeperVars, fileVars,
       TypeOK, FilesTypeOK
  <2>3. CASE LeaseEnds(d)
    BY <2>3 DEF LeaseEnds, photoVars, keeperVars, fileVars,
       TypeOK, FilesTypeOK
  <2> QED
    BY <2>1, <2>2, <2>3
<1>3. \A e \in Document :
        /\ document'[e].attempts >= document[e].attempts
        /\ document'[e].status = "ready" =>
             document[e].status = "ready" /\ document'[e].attempts = document[e].attempts
  <2> SUFFICES ASSUME NEW e \in Document
               PROVE  /\ document'[e].attempts = document[e].attempts
                      /\ document'[e].status = "ready" => document[e].status = "ready"
    <3>1. \A e \in Document : document[e].attempts \in Nat
      BY RowsCount
    <3> QED
      BY <3>1
  <2>1. CASE Send(d)
    BY <2>1 DEF Send
  <2>2. CASE Prepare(d)
    BY <2>2 DEF Prepare, TypeOK
  <2>3. CASE LeaseEnds(d)
    BY <2>3 DEF LeaseEnds, TypeOK
  <2> QED
    BY <2>1, <2>2, <2>3
<1> QED
  BY <1>1, <1>2, <1>3, QuietKeeps

LEMMA GivingUpKeeps ==
  ASSUME IInv, NEW d \in Document, ClaimDocument(d), UNCHANGED stage,
         document' = [document EXCEPT ![d].status = "failed"]
  PROVE  IInv'
<1> USE DEF IInv
<1>1. UNCHANGED <<stage, fileVars, keeper, evidence>>
  BY DEF ClaimDocument, photoVars, keeperVars
<1>2. TypeOK'
  BY DEF ClaimDocument, photoVars, keeperVars, fileVars,
     TypeOK, FilesTypeOK
<1>3. \A e \in Document :
        /\ document[e].attempts \in Nat
        /\ document'[e].attempts = document[e].attempts
        /\ document'[e].status = "ready" => document[e].status = "ready"
  BY RowsCount DEF TypeOK
<1>4. \A e \in Document : document'[e].attempts >= document[e].attempts
  BY <1>3
<1> QED
  BY <1>1, <1>2, <1>3, <1>4, QuietKeeps

LEMMA BeginningKeeps ==
  ASSUME IInv, NEW d \in Document, NEW n \in 1..MaxAttempts, ClaimDocument(d),
         n = document[d].attempts + 1,
         document' = [document EXCEPT ![d] = [status |-> "rendering", attempts |-> n,
                                              leased |-> TRUE]],
         stage' = [stage EXCEPT ![<<d, n>>] = "work"]
  PROVE  IInv'
<1> USE DEF IInv
<1>1. /\ \A e \in Document : document[e].attempts \in Nat
      /\ MaxAttempts \in Nat /\ <<d, n>> \in Attempt
  BY AttemptsArePairs, RowsCount
<1>2. UNCHANGED <<fileVars, keeper, evidence>>
  BY DEF ClaimDocument, photoVars, keeperVars
<1>3. stage[<<d, n>>] = "none"
  BY <1>1 DEF Counted
<1>4. TypeOK'
  <2>1. document \in [Document -> DocumentRow]
    BY DEF TypeOK, DocumentRow
  <2>2. [status |-> "rendering", attempts |-> n, leased |-> TRUE] \in DocumentRow
    BY <1>1 DEF DocumentRow
  <2>3. document' \in [Document -> DocumentRow]
    BY <2>1, <2>2
  <2>4. stage' \in [Attempt -> Stage]
    BY <1>1 DEF TypeOK, Stage
  <2> QED
    BY <2>3, <2>4 DEF DocumentRow, ClaimDocument, photoVars, keeperVars,
       fileVars, TypeOK, FilesTypeOK
<1>5. Counted'
  <2> SUFFICES ASSUME NEW e \in Document, NEW m \in 1..MaxAttempts,
          m > document'[e].attempts
               PROVE  stage'[<<e, m>>] = "none"
    BY DEF Counted
  <2>1. <<e, m>> # <<d, n>> /\ m > document[e].attempts
    <3>1. CASE e = d
      <4>1. document'[d].attempts = n
        BY DEF TypeOK
      <4> QED
        BY <3>1, <4>1, <1>1
    <3>2. CASE e # d
      BY <3>2 DEF TypeOK
    <3> QED
      BY <3>1, <3>2
  <2>2. <<e, m>> \in Attempt
    BY AttemptsArePairs
  <2> QED
    BY <2>1, <2>2 DEF Counted, TypeOK
<1>6. \A b \in Attempt \ {<<d, n>>} : stage'[b] = stage[b]
  BY DEF TypeOK
<1>7. \A b \in Attempt : Recorded(b)' => Recorded(b)
  BY <1>2 DEF Recorded, TypeOK
<1>8. ~ Recorded(<<d, n>>)'
  BY <1>1, <1>3, <1>7 DEF RecordedIsDone
<1>9. OnDiskOf(<<d, n>>)' /\ <<d, n>> \notin content'
  <2>1. <<d, n>> \notin content \cup metadata
    BY <1>1, <1>3 DEF OnDisk, OnDiskOf
  <2>2. stage'[<<d, n>>] = "work"
    BY <1>1 DEF TypeOK
  <2> QED
    BY <2>1, <2>2, <1>2 DEF OnDiskOf, fileVars
<1> QED
  BY <1>1, <1>2, <1>3, <1>4, <1>5, <1>6, <1>7, <1>8, <1>9, AttemptKeeps DEF fileVars

LEMMA ClaimKeeps ==
  ASSUME IInv, NEW d \in Document, ClaimDocument(d)
  PROVE  IInv'
<1> SUFFICES ASSUME NEW n, n = document[d].attempts + 1
             PROVE  IInv'
  OBVIOUS
<1>1. document[d].attempts \in Nat /\ MaxAttempts \in Nat
  BY RowsCount DEF IInv
<1>2. CASE n > MaxAttempts
  BY <1>2, GivingUpKeeps DEF ClaimDocument
<1>3. CASE ~ (n > MaxAttempts)
  BY <1>1, <1>3, BeginningKeeps DEF ClaimDocument, Move
<1> QED
  BY <1>2, <1>3

LEMMA ReleaseKeepsRows ==
  ASSUME TypeOK, NEW a \in Attempt,
                 NEW verdict \in {"ready", "queued", "failed"},
         document' = Released(a, verdict)
  PROVE  /\ document' \in [Document -> DocumentRow]
         /\ \A d \in Document :
              /\ document'[d].attempts = document[d].attempts
              /\ document'[d].status = "ready" =>
                   \/ document[d].status = "ready"
                   \/ verdict = "ready" /\ a = <<d, document[d].attempts>>
<1>1. document \in [Document -> DocumentRow]
  BY DEF TypeOK, DocumentRow
<1>2. a = <<a[1], a[2]>>
  BY AttemptsArePairs
<1>3. CASE Holds(a)
  <2>1. /\ document' = [document EXCEPT ![a[1]].status = verdict, ![a[1]].leased = FALSE]
        /\ a[1] \in Document /\ document[a[1]].attempts = a[2]
    BY <1>3 DEF Released, Holds
  <2>2. document' \in [Document -> DocumentRow]
    BY <1>1, <2>1 DEF DocumentRow
  <2> QED
    BY <1>1, <1>2, <2>1, <2>2
<1>4. CASE ~ Holds(a)
  BY <1>1, <1>4 DEF Released
<1> QED
  BY <1>3, <1>4

\* An attempt goes from one stage to another, with what it does to its file and
\* to the row it records it in.
LEMMA StepKeeps ==
  ASSUME IInv, UNCHANGED <<sent, assessed, keeperVars, expired>>,
         NEW a \in Attempt, NEW to \in Stage \ {"none"},
         stage[a] \in AtWork \/ (stage[a] = "none" /\ a[1] \in Photo),
         stage' = [stage EXCEPT ![a] = to],
         seen' \in [Attempt -> Nat], case' \in [version : Nat, open : BOOLEAN],
         content' \subseteq Attempt, metadata' \subseteq Attempt,
         \A b \in Attempt \ {a} :
           /\ b \in content' <=> b \in content
           /\ b \in metadata' <=> b \in metadata,
         to = "work" => a \notin content' \cup metadata',
         to = "metadata" => a \in content' \ metadata',
         to \in {"record", "delete"} => a \in content' \cap metadata',
         to = "delete rest" => a \notin metadata',
         a \in content' \ metadata' => to \in {"metadata", "delete rest", "crashed"},
         document' \in [Document -> DocumentRow],
         \A d \in Document :
           /\ document'[d].attempts = document[d].attempts
           /\ document'[d].status = "ready" =>
                \/ document[d].status = "ready"
                \/ a = <<d, document[d].attempts>> /\ to = "done" /\ a \in content' \cap metadata',
         evidence' \in [Photo -> Attempt \cup {None}],
         \A p \in Photo :
           \/ evidence'[p] = evidence[p]
           \/ evidence'[p] = a /\ to = "done" /\ a \in content' \cap metadata'
  PROVE  IInv'
<1> USE DEF IInv
<1>1. TypeOK'
  <2>1. stage' \in [Attempt -> Stage]
    BY DEF TypeOK
  <2> QED
    BY <2>1 DEF TypeOK, DocumentRow, FilesTypeOK, keeperVars
<1>2. stage'[a] = to /\ \A b \in Attempt \ {a} : stage'[b] = stage[b]
  BY DEF TypeOK
<1>3. Counted'
  <2> SUFFICES ASSUME NEW d \in Document, NEW n \in 1..MaxAttempts,
          n > document'[d].attempts
               PROVE  stage'[<<d, n>>] = "none"
    BY DEF Counted
  <2>1. stage[<<d, n>>] = "none" /\ <<d, n>> \in Attempt
    BY AttemptsArePairs DEF Counted
  <2>2. CASE stage[a] \in AtWork
    BY <1>2, <2>1, <2>2 DEF AtWork
  <2>3. CASE a[1] \in Photo
    <3>1. a[1] \notin Document
      BY <2>3, DocumentAssumption
    <3> QED
      BY <1>2, <2>1, <3>1, AttemptsArePairs
  <2> QED
    BY <2>2, <2>3
<1>4. stage[a] # "done" /\ stage[a] \in AtWork \cup {"none"}
  BY DEF AtWork
<1>5. ~ Recorded(a)
  BY <1>4 DEF RecordedIsDone
<1>6. \A b \in Attempt : Recorded(b)' =>
        \/ Recorded(b)
        \/ b = a /\ to = "done" /\ a \in content' \cap metadata'
  <2> SUFFICES ASSUME NEW b \in Attempt, Recorded(b)', ~ Recorded(b)
               PROVE  b = a /\ to = "done" /\ a \in content' \cap metadata'
    OBVIOUS
  <2>1. b = <<b[1], b[2]>>
    BY AttemptsArePairs
  <2>2. CASE b[1] \in Photo /\ evidence'[b[1]] = b
    BY <2>2 DEF Recorded
  <2>3. CASE b[1] \in Document /\ document'[b[1]].status = "ready" /\ document'[b[1]].attempts = b[2]
    BY <2>1, <2>3 DEF Recorded
  <2> QED
    BY <2>2, <2>3 DEF Recorded
<1>7. OnDiskOf(a)'
  BY <1>2 DEF OnDiskOf
<1> QED
  BY <1>1, <1>2, <1>3, <1>4, <1>5, <1>6, <1>7, AttemptKeeps DEF keeperVars

\* A failure releases the row, if it is still held, and ends the attempt.
LEMMA FailKeeps ==
  ASSUME IInv, NEW a \in Attempt, stage[a] \in AtWork, Fail(a),
         UNCHANGED <<sent, case, evidence, assessed, keeperVars, metadata, expired>>,
         content' \subseteq content, content \ {a} \subseteq content',
         a \in content' => a \in metadata
  PROVE  IInv'
<1> USE DEF IInv
<1>1. PICK verdict \in {"ready", "queued", "failed"} : verdict # "ready" /\ document' = Released(a, verdict)
  BY DEF Fail
<1>2. stage' = [stage EXCEPT ![a] = "failed"] /\ seen' = [seen EXCEPT ![a] = 0]
  BY DEF Fail, Move
<1>3. seen' \in [Attempt -> Nat] /\ case' \in [version : Nat, open : BOOLEAN]
      /\ content' \subseteq Attempt /\ metadata' \subseteq Attempt
      /\ evidence' \in [Photo -> Attempt \cup {None}]
  BY <1>2 DEF TypeOK, FilesTypeOK
<1>4. /\ document' \in [Document -> DocumentRow]
      /\ \A d \in Document :
           /\ document'[d].attempts = document[d].attempts
           /\ document'[d].status = "ready" => document[d].status = "ready"
  BY <1>1, ReleaseKeepsRows
<1> QED
  BY <1>2, <1>3, <1>4, StepKeeps DEF Stage

LEMMA StoresKeeps ==
  ASSUME IInv, NEW a \in Attempt, stage[a] = "work", Stores(a),
         UNCHANGED <<sent, case, evidence, assessed, keeperVars>>
  PROVE  IInv'
<1> USE DEF IInv
<1>1. a \notin content \cup metadata
  BY DEF OnDisk, OnDiskOf
<1>2. /\ content' = content \cup {a} /\ stage' = [stage EXCEPT ![a] = "metadata"]
      /\ UNCHANGED <<metadata, expired, document, seen>>
  BY DEF Stores, WriteContent, FileOf, Move
<1>3. /\ seen' \in [Attempt -> Nat] /\ case' \in [version : Nat, open : BOOLEAN]
      /\ content' \subseteq Attempt /\ metadata' \subseteq Attempt
      /\ evidence' \in [Photo -> Attempt \cup {None}]
      /\ document' \in [Document -> DocumentRow]
  BY <1>2 DEF TypeOK, FilesTypeOK, DocumentRow
<1> QED
  BY <1>1, <1>2, <1>3, StepKeeps DEF Stage, AtWork

LEMMA RenderKeeps ==
  ASSUME IInv, NEW a \in Attempt, Render(a) \/ Download(a)
  PROVE  IInv'
<1>1. /\ stage[a] = "work"
      /\ Stores(a) \/ FailsEarly(a)
      /\ UNCHANGED <<sent, case, evidence, assessed, keeperVars>>
  BY DEF Render, Download
<1>2. CASE Stores(a)
  BY <1>1, <1>2, StoresKeeps
<1>3. CASE FailsEarly(a)
  <2>1. a \notin content
    BY <1>1 DEF IInv, OnDisk, OnDiskOf
  <2> QED
    BY <1>1, <1>3, <2>1, FailKeeps DEF FailsEarly, fileVars, AtWork,
       Stage
<1> QED
  BY <1>1, <1>2, <1>3

LEMMA StoreKeeps ==
  ASSUME IInv, NEW a \in Attempt, Store(a)
  PROVE  IInv'
<1> USE DEF IInv
<1>1. a \in content \ metadata /\ stage[a] = "metadata"
  BY DEF Store, OnDisk, OnDiskOf
<1>2. CASE WriteMetadata(a) /\ Move(a, "record") /\ UNCHANGED <<document, seen>>
  <2>1. /\ metadata' = metadata \cup {a} /\ stage' = [stage EXCEPT ![a] = "record"]
        /\ UNCHANGED <<content, expired, document, seen, sent, case, evidence, assessed, keeperVars>>
    BY <1>2 DEF Store, WriteMetadata, Move
  <2>2. /\ seen' \in [Attempt -> Nat] /\ case' \in [version : Nat, open : BOOLEAN]
        /\ content' \subseteq Attempt /\ metadata' \subseteq Attempt
        /\ evidence' \in [Photo -> Attempt \cup {None}]
        /\ document' \in [Document -> DocumentRow]
    BY <2>1 DEF TypeOK, FilesTypeOK, DocumentRow
  <2> QED
    BY <1>1, <2>1, <2>2, StepKeeps DEF Stage, AtWork
<1>3. CASE TakeBack(a) /\ Fail(a)
  BY <1>1, <1>3, FailKeeps DEF Store, TakeBack, AtWork, Stage
<1> QED
  BY <1>2, <1>3 DEF Store, FileOf

LEMMA FinishKeeps ==
  ASSUME IInv, NEW a \in Attempt, Finish(a)
  PROVE  IInv'
<1> USE DEF IInv
<1>1. a \in content \cap metadata /\ stage[a] = "record"
  BY DEF Finish, OnDisk, OnDiskOf
<1>2. CASE document' = Released(a, "ready") /\ Move(a, "done") /\ UNCHANGED seen
  <2>1. /\ stage' = [stage EXCEPT ![a] = "done"]
        /\ UNCHANGED <<content, metadata, expired, seen, sent, case, evidence, assessed, keeperVars>>
    BY <1>2 DEF Finish, Move, fileVars
  <2>2. /\ seen' \in [Attempt -> Nat] /\ case' \in [version : Nat, open : BOOLEAN]
        /\ content' \subseteq Attempt /\ metadata' \subseteq Attempt
        /\ evidence' \in [Photo -> Attempt \cup {None}]
    BY <2>1 DEF TypeOK, FilesTypeOK
  <2>3. /\ document' \in [Document -> DocumentRow]
        /\ \A d \in Document :
             /\ document'[d].attempts = document[d].attempts
             /\ document'[d].status = "ready" =>
                  document[d].status = "ready" \/ a = <<d, document[d].attempts>>
    BY <1>2, ReleaseKeepsRows
  <2> QED
    BY <1>1, <2>1, <2>2, <2>3, StepKeeps DEF Stage, AtWork
<1>3. CASE Fail(a)
  BY <1>1, <1>3, FailKeeps DEF Finish, fileVars, AtWork, Stage
<1> QED
  BY <1>2, <1>3 DEF Finish

LEMMA AddPhotoKeeps ==
  ASSUME IInv, NEW a \in Attempt, AddPhoto(a)
  PROVE  IInv'
<1> USE DEF IInv
<1>1. a \in content \cap metadata /\ stage[a] = "record" /\ a[1] \in Photo
  BY DEF AddPhoto, OnDisk, OnDiskOf
<1>2. PICK to \in {"done", "delete"} :
        /\ stage' = [stage EXCEPT ![a] = to]
        /\ to = "delete" => UNCHANGED <<case, evidence>>
        /\ to = "done" => /\ evidence' = [evidence EXCEPT ![a[1]] = a]
                          /\ case' = [case EXCEPT !.version = @ + 1]
  BY DEF AddPhoto, Move
<1>3. /\ seen' = [seen EXCEPT ![a] = 0]
      /\ UNCHANGED <<content, metadata, expired, document, sent, assessed, keeperVars>>
  BY DEF AddPhoto, fileVars
<1>4. /\ seen' \in [Attempt -> Nat]
      /\ content' \subseteq Attempt /\ metadata' \subseteq Attempt
      /\ document' \in [Document -> DocumentRow]
  BY <1>3 DEF TypeOK, FilesTypeOK, DocumentRow
<1>5. case' \in [version : Nat, open : BOOLEAN] /\ evidence' \in [Photo -> Attempt \cup {None}]
  <2>1. case \in [version : Nat, open : BOOLEAN] /\ evidence \in [Photo -> Attempt \cup {None}]
    BY DEF TypeOK
  <2>2. CASE to = "done"
    BY <1>2, <2>1, <2>2
  <2>3. CASE to = "delete"
    BY <1>2, <2>1, <2>3
  <2> QED
    BY <2>2, <2>3
<1>6. \A p \in Photo : evidence'[p] = evidence[p] \/ (evidence'[p] = a /\ to = "done")
  BY <1>2 DEF TypeOK
<1>7. to \in Stage \ {"none"} /\ stage[a] \in AtWork
  BY <1>1 DEF Stage, AtWork
<1> QED
  BY <1>1, <1>2, <1>3, <1>4, <1>5, <1>6, <1>7, StepKeeps

LEMMA DeletePhotoKeeps ==
  ASSUME IInv, NEW a \in Attempt, DeletePhoto(a)
  PROVE  IInv'
<1> USE DEF IInv
<1>1. /\ UNCHANGED <<document, sent, case, evidence, assessed, seen, keeperVars>>
  BY DEF DeletePhoto, photoVars
<1>2. /\ seen' \in [Attempt -> Nat] /\ case' \in [version : Nat, open : BOOLEAN]
      /\ evidence' \in [Photo -> Attempt \cup {None}]
      /\ document' \in [Document -> DocumentRow]
      /\ content \subseteq Attempt /\ metadata \subseteq Attempt
  BY <1>1 DEF TypeOK, FilesTypeOK, DocumentRow
<1>3. CASE stage[a] = "delete" /\ Readable(a) /\ Delete(a, 1) /\ Move(a, "delete rest")
  <2>1. /\ metadata' = metadata \ {a} /\ stage' = [stage EXCEPT ![a] = "delete rest"]
        /\ UNCHANGED <<content, expired>>
    BY <1>3 DEF Delete, DeleteOrder, Move
  <2> QED
    BY <1>1, <1>2, <1>3, <2>1, StepKeeps DEF Stage, AtWork
<1>4. CASE stage[a] = "delete" /\ ~ Readable(a)
  BY <1>4 DEF Readable, OnDisk, OnDiskOf
<1>5. CASE stage[a] = "delete rest" /\ Delete(a, 2) /\ Move(a, "done")
  <2>1. /\ content' = content \ {a} /\ stage' = [stage EXCEPT ![a] = "done"]
        /\ UNCHANGED <<metadata, expired>>
    BY <1>5 DEF Delete, DeleteOrder, Move
  <2> QED
    BY <1>1, <1>2, <1>5, <2>1, StepKeeps DEF Stage, AtWork
<1> QED
  BY <1>3, <1>4, <1>5 DEF DeletePhoto, FileOf

LEMMA LoadPhotoKeeps ==
  ASSUME IInv, NEW p \in Photo, NEW n \in 1..MaxAttempts, LoadPhoto(p, n)
  PROVE  IInv'
<1> USE DEF IInv
<1>1. <<p, n>> \in Attempt /\ stage[<<p, n>>] = "none"
  BY AttemptsArePairs DEF LoadPhoto
<1>2. <<p, n>> \notin content \cup metadata
  BY <1>1 DEF OnDisk, OnDiskOf
<1>3. UNCHANGED <<document, sent, case, evidence, assessed, keeperVars, content, metadata, expired>>
  BY DEF LoadPhoto, fileVars
<1>4. PICK to \in {"work", "done"} : stage' = [stage EXCEPT ![<<p, n>>] = to]
  BY DEF LoadPhoto, Move
<1>5. case \in [version : Nat, open : BOOLEAN] /\ seen \in [Attempt -> Nat]
      /\ content \subseteq Attempt /\ metadata \subseteq Attempt
      /\ evidence \in [Photo -> Attempt \cup {None}]
      /\ document \in [Document -> DocumentRow]
  BY DEF TypeOK, FilesTypeOK, DocumentRow
<1>6. seen' \in [Attempt -> Nat]
  <2>1. UNCHANGED seen \/ seen' = [seen EXCEPT ![<<p, n>>] = case.version]
    BY DEF LoadPhoto
  <2> QED
    BY <1>5, <2>1
<1> QED
  BY <1>1, <1>2, <1>3, <1>4, <1>5, <1>6, StepKeeps DEF Stage

LEMMA CrashAttemptKeeps ==
  ASSUME IInv, NEW a \in Attempt, CrashAttempt(a)
  PROVE  IInv'
<1> USE DEF IInv
<1>1. /\ stage[a] \in AtWork
      /\ stage' = [stage EXCEPT ![a] = "crashed"] /\ seen' = [seen EXCEPT ![a] = 0]
      /\ UNCHANGED <<document, sent, case, evidence, assessed, keeperVars, content, metadata, expired>>
  BY DEF CrashAttempt, Move, fileVars
<1>2. /\ seen' \in [Attempt -> Nat] /\ case' \in [version : Nat, open : BOOLEAN]
      /\ evidence' \in [Photo -> Attempt \cup {None}]
      /\ document' \in [Document -> DocumentRow]
      /\ content' \subseteq Attempt /\ metadata' \subseteq Attempt
  BY <1>1 DEF TypeOK, FilesTypeOK, DocumentRow
<1> QED
  BY <1>1, <1>2, StepKeeps DEF Stage

LEMMA CaseKeeps ==
  ASSUME IInv, CloseCase \/ \E p \in Photo : AssessPhoto(p)
  PROVE  IInv'
<1> USE DEF IInv
<1>1. /\ UNCHANGED <<document, sent, evidence, seen, stage, keeper, overdue, fileVars>>
      /\ \/ case' = [case EXCEPT !.version = @ + 1]
         \/ case' = [case EXCEPT !.open = FALSE, !.version = @ + 1]
      /\ assessed' \subseteq Photo
  BY DEF CloseCase, AssessPhoto, keeperVars, TypeOK
<1>2. case' \in [version : Nat, open : BOOLEAN]
  <2>1. case \in [version : Nat, open : BOOLEAN]
    BY DEF TypeOK
  <2>2. CASE case' = [case EXCEPT !.version = @ + 1]
    BY <2>1, <2>2
  <2>3. CASE case' = [case EXCEPT !.open = FALSE, !.version = @ + 1]
    <3>1. case' = [version |-> case.version + 1, open |-> FALSE] /\ case.version \in Nat
      BY <2>1, <2>3
    <3> QED
      BY <3>1
  <2> QED
    BY <1>1, <2>2, <2>3
<1>3. TypeOK'
  BY <1>1, <1>2 DEF TypeOK, FilesTypeOK, fileVars
<1>4. \A d \in Document : document'[d].attempts >= document[d].attempts
  BY <1>1, RowsCount
<1> QED
  BY <1>1, <1>3, <1>4, QuietKeeps

LEMMA KeeperHasExpired ==
  ASSUME IInv
  PROVE  \A a \in content : keeper.file = a => a \in expired
BY DocumentAssumption DEF IInv, Terms, TypeOK, FilesTypeOK

LEMMA ThirtyDaysKeep ==
  ASSUME IInv, ThirtyDays
  PROVE  IInv'
<1> USE DEF IInv
<1>1. /\ expired' = expired \cup metadata
      /\ UNCHANGED <<document, sent, photoVars, stage, keeperVars, content, metadata>>
      /\ \A a \in Attempt : stage[a] \notin AtWork
  BY DEF ThirtyDays
<1>2. TypeOK'
  BY <1>1 DEF TypeOK, FilesTypeOK, photoVars, keeperVars
<1>3. Terms'
  <2>1. \A a \in metadata : stage[a] # "none" /\ stage[a] \notin AtWork
    BY <1>1 DEF OnDisk, OnDiskOf, TypeOK, FilesTypeOK
  <2> QED
    BY <1>1, <2>1 DEF Terms, keeperVars
<1>4. LeftoversAreOfCrashes'
  BY <1>1 DEF LeftoversAreOfCrashes, keeperVars
<1> QED
  BY <1>1, <1>2, <1>3, <1>4, PurgeKeeps DEF photoVars

LEMMA MaintainKeeps ==
  ASSUME IInv, Maintain
  PROVE  IInv'
<1> USE DEF IInv
<1>1. UNCHANGED <<document, sent, photoVars, stage>>
  BY DEF Maintain
<1>2. CASE StartPurge \/ Redact
  <2>1. /\ UNCHANGED fileVars /\ keeper'.file = None /\ keeper'.step # "delete rest"
        /\ keeper' \in [step : {"idle", "look", "delete rest"}, todo : SUBSET Attempt,
                        file : Attempt \cup {None}]
        /\ overdue' \in BOOLEAN
    <3>1. CASE StartPurge
      <4>1. keeper' = [step |-> "look", todo |-> metadata, file |-> None]
        BY <3>1 DEF StartPurge, Resting
      <4>2. metadata \in SUBSET Attempt
        BY DEF TypeOK, FilesTypeOK
      <4>3. UNCHANGED fileVars /\ overdue' = TRUE
        BY <3>1 DEF StartPurge
      <4> QED
        BY <4>1, <4>2, <4>3
    <3>2. CASE Redact
      BY <3>2 DEF Redact, Resting
    <3> QED
      BY <1>2, <3>1, <3>2
  <2>2. TypeOK' /\ Terms'
    BY <1>1, <2>1 DEF TypeOK, FilesTypeOK, photoVars, fileVars,
       Terms
  <2>3. LeftoversAreOfCrashes'
    BY <1>1, <2>1, KeeperHasExpired DEF LeftoversAreOfCrashes, fileVars
  <2> QED
    BY <1>1, <2>1, <2>2, <2>3, PurgeKeeps DEF fileVars, photoVars
<1>3. ASSUME NEW f \in Attempt, Look(f)
      PROVE  IInv'
  <2>1. CASE ~ Readable(f) /\ keeper' = Resting /\ UNCHANGED fileVars
    <3>1. keeper'.file = None /\ keeper'.step = "idle" /\ UNCHANGED overdue
          /\ keeper' \in [step : {"idle", "look", "delete rest"}, todo : SUBSET Attempt,
                          file : Attempt \cup {None}]
      BY <1>3, <2>1 DEF Resting, Look
    <3>2. TypeOK' /\ Terms'
      BY <1>1, <2>1, <3>1 DEF TypeOK, FilesTypeOK, photoVars,
         fileVars, Terms
    <3>3. LeftoversAreOfCrashes'
      BY <1>1, <2>1, KeeperHasExpired DEF LeftoversAreOfCrashes, fileVars
    <3> QED
      BY <1>1, <2>1, <3>2, <3>3, PurgeKeeps DEF fileVars, photoVars
  <2>2. CASE keeper' = [keeper EXCEPT !.todo = @ \ {f}] /\ UNCHANGED fileVars
    <3>1. keeper'.file = keeper.file /\ keeper'.step = keeper.step /\ UNCHANGED overdue
          /\ keeper' \in [step : {"idle", "look", "delete rest"}, todo : SUBSET Attempt,
                          file : Attempt \cup {None}]
      BY <1>3, <2>2 DEF TypeOK, Look
    <3>2. TypeOK' /\ Terms'
      BY <1>1, <2>2, <3>1 DEF TypeOK, FilesTypeOK, photoVars,
         fileVars, Terms
    <3>3. LeftoversAreOfCrashes'
      BY <1>1, <2>2, <3>1 DEF LeftoversAreOfCrashes, fileVars
    <3> QED
      BY <1>1, <2>2, <3>2, <3>3, PurgeKeeps DEF fileVars, photoVars
  <2>3. CASE /\ f \in expired /\ Delete(f, 1)
             /\ keeper' = [step |-> "delete rest", todo |-> keeper.todo \ {f}, file |-> f]
    <3>1. keeper'.file = f /\ UNCHANGED overdue
          /\ keeper' \in [step : {"idle", "look", "delete rest"}, todo : SUBSET Attempt,
                          file : Attempt \cup {None}]
      BY <1>3, <2>3 DEF TypeOK, Look
    <3>2. metadata' = metadata \ {f} /\ UNCHANGED <<content, expired>>
      BY <2>3 DEF Delete, DeleteOrder
    <3>3. TypeOK'
      BY <1>1, <3>1, <3>2 DEF TypeOK, FilesTypeOK, photoVars
    <3>4. Terms'
      BY <1>1, <1>3, <2>3, <3>1, <3>2, DocumentAssumption DEF Terms
    <3>5. LeftoversAreOfCrashes'
      BY <1>1, <2>3, <3>1, <3>2, KeeperHasExpired DEF LeftoversAreOfCrashes
    <3> QED
      BY <1>1, <2>3, <3>2, <3>3, <3>4, <3>5, PurgeKeeps DEF photoVars
  <2> QED
    BY <1>3, <2>1, <2>2, <2>3 DEF Look
<1>4. CASE DeleteRest
  <2>1. /\ content' = content \ {keeper.file} /\ UNCHANGED <<metadata, expired, overdue>>
        /\ keeper.file \in expired
        /\ keeper' = [keeper EXCEPT !.step = "look", !.file = None]
    BY <1>4 DEF DeleteRest, Delete, DeleteOrder, Terms
  <2>2. /\ keeper'.file = None /\ keeper'.step = "look"
        /\ keeper' \in [step : {"idle", "look", "delete rest"}, todo : SUBSET Attempt,
                        file : Attempt \cup {None}]
    BY <2>1 DEF TypeOK
  <2>3. TypeOK' /\ Terms'
    BY <1>1, <2>1, <2>2 DEF TypeOK, FilesTypeOK, photoVars, Terms
  <2>4. LeftoversAreOfCrashes'
    BY <1>1, <2>1 DEF LeftoversAreOfCrashes
  <2> QED
    BY <1>1, <2>1, <2>3, <2>4, PurgeKeeps DEF photoVars
<1> QED
  BY <1>2, <1>3, <1>4 DEF Maintain

LEMMA CrashKeeperKeeps ==
  ASSUME IInv, CrashKeeper
  PROVE  IInv'
<1> USE DEF IInv
<1>1. /\ UNCHANGED <<document, sent, photoVars, stage, overdue, fileVars>>
      /\ keeper' = Resting
  BY DEF CrashKeeper
<1>2. keeper'.file = None /\ keeper'.step = "idle"
      /\ keeper' \in [step : {"idle", "look", "delete rest"}, todo : SUBSET Attempt,
                      file : Attempt \cup {None}]
  BY <1>1 DEF Resting
<1>3. TypeOK' /\ Terms'
  BY <1>1, <1>2 DEF TypeOK, FilesTypeOK, photoVars, fileVars, Terms
<1>4. LeftoversAreOfCrashes'
  BY <1>1, KeeperHasExpired DEF LeftoversAreOfCrashes, fileVars
<1> QED
  BY <1>1, <1>3, <1>4, PurgeKeeps DEF fileVars, photoVars

LEMMA StutterKeeps ==
  ASSUME IInv, UNCHANGED vars
  PROVE  IInv'
<1>1. TypeOK'
  BY DEF IInv, TypeOK, FilesTypeOK, vars, photoVars,
     keeperVars, fileVars
<1>2. \A d \in Document : document'[d].attempts >= document[d].attempts
  BY RowsCount DEF IInv, vars
<1> QED
  BY <1>1, <1>2, QuietKeeps DEF IInv, vars, photoVars, keeperVars

LEMMA NextKeeps ==
  ASSUME IInv, [Next]_vars
  PROVE  IInv'
<1>1. ASSUME NEW d \in Document,
             Prepare(d) \/ ClaimDocument(d) \/ LeaseEnds(d) \/ Send(d)
      PROVE  IInv'
  BY <1>1, RowsKeep, ClaimKeeps
<1>2. ASSUME NEW p \in Photo, NEW n \in 1..MaxAttempts, LoadPhoto(p, n)
      PROVE  IInv'
  BY <1>2, LoadPhotoKeeps
<1>3. ASSUME NEW a \in Attempt, Work(a) \/ CrashAttempt(a)
      PROVE  IInv'
  BY <1>3, RenderKeeps, StoreKeeps, FinishKeeps, AddPhotoKeeps, DeletePhotoKeeps,
     CrashAttemptKeeps DEF Work
<1>4. CASE CloseCase \/ \E p \in Photo : AssessPhoto(p)
  BY <1>4, CaseKeeps
<1>5. CASE ThirtyDays \/ Maintain \/ CrashKeeper
  BY <1>5, ThirtyDaysKeep, MaintainKeeps, CrashKeeperKeeps
<1>6. CASE UNCHANGED vars
  BY <1>6, StutterKeeps
<1> QED
  BY <1>1, <1>2, <1>3, <1>4, <1>5, <1>6 DEF Next

\* The files, the attempts that store them and the rows that record them fit
\* together in every state.
THEOREM DocumentInvariant ==
  Spec => []IInv
<1>1. Init => IInv
  BY InitKeeps
<1>2. IInv /\ [Next]_vars => IInv'
  BY NextKeeps
<1> QED
  BY <1>1, <1>2, PTL DEF Spec

\* The rows, the attempts and the maintenance keep their types.
THEOREM TypeCorrect ==
  Spec => []TypeOK
<1>1. IInv => TypeOK
  BY DEF IInv
<1> QED
  BY <1>1, DocumentInvariant, PTL

\* What is recorded can be read until its term: attempts that were overtaken or
\* lost delete or leave only files of their own, and a purge only what expired.
\* (DocumentWorker._finish, PostgresEvidenceWriter.add, LocalFileStore.purge_expired)
THEOREM WhatIsRecordedCanBeRead ==
  Spec => []RecordedFilesAreReadable
<1>1. IInv => RecordedFilesAreReadable
  BY DEF IInv
<1> QED
  BY <1>1, DocumentInvariant, PTL

\* Content without metadata, which no purge finds, is left by crashes alone.
THEOREM OnlyCrashesLeave ==
  Spec => []LeftoversAreOfCrashes
<1>1. IInv => LeftoversAreOfCrashes
  BY DEF IInv
<1> QED
  BY <1>1, DocumentInvariant, PTL

-----------------------------------------------------------------------------
(* The documents as a work table *)

\* Only photos are deleted by the attempt that stored them.
PhotosGo == \A a \in Attempt : stage[a] \in {"delete", "delete rest"} => a[1] \in Photo

LEMMA InitPhotosGo == Init => PhotosGo
BY DEF Init, PhotosGo

LEMMA NextPhotosGo ==
  IInv /\ PhotosGo /\ [Next]_vars => PhotosGo'
<1> SUFFICES ASSUME IInv, PhotosGo, [Next]_vars
             PROVE  PhotosGo'
  OBVIOUS
<1>0. stage \in [Attempt -> Stage]
  BY DEF IInv, TypeOK
<1>1. ASSUME NEW a \in Attempt, NEW to, Move(a, to), to \notin {"delete", "delete rest"}
      PROVE  PhotosGo'
  BY <1>0, <1>1 DEF Move, PhotosGo
<1>2. ASSUME NEW a \in Attempt, a[1] \in Photo, NEW to, Move(a, to)
      PROVE  PhotosGo'
  BY <1>0, <1>2 DEF Move, PhotosGo
<1>3. CASE UNCHANGED stage
  BY <1>3 DEF PhotosGo
<1>4. ASSUME NEW d \in Document, ClaimDocument(d)
      PROVE  PhotosGo'
  <2> DEFINE n == document[d].attempts + 1
  <2>1. UNCHANGED stage \/ (n <= MaxAttempts /\ Move(<<d, n>>, "work"))
    BY <1>4, RowsCount DEF ClaimDocument, IInv
  <2>2. n <= MaxAttempts => <<d, n>> \in Attempt
    BY RowsCount DEF IInv, Attempt
  <2>3. CASE n <= MaxAttempts /\ Move(<<d, n>>, "work")
    <3> HIDE DEF n
    <3> QED
      BY <1>1, <2>2, <2>3
  <2> QED
    BY <1>3, <2>1, <2>3
<1>5. ASSUME NEW p \in Photo, NEW n \in 1..MaxAttempts, LoadPhoto(p, n)
      PROVE  PhotosGo'
  BY <1>1, <1>5 DEF LoadPhoto, Attempt
<1>6. ASSUME NEW a \in Attempt, Work(a) \/ CrashAttempt(a)
      PROVE  PhotosGo'
  <2>1. CASE AddPhoto(a)
    BY <1>2, <2>1 DEF AddPhoto
  <2>2. CASE DeletePhoto(a)
    <3>1. a[1] \in Photo
      BY <2>2 DEF DeletePhoto, PhotosGo
    <3> QED
      BY <1>2, <2>2, <3>1 DEF DeletePhoto
  <2>3. CASE Render(a) \/ Download(a) \/ Store(a) \/ Finish(a) \/ CrashAttempt(a)
    <3>1. \E to \in {"metadata", "record", "done", "failed", "crashed"} : Move(a, to)
      BY <2>3 DEF Render, Download, Store, Finish, CrashAttempt, Stores, FailsEarly, Fail
    <3> QED
      BY <1>1, <3>1
  <2> QED
    BY <1>6, <2>1, <2>2, <2>3 DEF Work
<1>7. CASE \/ \E d \in Document : Prepare(d) \/ LeaseEnds(d) \/ Send(d)
           \/ \E p \in Photo : AssessPhoto(p)
           \/ CloseCase \/ ThirtyDays \/ Maintain \/ CrashKeeper \/ UNCHANGED vars
  BY <1>3, <1>7 DEF Prepare, LeaseEnds, Send, AssessPhoto, CloseCase, ThirtyDays, Maintain,
     CrashKeeper, vars
<1> QED
  BY <1>4, <1>5, <1>6, <1>7 DEF Next

\* What leaves the phase and the tries of every document and what is filed alone
\* is no step of the work table.
LEMMA QueueStutters ==
  ASSUME \A d \in Document : PhaseOf(d)' = PhaseOf(d) /\ document'[d].attempts = document[d].attempts,
         UNCHANGED Filed
  PROVE  UNCHANGED Queue!vars
BY DEF Queue!vars

LEMMA FiledStays ==
  ASSUME metadata \cup expired = metadata' \cup expired'
  PROVE  UNCHANGED Filed
BY DEF Filed, FileOf

\* The outcome of an attempt whose lease is held is the verdict on an open item.
LEMMA ReleaseDecides ==
  ASSUME IInv, NEW a \in Attempt, NEW status, document' = Released(a, status), Holds(a)
  PROVE  /\ a[1] \in Document /\ PhaseOf(a[1]) = "open" /\ document[a[1]].attempts = a[2]
         /\ document'[a[1]].status = status
         /\ \A d \in Document : document'[d].attempts = document[d].attempts
         /\ \A d \in Document \ {a[1]} : document'[d] = document[d]
<1>1. document \in [Document -> DocumentRow] /\ a[1] \in Document
  BY DEF IInv, TypeOK, DocumentRow, Holds
<1>2. document[a[1]] = [status |-> "rendering", attempts |-> a[2], leased |-> TRUE]
  BY DEF Holds
<1>3. document' = [document EXCEPT ![a[1]] = [document[a[1]] EXCEPT !.status = status, !.leased = FALSE]]
  BY <1>1 DEF Released
<1> QED
  BY <1>1, <1>2, <1>3 DEF PhaseOf, DocumentRow

\* An attempt that fails has its document tried again, or given up after the last.
LEMMA FailIsQueueStep ==
  ASSUME IInv, NEW a \in Attempt, Fail(a), UNCHANGED Filed
  PROVE  Queue!Next \/ UNCHANGED Queue!vars
<1> DEFINE d == a[1]
           status == IF a[2] = MaxAttempts THEN "failed" ELSE "queued"
<1>1. document' = Released(a, status)
  BY DEF Fail
<1>2. CASE ~ Holds(a)
  BY <1>1, <1>2, QueueStutters DEF Released, PhaseOf
<1>3. CASE Holds(a) /\ a[2] # MaxAttempts
  <2>1. /\ d \in Document /\ PhaseOf(d) = "open" /\ document'[d].status = "queued"
        /\ \A e \in Document : document'[e].attempts = document[e].attempts
        /\ \A e \in Document \ {d} : document'[e] = document[e]
    BY <1>1, <1>3, ReleaseDecides
  <2>2. PhaseOf(d)' = "open" /\ \A e \in Document \ {d} : PhaseOf(e)' = PhaseOf(e)
    BY <2>1 DEF PhaseOf
  <2> QED
    BY <2>1, <2>2, QueueStutters
<1>4. CASE Holds(a) /\ a[2] = MaxAttempts
  <2>1. /\ d \in Document /\ PhaseOf(d) = "open" /\ document[d].attempts = MaxAttempts
        /\ document'[d].status = "failed"
        /\ \A e \in Document : document'[e].attempts = document[e].attempts
        /\ \A e \in Document \ {d} : document'[e] = document[e]
    BY <1>1, <1>4, ReleaseDecides
  <2>2. PhaseOf(d)' = "dead" /\ \A e \in Document \ {d} : PhaseOf(e)' = PhaseOf(e)
    BY <2>1 DEF PhaseOf
  <2>3. Queue!GiveUp(d)
    BY <2>1, <2>2, DocumentAssumption DEF Queue!GiveUp
  <2> QED
    BY <2>1, <2>3 DEF Queue!Next
<1> QED
  BY <1>2, <1>3, <1>4

\* A claim is a try, or the end of one that was the last.
LEMMA ClaimIsQueueStep ==
  ASSUME IInv, NEW d \in Document, ClaimDocument(d)
  PROVE  Queue!Next
<1> DEFINE n == document[d].attempts + 1
           row == [status |-> "rendering", attempts |-> n, leased |-> TRUE]
<1>1. document \in [Document -> DocumentRow] /\ MaxAttempts \in Nat /\ document[d].attempts \in Nat
  BY RowsCount DEF IInv, TypeOK, DocumentRow
<1>2. PhaseOf(d) = "open"
  BY DEF ClaimDocument, Claimable, PhaseOf
<1>3. UNCHANGED Filed
  BY FiledStays DEF ClaimDocument, fileVars
<1>4. CASE n > MaxAttempts
  <2>1. document' = [document EXCEPT ![d].status = "failed"]
    BY <1>4 DEF ClaimDocument
  <2>2. PhaseOf(d)' = "dead" /\ \A e \in Document \ {d} : PhaseOf(e)' = PhaseOf(e)
    BY <1>1, <2>1 DEF PhaseOf, DocumentRow
  <2>3. \A e \in Document : document'[e].attempts = document[e].attempts
    BY <1>1, <2>1 DEF DocumentRow
  <2>4. document[d].attempts >= MaxAttempts
    BY <1>1, <1>4
  <2>5. Queue!GiveUp(d)
    BY <1>2, <1>3, <2>2, <2>3, <2>4 DEF Queue!GiveUp
  <2> QED
    BY <2>5 DEF Queue!Next
<1>5. CASE ~ n > MaxAttempts
  <2>1. document' = [document EXCEPT ![d] = row]
    BY <1>5 DEF ClaimDocument
  <2>2. \A e \in Document : PhaseOf(e)' = PhaseOf(e)
    BY <1>1, <1>2, <2>1 DEF PhaseOf
  <2>3. /\ document'[d].attempts = document[d].attempts + 1
        /\ \A e \in Document \ {d} : document'[e].attempts = document[e].attempts
    BY <1>1, <2>1
  <2>4. Queue!Try(d)
    BY <1>2, <1>3, <2>2, <2>3 DEF Queue!Try
  <2> QED
    BY <2>4 DEF Queue!Next
<1> QED
  BY <1>4, <1>5

\* A file that is complete is the effect of the work.
LEMMA StoreIsQueueStep ==
  ASSUME IInv, NEW a \in Attempt, Store(a)
  PROVE  Queue!Next \/ UNCHANGED Queue!vars
<1>1. a = <<a[1], a[2]>> /\ a[1] \in Document \cup Photo /\ a[2] \in 1..MaxAttempts
  BY AttemptsArePairs
<1>2. CASE TakeBack(FileOf(a)) /\ Fail(a)
  BY <1>2, FiledStays, FailIsQueueStep DEF TakeBack
<1>3. CASE WriteMetadata(FileOf(a)) /\ UNCHANGED document /\ a[1] \in Document
  <2> DEFINE d == a[1]
  <2>1. Filed' = Filed \cup {d}
    BY <1>1, <1>3 DEF WriteMetadata, Filed, FileOf
  <2>2. \A e \in Document : PhaseOf(e)' = PhaseOf(e)
    BY <1>3 DEF PhaseOf
  <2>3. document[d].attempts > 0
    <3>1. stage[<<d, a[2]>>] # "none"
      BY <1>1 DEF Store
    <3>2. ~ a[2] > document[d].attempts
      BY <1>1, <1>3, <3>1 DEF IInv, Counted
    <3> QED
      BY <1>1, <1>3, <3>2, RowsCount DEF IInv
  <2>4. \A e \in Document : PhaseOf(e) \in Queue!Phase
    BY DEF IInv, TypeOK, PhaseOf, Queue!Phase
  <2>5. Queue!Run(d)
    BY <1>3, <2>1, <2>2, <2>3, <2>4 DEF Queue!Run, Queue!Admit
  <2> QED
    BY <1>3, <2>5 DEF Queue!Next
<1>4. CASE WriteMetadata(FileOf(a)) /\ UNCHANGED document /\ a[1] \notin Document
  <2>1. UNCHANGED Filed
    BY <1>1, <1>4 DEF WriteMetadata, Filed, FileOf
  <2> QED
    BY <1>4, <2>1, QueueStutters DEF PhaseOf
<1> QED
  BY <1>2, <1>3, <1>4 DEF Store

\* A document is ready with its file, if the lease is held.
LEMMA FinishIsQueueStep ==
  ASSUME IInv, NEW a \in Attempt, Finish(a)
  PROVE  Queue!Next \/ UNCHANGED Queue!vars
<1> DEFINE d == a[1]
<1>1. a = <<d, a[2]>> /\ d \in Document /\ a[2] \in 1..MaxAttempts
  BY AttemptsArePairs DEF Finish
<1>2. UNCHANGED Filed
  BY FiledStays DEF Finish, fileVars
<1>3. CASE Fail(a)
  BY <1>2, <1>3, FailIsQueueStep
<1>4. CASE document' = Released(a, "ready") /\ ~ Holds(a)
  BY <1>2, <1>4, QueueStutters DEF Released, PhaseOf
<1>5. CASE document' = Released(a, "ready") /\ Holds(a)
  <2>1. /\ PhaseOf(d) = "open" /\ document'[d].status = "ready"
        /\ \A e \in Document : document'[e].attempts = document[e].attempts
        /\ \A e \in Document \ {d} : document'[e] = document[e]
    BY <1>5, ReleaseDecides
  <2>2. PhaseOf(d)' = "done" /\ \A e \in Document \ {d} : PhaseOf(e)' = PhaseOf(e)
    BY <2>1 DEF PhaseOf
  <2>3. d \in Filed
    <3>1. a \in metadata
      BY DEF Finish, IInv, OnDisk, OnDiskOf
    <3> QED
      BY <1>1, <3>1 DEF Filed, FileOf
  <2>4. Queue!Complete(d)
    BY <1>1, <1>2, <2>1, <2>2, <2>3 DEF Queue!Complete
  <2> QED
    BY <1>1, <2>4 DEF Queue!Next
<1> QED
  BY <1>3, <1>4, <1>5 DEF Finish

LEMMA WorkIsQueueStep ==
  ASSUME IInv, PhotosGo, NEW a \in Attempt, Work(a)
  PROVE  Queue!Next \/ UNCHANGED Queue!vars
<1>1. CASE Render(a) \/ Download(a)
  <2>1. UNCHANGED <<metadata, expired>> /\ (Fail(a) \/ UNCHANGED document)
    BY <1>1 DEF Render, Download, Stores, FailsEarly, WriteContent, fileVars
  <2>2. UNCHANGED Filed
    BY <2>1, FiledStays
  <2> QED
    BY <2>1, <2>2, FailIsQueueStep, QueueStutters DEF PhaseOf
<1>2. CASE AddPhoto(a)
  <2>1. UNCHANGED document /\ UNCHANGED Filed
    BY <1>2, FiledStays DEF AddPhoto, fileVars
  <2> QED
    BY <2>1, QueueStutters DEF PhaseOf
<1>3. CASE DeletePhoto(a)
  <2>1. a[1] \notin Document /\ a = <<a[1], a[2]>>
    BY <1>3, DocumentAssumption, AttemptsArePairs DEF DeletePhoto, PhotosGo
  <2>2. /\ UNCHANGED <<document, expired>>
        /\ metadata' = metadata \/ metadata' = metadata \ {a}
    BY <1>3 DEF DeletePhoto, Delete, FileOf, fileVars
  <2>3. \A d \in Document, n \in 1..MaxAttempts : <<d, n>> # a
    BY <2>1
  <2>4. \A d \in Document, n \in 1..MaxAttempts :
          <<d, n>> \in metadata' \cup expired' <=> <<d, n>> \in metadata \cup expired
    BY <2>2, <2>3
  <2>5. UNCHANGED Filed
    BY <2>4 DEF Filed, FileOf
  <2> QED
    BY <2>2, <2>5, QueueStutters DEF PhaseOf
<1> QED
  BY <1>1, <1>2, <1>3, StoreIsQueueStep, FinishIsQueueStep DEF Work

\* The rows of the documents keep the promise of a work table: of two attempts at
\* one document the late one changes nothing, a ready document has had its file
\* stored whole, and none is given up before its last attempt.
\* (PostgresDocuments, DocumentWorker.run_once)
THEOREM DocumentsImplementWorkQueue ==
  Spec => ImplementsWorkQueue
<1>1. Init => Queue!Init
  BY DEF Init, FilesInit, PhaseOf, Filed, Queue!Init
<1>2. IInv /\ PhotosGo /\ [Next]_vars => [Queue!Next]_(Queue!vars)
  <2> SUFFICES ASSUME IInv, PhotosGo, [Next]_vars
               PROVE  Queue!Next \/ UNCHANGED Queue!vars
    OBVIOUS
  <2>1. ASSUME NEW d \in Document, Prepare(d)
        PROVE  Queue!Next
    <3>1. UNCHANGED Filed
      BY <2>1, FiledStays DEF Prepare, fileVars
    <3>2. document \in [Document -> DocumentRow]
      BY DEF IInv, TypeOK, DocumentRow
    <3>3. PhaseOf(d) = "absent" /\ PhaseOf(d)' = "open"
      BY <2>1, <3>2 DEF Prepare, PhaseOf
    <3>4. \A e \in Document : /\ e # d => PhaseOf(e)' = PhaseOf(e)
                              /\ document'[e].attempts = document[e].attempts
      BY <2>1, <3>2 DEF Prepare, PhaseOf, DocumentRow
    <3>5. \A e \in Document : PhaseOf(e) \in Queue!Phase
      BY <3>2 DEF DocumentRow, PhaseOf, Queue!Phase
    <3>6. Queue!Store
      BY <3>1, <3>3, <3>4, <3>5 DEF Queue!Store, Queue!Admit, Queue!Phase
    <3> QED
      BY <3>6 DEF Queue!Next
  <2>2. ASSUME NEW d \in Document, ClaimDocument(d)
        PROVE  Queue!Next
    BY <2>2, ClaimIsQueueStep
  <2>3. ASSUME NEW a \in Attempt, Work(a)
        PROVE  Queue!Next \/ UNCHANGED Queue!vars
    BY <2>3, WorkIsQueueStep
  <2>4. ASSUME NEW d \in Document, LeaseEnds(d)
        PROVE  UNCHANGED Queue!vars
    <3>1. document \in [Document -> DocumentRow] /\ document' = [document EXCEPT ![d].leased = FALSE]
      BY <2>4 DEF LeaseEnds, IInv, TypeOK, DocumentRow
    <3>2. \A e \in Document : PhaseOf(e)' = PhaseOf(e) /\ document'[e].attempts = document[e].attempts
      BY <3>1 DEF PhaseOf, DocumentRow
    <3>3. UNCHANGED Filed
      BY <2>4, FiledStays DEF LeaseEnds, fileVars
    <3> QED
      BY <3>2, <3>3, QueueStutters
  <2>5. CASE \/ \E d \in Document : Send(d)
             \/ \E p \in Photo : AssessPhoto(p) \/ \E n \in 1..MaxAttempts : LoadPhoto(p, n)
             \/ \E a \in Attempt : CrashAttempt(a)
             \/ CloseCase \/ CrashKeeper \/ UNCHANGED vars
    <3>1. UNCHANGED <<document, metadata, expired>>
      BY <2>5 DEF Send, AssessPhoto, LoadPhoto, CrashAttempt, CloseCase, CrashKeeper, fileVars, vars
    <3> QED
      BY <3>1, FiledStays, QueueStutters DEF PhaseOf
  <2>6. CASE ThirtyDays \/ Maintain
    <3>1. UNCHANGED document
      BY <2>6 DEF ThirtyDays, Maintain
    <3>2. ThirtyDays => metadata \cup expired = metadata' \cup expired'
      BY DEF ThirtyDays
    <3>3. StartPurge \/ Redact => metadata \cup expired = metadata' \cup expired'
      BY DEF StartPurge, Redact, fileVars
    <3>4. DeleteRest => metadata \cup expired = metadata' \cup expired'
      BY DEF DeleteRest, Delete, DeleteOrder
    <3>5. ASSUME NEW f \in Attempt, Look(f)
          PROVE  metadata \cup expired = metadata' \cup expired'
      BY <3>5 DEF Look, Delete, DeleteOrder, fileVars
    <3>6. metadata \cup expired = metadata' \cup expired'
      BY <2>6, <3>2, <3>3, <3>4, <3>5 DEF Maintain
    <3> QED
      BY <3>1, <3>6, FiledStays, QueueStutters DEF PhaseOf
  <2> QED
    BY <2>1, <2>2, <2>3, <2>4, <2>5, <2>6 DEF Next
<1>3. IInv /\ PhotosGo /\ [Next]_vars => PhotosGo'
  BY NextPhotosGo
<1> QED
  BY <1>1, <1>2, <1>3, InitPhotosGo, DocumentInvariant, PTL
     DEF Spec, Queue!Spec, ImplementsWorkQueue
=============================================================================
