----------------------------- MODULE OutboxProofs -----------------------------
(***************************************************************************)
(* How often a message and its file go to MAX, what is reported of it, and *)
(* in which order its edits wait, for any deliveries, workers, attempts    *)
(* and disruptions.                                                        *)
(*                                                                         *)
(* Copies are an account: what a delivery has sent, what the workers that  *)
(* have it may yet send, and the claim it is open to never exceed one and  *)
(* the disruptions.  A claim moves the last into the second, a call the    *)
(* second into the first, and a retry the second into the last.            *)
(***************************************************************************)
EXTENDS Outbox, FiniteSetTheorems, TLAPS

\* Only a worker that settles has a verdict, and it has one; only a file is
\* uploaded.
Verdictful(row) ==
  IF row.pc = "settling" THEN row.verdict \in Verdict ELSE row.verdict = "none"

Decided ==
  \A w \in Worker : job[w] # Idle =>
    /\ Verdictful(job[w])
    /\ job[w].pc \in {"uploading", "saving"} => job[w].item \in file

\* Without disruptions a worker that has a delivery holds its row.
Held == disruptions = 0 => \A w \in Worker : job[w] # Idle => Holds(w, job[w].item)

\* A delivery that took effect is settled so, or about to be.
Reported ==
  disruptions = 0 =>
    \A i \in carried :
      \/ status[i] \in {"sent", "delivery_unknown"}
      \/ \E w \in Worker : /\ job[w].item = i /\ job[w].pc = "settling"
                           /\ job[w].verdict \in {"sent", "delivery_unknown"}

\* Deliveries are ranked as they were stored; a row that was claimed shows it.
Ranked ==
  \A i \in Delivery : /\ rank[i] <= Cardinality(Stored)
                      /\ status[i] = "processing" => attempts[i] > 0

\* No edit that nobody has tried is older than another of its message, and one
\* that was superseded is.
InOrder ==
  /\ \A i, j \in Delivery :
       /\ IsEdit(i) /\ Target[i] = Target[j]
       /\ status[i] = "pending" /\ attempts[i] = 0
       => rank[j] <= rank[i]
  /\ \A i \in Delivery :
       IsEdit(i) /\ status[i] = "superseded" =>
         \E j \in Delivery : Target[j] = Target[i] /\ rank[j] > rank[i]

\* A delivery that a worker may take.
Open(i) ==
  \/ status[i] \in {"absent", "pending"}
  \/ status[i] = "processing" /\ ~ leased[i]

One(b) == IF b THEN 1 ELSE 0

\* A worker that may yet send, or have the delivery sent again.
MaySend(row) == row.pc \in {"reading", "uploading", "saving", "calling"} \/ row.verdict = "retry"

Sending(i) == {w \in Worker : job[w].item = i /\ MaySend(job[w])}

\* A worker that may yet upload, or have the file uploaded by another.
MayUpload(row, i) ==
  \/ row.pc = "uploading"
  \/ i \notin token /\ (row.pc \in {"reading", "calling"} \/ row.verdict = "retry")

Uploading(i) == {w \in Worker : job[w].item = i /\ MayUpload(job[w], i)}

Account ==
  \A i \in Delivery :
    /\ IsFiniteSet(Sending(i))
    /\ posts[i] + Cardinality(Sending(i)) + One(Open(i)) <= 1 + disruptions
    /\ uploads[i] + Cardinality(Uploading(i)) + One(i \notin token /\ Open(i))
         <= 1 + disruptions + hidden[i]

IInv == TypeOK /\ Decided /\ Held /\ Reported /\ Ranked /\ InOrder /\ Account

-----------------------------------------------------------------------------
(* The account *)

LEMMA Balance ==
  ASSUME NEW S, NEW T, NEW w, IsFiniteSet(S), S \ {w} = T \ {w}
  PROVE  /\ IsFiniteSet(T) /\ Cardinality(S) \in Nat /\ Cardinality(T) \in Nat
         /\ Cardinality(T) + One(w \in S) = Cardinality(S) + One(w \in T)
<1> DEFINE R == S \ {w}
<1>1. IsFiniteSet(R) /\ w \notin R /\ Cardinality(R) \in Nat
  BY FS_Subset, FS_CardinalityType
<1>2. IsFiniteSet(R \cup {w}) /\ Cardinality(R \cup {w}) = Cardinality(R) + 1
  BY <1>1, FS_AddElement
<1>3. IF w \in S THEN S = R \cup {w} ELSE S = R
  OBVIOUS
<1>4. IF w \in T THEN T = R \cup {w} ELSE T = R
  OBVIOUS
<1> HIDE DEF R
<1>5. Cardinality(S) = Cardinality(R) + One(w \in S)
  <2>1. CASE w \in S
    BY <2>1, <1>2, <1>3 DEF One
  <2>2. CASE w \notin S
    BY <2>2, <1>1, <1>3 DEF One
  <2> QED
    BY <2>1, <2>2
<1>6. Cardinality(T) = Cardinality(R) + One(w \in T) /\ IsFiniteSet(T)
  <2>1. CASE w \in T
    BY <2>1, <1>2, <1>4 DEF One
  <2>2. CASE w \notin T
    BY <2>2, <1>1, <1>4 DEF One
  <2> QED
    BY <2>1, <2>2
<1> QED
  BY <1>1, <1>5, <1>6 DEF One

LEMMA Fewer ==
  ASSUME NEW S, NEW T, IsFiniteSet(S), T \subseteq S
  PROVE  /\ IsFiniteSet(T) /\ Cardinality(S) \in Nat /\ Cardinality(T) \in Nat
         /\ Cardinality(T) <= Cardinality(S)
BY FS_Subset, FS_CardinalityType

\* Who may upload may send.
LEMMA UploadersSend ==
  ASSUME NEW i \in Delivery
  PROVE  Uploading(i) \subseteq Sending(i)
BY DEF Uploading, Sending, MayUpload, MaySend

\* A worker moves: only its own part of the account does.
LEMMA MoveCounts ==
  ASSUME IInv, NEW w \in Worker, NEW row, job' = [job EXCEPT ![w] = row], UNCHANGED token,
         NEW i \in Delivery
  PROVE  /\ IsFiniteSet(Sending(i)')
         /\ Cardinality(Sending(i)) \in Nat /\ Cardinality(Sending(i)') \in Nat
         /\ Cardinality(Uploading(i)) \in Nat /\ Cardinality(Uploading(i)') \in Nat
         /\ Cardinality(Sending(i)') + One(job[w].item = i /\ MaySend(job[w]))
              = Cardinality(Sending(i)) + One(row.item = i /\ MaySend(row))
         /\ Cardinality(Uploading(i)') + One(job[w].item = i /\ MayUpload(job[w], i))
              = Cardinality(Uploading(i)) + One(row.item = i /\ MayUpload(row, i))
<1>1. IsFiniteSet(Sending(i)) /\ IsFiniteSet(Uploading(i))
  BY UploadersSend, FS_Subset DEF IInv, Account
<1>2. job'[w] = row /\ \A v \in Worker \ {w} : job'[v] = job[v]
  BY DEF IInv, TypeOK
<1>3. Sending(i) \ {w} = Sending(i)' \ {w} /\ Uploading(i) \ {w} = Uploading(i)' \ {w}
  BY <1>2 DEF Sending, Uploading, MayUpload
<1>4. /\ (w \in Sending(i)) = (job[w].item = i /\ MaySend(job[w]))
      /\ (w \in Sending(i)') = (row.item = i /\ MaySend(row))
  BY <1>2 DEF Sending
<1>5. /\ (w \in Uploading(i)) = (job[w].item = i /\ MayUpload(job[w], i))
      /\ (w \in Uploading(i)') = (row.item = i /\ MayUpload(row, i))
  BY <1>2 DEF Uploading, MayUpload
<1>6. /\ IsFiniteSet(Sending(i)')
      /\ Cardinality(Sending(i)) \in Nat /\ Cardinality(Sending(i)') \in Nat
      /\ Cardinality(Sending(i)') + One(w \in Sending(i))
           = Cardinality(Sending(i)) + One(w \in Sending(i)')
  BY <1>1, <1>3, Balance
<1>7. /\ Cardinality(Uploading(i)) \in Nat /\ Cardinality(Uploading(i)') \in Nat
      /\ Cardinality(Uploading(i)') + One(w \in Uploading(i))
           = Cardinality(Uploading(i)) + One(w \in Uploading(i)')
  BY <1>1, <1>3, Balance
<1> QED
  BY <1>4, <1>5, <1>6, <1>7

\* What the move of a worker may do to one delivery.
MovePays(row, w, i) ==
  /\ posts'[i] + One(row.item = i /\ MaySend(row)) + One(Open(i)') + disruptions
       <= posts[i] + One(job[w].item = i /\ MaySend(job[w])) + One(Open(i)) + disruptions'
  /\ uploads'[i] + One(row.item = i /\ MayUpload(row, i)) + One(i \notin token /\ Open(i)')
         + disruptions
       <= uploads[i] + One(job[w].item = i /\ MayUpload(job[w], i))
            + One(i \notin token /\ Open(i)) + disruptions' + (hidden'[i] - hidden[i])

\* What a worker may do is less than before, and nothing else changed.
LEMMA LessIsPaid ==
  ASSUME TypeOK, TypeOK', NEW w \in Worker, NEW row, NEW i \in Delivery,
         UNCHANGED <<status, leased, posts, uploads, hidden, disruptions>>,
         row.item = i /\ MaySend(row) => job[w].item = i /\ MaySend(job[w]),
         row.item = i /\ MayUpload(row, i) => job[w].item = i /\ MayUpload(job[w], i)
  PROVE  MovePays(row, w, i)
<1>1. Open(i)' = Open(i)
  BY DEF Open
<1>2. /\ One(row.item = i /\ MaySend(row)) <= One(job[w].item = i /\ MaySend(job[w]))
      /\ One(row.item = i /\ MayUpload(row, i)) <= One(job[w].item = i /\ MayUpload(job[w], i))
  BY DEF One
<1> QED
  BY <1>1, <1>2 DEF MovePays, TypeOK, One

LEMMA MoveIsPaid ==
  ASSUME IInv, TypeOK', NEW w \in Worker, NEW row, job' = [job EXCEPT ![w] = row],
         UNCHANGED token, \A i \in Delivery : MovePays(row, w, i)
  PROVE  Account'
<1> SUFFICES ASSUME NEW i \in Delivery
             PROVE  /\ IsFiniteSet(Sending(i)')
                    /\ posts'[i] + Cardinality(Sending(i)') + One(Open(i)') <= 1 + disruptions'
                    /\ uploads'[i] + Cardinality(Uploading(i)') + One(i \notin token' /\ Open(i)')
                         <= 1 + disruptions' + hidden'[i]
  BY DEF Account
<1>1. /\ posts[i] \in Nat /\ posts'[i] \in Nat /\ uploads[i] \in Nat /\ uploads'[i] \in Nat
      /\ disruptions \in Nat /\ disruptions' \in Nat
      /\ hidden[i] \in Nat /\ hidden'[i] \in Nat
  BY DEF IInv, TypeOK
<1> DEFINE a == One(job[w].item = i /\ MaySend(job[w]))
           b == One(row.item = i /\ MaySend(row))
           c == One(job[w].item = i /\ MayUpload(job[w], i))
           d == One(row.item = i /\ MayUpload(row, i))
           o == One(Open(i))
           p == One(Open(i)')
           q == One(i \notin token /\ Open(i))
           r == One(i \notin token /\ Open(i)')
<1>2. /\ a \in Nat /\ b \in Nat /\ c \in Nat /\ d \in Nat
      /\ o \in Nat /\ p \in Nat /\ q \in Nat /\ r \in Nat
  BY DEF One
<1>3. /\ posts'[i] + b + p + disruptions <= posts[i] + a + o + disruptions'
      /\ uploads'[i] + d + r + disruptions <= uploads[i] + c + q + disruptions'
                                               + (hidden'[i] - hidden[i])
  BY DEF MovePays
<1>4. /\ IsFiniteSet(Sending(i)')
      /\ Cardinality(Sending(i)) \in Nat /\ Cardinality(Sending(i)') \in Nat
      /\ Cardinality(Uploading(i)) \in Nat /\ Cardinality(Uploading(i)') \in Nat
      /\ Cardinality(Sending(i)') + a = Cardinality(Sending(i)) + b
      /\ Cardinality(Uploading(i)') + c = Cardinality(Uploading(i)) + d
  BY MoveCounts
<1>5. /\ posts[i] + Cardinality(Sending(i)) + o <= 1 + disruptions
      /\ uploads[i] + Cardinality(Uploading(i)) + q <= 1 + disruptions + hidden[i]
  BY DEF IInv, Account
<1>6. One(i \notin token' /\ Open(i)') = r
  OBVIOUS
<1> HIDE DEF a, b, c, d, o, p, q, r
<1>7. posts'[i] + Cardinality(Sending(i)') + p <= 1 + disruptions'
  BY <1>1, <1>2, <1>3, <1>4, <1>5
<1>8. uploads'[i] + Cardinality(Uploading(i)') + r <= 1 + disruptions' + hidden'[i]
  BY <1>1, <1>2, <1>3, <1>4, <1>5
<1> QED
  BY <1>4, <1>6, <1>7, <1>8 DEF p

\* No worker moves, and no delivery becomes open but by a disruption.
LEMMA RestIsPaid ==
  ASSUME IInv, TypeOK', UNCHANGED <<job, token, posts, uploads, hidden>>,
         disruptions <= disruptions',
         \A i \in Delivery : One(Open(i)') + disruptions <= One(Open(i)) + disruptions'
  PROVE  Account'
<1> SUFFICES ASSUME NEW i \in Delivery
             PROVE  /\ IsFiniteSet(Sending(i)')
                    /\ posts'[i] + Cardinality(Sending(i)') + One(Open(i)') <= 1 + disruptions'
                    /\ uploads'[i] + Cardinality(Uploading(i)') + One(i \notin token' /\ Open(i)')
                         <= 1 + disruptions' + hidden'[i]
  BY DEF Account
<1>1. /\ posts[i] \in Nat /\ uploads[i] \in Nat /\ disruptions \in Nat /\ disruptions' \in Nat
      /\ hidden[i] \in Nat
  BY DEF IInv, TypeOK
<1>2. Sending(i)' = Sending(i) /\ Uploading(i)' = Uploading(i)
  BY DEF Sending, Uploading, MaySend, MayUpload
<1>3. /\ IsFiniteSet(Sending(i))
      /\ Cardinality(Sending(i)) \in Nat /\ Cardinality(Uploading(i)) \in Nat
  BY UploadersSend, Fewer DEF IInv, Account
<1>4. /\ posts[i] + Cardinality(Sending(i)) + One(Open(i)) <= 1 + disruptions
      /\ uploads[i] + Cardinality(Uploading(i)) + One(i \notin token /\ Open(i))
           <= 1 + disruptions + hidden[i]
  BY DEF IInv, Account
<1>5. /\ One(Open(i)) \in {0, 1} /\ One(Open(i)') \in {0, 1}
      /\ One(i \notin token /\ Open(i)) = IF i \in token THEN 0 ELSE One(Open(i))
      /\ One(i \notin token' /\ Open(i)') = IF i \in token THEN 0 ELSE One(Open(i)')
  BY DEF One
<1>6. One(Open(i)') + disruptions <= One(Open(i)) + disruptions'
  OBVIOUS
<1>7. posts[i] + Cardinality(Sending(i)) + One(Open(i)') <= 1 + disruptions'
  BY <1>1, <1>3, <1>4, <1>5, <1>6
<1>8. uploads[i] + Cardinality(Uploading(i)) + One(i \notin token' /\ Open(i)')
        <= 1 + disruptions' + hidden[i]
  <2>1. CASE i \in token
    BY <2>1, <1>1, <1>3, <1>4, <1>5
  <2>2. CASE i \notin token
    BY <2>2, <1>1, <1>3, <1>4, <1>5, <1>6
  <2> QED
    BY <2>1, <2>2
<1> QED
  BY <1>2, <1>3, <1>7, <1>8

-----------------------------------------------------------------------------
(* The rows of the workers *)

LEMMA IdleRow == Idle.pc = "idle" /\ Idle.item \notin Delivery /\ ~ MaySend(Idle)
BY OutboxAssumption DEF Idle, MaySend

LEMMA BusyRow ==
  ASSUME IInv, NEW w \in Worker, job[w] # Idle \/ job[w].pc # "idle"
  PROVE  /\ job[w] # Idle /\ job[w] \in Busy
         /\ job[w].item \in Delivery /\ job[w].attempt \in Nat \ {0}
         /\ job[w].verdict \in Verdict \cup {"none"}
         /\ job[w].pc \in {"reading", "uploading", "saving", "calling", "settling"}
<1>1. job[w] # Idle /\ job[w] \in Busy
  BY IdleRow DEF IInv, TypeOK
<1> QED
  BY <1>1 DEF Busy

LEMMA GotoRow ==
  ASSUME IInv, NEW w \in Worker, job[w].pc # "idle",
         NEW pc \in {"reading", "uploading", "saving", "calling", "settling"}, Goto(w, pc)
  PROVE  \E row \in Busy :
           /\ job' = [job EXCEPT ![w] = row]
           /\ row.item = job[w].item /\ row.pc = pc /\ row.verdict = job[w].verdict
<1> DEFINE row == [job[w] EXCEPT !.pc = pc]
<1>1. job[w] \in Busy
  BY BusyRow
<1>2. row \in Busy /\ row.item = job[w].item /\ row.pc = pc /\ row.verdict = job[w].verdict
  BY <1>1 DEF Busy
<1>3. job' = [job EXCEPT ![w] = row]
  BY DEF Goto
<1> QED
  BY <1>2, <1>3

LEMMA DecideRow ==
  ASSUME IInv, NEW w \in Worker, job[w].pc # "idle", NEW verdict \in Verdict, Decide(w, verdict)
  PROVE  \E row \in Busy :
           /\ job' = [job EXCEPT ![w] = row]
           /\ row.item = job[w].item /\ row.pc = "settling" /\ row.verdict = verdict
<1> DEFINE row == [job[w] EXCEPT !.pc = "settling", !.verdict = verdict]
<1>1. job[w] \in Busy
  BY BusyRow
<1>2. row \in Busy /\ row.item = job[w].item /\ row.pc = "settling" /\ row.verdict = verdict
  BY <1>1 DEF Busy
<1>3. job' = [job EXCEPT ![w] = row]
  BY DEF Decide
<1> QED
  BY <1>2, <1>3

LEMMA StoredIsFinite == IsFiniteSet(Stored) /\ Cardinality(Stored) \in Nat
BY OutboxAssumption, FS_Subset, FS_CardinalityType DEF Stored

\* Reports are lost only by a worker that settles or a row that is changed.
LEMMA ReportStays ==
  ASSUME IInv, UNCHANGED <<carried, disruptions>>,
         \A v \in Worker : job[v].pc = "settling" => job'[v] = job[v],
         \A i \in Delivery : status[i] \in {"sent", "delivery_unknown"} => status'[i] = status[i]
  PROVE  Reported'
<1> SUFFICES ASSUME disruptions = 0, NEW i \in carried
             PROVE  \/ status'[i] \in {"sent", "delivery_unknown"}
                    \/ \E w \in Worker : /\ job'[w].item = i /\ job'[w].pc = "settling"
                                         /\ job'[w].verdict \in {"sent", "delivery_unknown"}
  BY DEF Reported
<1> QED
  BY DEF IInv, Reported, TypeOK

\* A worker goes on with its delivery.
LEMMA WorkKeeps ==
  ASSUME IInv, NEW w \in Worker, job[w].pc # "idle",
         NEW row \in Busy, job' = [job EXCEPT ![w] = row],
         row.item = job[w].item, Verdictful(row),
         row.pc \in {"uploading", "saving"} => row.item \in file,
         UNCHANGED <<status, attempts, owner, leased, content, disruptions>>
  PROVE  /\ job' \in [Worker -> Busy \cup {Idle}]
         /\ Decided' /\ Held' /\ Ranked' /\ InOrder'
<1>1. job' \in [Worker -> Busy \cup {Idle}]
  BY DEF IInv, TypeOK
<1>2. job'[w] = row /\ \A v \in Worker \ {w} : job'[v] = job[v]
  BY DEF IInv, TypeOK
<1>3. job[w] # Idle
  BY BusyRow
<1>4. Decided'
  BY <1>2 DEF IInv, Decided, content, Verdictful
<1>5. Held'
  BY <1>2, <1>3 DEF IInv, Held, Holds
<1>6. Ranked' /\ InOrder'
  BY DEF IInv, Ranked, InOrder, Stored, content
<1> QED
  BY <1>1, <1>4, <1>5, <1>6

-----------------------------------------------------------------------------
(* The steps of a worker *)

LEMMA ReadKeeps ==
  ASSUME IInv, NEW w \in Worker, Read(w)
  PROVE  IInv'
<1> USE DEF IInv
<1>1. /\ job[w].pc = "reading" /\ job[w].pc # "idle" /\ job[w].verdict = "none"
      /\ job[w].item \in Delivery
  BY BusyRow DEF Read, Decided, Verdictful
<1>2. PICK row \in Busy :
        /\ job' = [job EXCEPT ![w] = row] /\ row.item = job[w].item
        /\ \/ row.pc = "settling" /\ row.verdict \in {"unreachable", "retry"}
           \/ row.pc = "calling" /\ row.verdict = "none"
           \/ /\ row.pc = "uploading" /\ row.verdict = "none"
              /\ row.item \in file \ token
  <2>1. CASE \E verdict \in {"unreachable", "retry"} : Decide(w, verdict)
    BY <2>1, <1>1, DecideRow DEF Verdict
  <2>2. CASE job[w].item \in file \ token /\ Goto(w, "uploading")
    BY <2>2, <1>1, GotoRow
  <2>3. CASE Goto(w, "calling")
    BY <2>3, <1>1, GotoRow
  <2> QED
    BY <2>1, <2>2, <2>3 DEF Read
<1>3. UNCHANGED <<queue, max, disruptions>>
  BY DEF Read
<1>4. Verdictful(row) /\ (row.pc \in {"uploading", "saving"} => row.item \in file)
  BY <1>2 DEF Verdictful, Verdict
<1>5. /\ job' \in [Worker -> Busy \cup {Idle}]
      /\ Decided' /\ Held' /\ Ranked' /\ InOrder'
  BY <1>1, <1>2, <1>3, <1>4, WorkKeeps DEF queue
<1>6. TypeOK'
  BY <1>3, <1>5 DEF TypeOK, queue, content, max
<1>7. Reported'
  BY <1>1, <1>2, <1>3, ReportStays DEF queue, max, TypeOK
<1>8. \A i \in Delivery : MovePays(row, w, i)
  <2> TAKE i \in Delivery
  <2>1. (row.item = i /\ MayUpload(row, i)) => (job[w].item = i /\ MayUpload(job[w], i))
    BY <1>1, <1>2 DEF MayUpload
  <2>2. (row.item = i /\ MaySend(row)) => (job[w].item = i /\ MaySend(job[w]))
    BY <1>1, <1>2 DEF MaySend
  <2> QED
    BY <1>3, <1>6, <2>1, <2>2, LessIsPaid DEF queue, max
<1>9. Account'
  BY <1>2, <1>3, <1>6, <1>8, MoveIsPaid DEF queue
<1> QED
  BY <1>5, <1>6, <1>7, <1>9

LEMMA UploadKeeps ==
  ASSUME IInv, NEW w \in Worker, Upload(w)
  PROVE  IInv'
<1> USE DEF IInv
<1>1. /\ job[w].pc = "uploading" /\ job[w].pc # "idle" /\ job[w].verdict = "none"
      /\ job[w].item \in Delivery /\ job[w].item \in file
  BY BusyRow DEF Upload, Decided, Verdictful
<1>2. UNCHANGED <<queue, posts, carried, disruptions>>
  BY DEF Upload
<1> DEFINE up == [uploads EXCEPT ![job[w].item] = @ + 1]
<1>3. ASSUME Goto(w, "saving"), uploads' = up, UNCHANGED hidden
      PROVE  IInv'
  <2>1. PICK row \in Busy :
          /\ job' = [job EXCEPT ![w] = row] /\ row.item = job[w].item
          /\ row.pc = "saving" /\ row.verdict = "none"
    BY <1>1, <1>3, GotoRow
  <2>2. /\ job' \in [Worker -> Busy \cup {Idle}]
        /\ Decided' /\ Held' /\ Ranked' /\ InOrder'
    BY <1>1, <1>2, <2>1, WorkKeeps DEF queue, Verdictful
  <2>3. TypeOK'
    BY <1>1, <1>2, <1>3, <2>2 DEF TypeOK, queue, content
  <2>4. Reported'
    BY <1>1, <1>2, <2>1, ReportStays DEF queue, TypeOK
  <2>5. \A i \in Delivery : MovePays(row, w, i)
    <3> TAKE i \in Delivery
    <3>1. /\ MaySend(row) /\ MaySend(job[w]) /\ MayUpload(job[w], i)
          /\ ~ MayUpload(row, i)
      BY <1>1, <2>1 DEF MaySend, MayUpload
    <3>2. Open(i)' = Open(i)
      BY <1>2 DEF Open, queue
    <3>3. uploads'[i] = uploads[i] + One(job[w].item = i)
      BY <1>1, <1>3 DEF TypeOK, One
    <3>4. hidden'[i] = hidden[i] /\ hidden[i] \in Nat
      BY <1>3 DEF TypeOK
    <3> QED
      BY <1>2, <2>1, <3>1, <3>2, <3>3, <3>4, <2>3 DEF MovePays, TypeOK, One
  <2>6. Account'
    BY <1>2, <2>1, <2>3, <2>5, MoveIsPaid DEF queue
  <2> QED
    BY <2>2, <2>3, <2>4, <2>6
<1>4. ASSUME NEW verdict \in {"retry", "failed"}, Decide(w, verdict),
             \/ uploads' = up /\ hidden' = [hidden EXCEPT ![job[w].item] = @ + 1]
             \/ UNCHANGED <<uploads, hidden>>
      PROVE  IInv'
  <2>1. PICK row \in Busy :
          /\ job' = [job EXCEPT ![w] = row] /\ row.item = job[w].item
          /\ row.pc = "settling" /\ row.verdict = verdict
    BY <1>1, <1>4, DecideRow DEF Verdict
  <2>2. /\ job' \in [Worker -> Busy \cup {Idle}]
        /\ Decided' /\ Held' /\ Ranked' /\ InOrder'
    BY <1>1, <1>2, <2>1, WorkKeeps DEF queue, Verdictful, Verdict
  <2>3. uploads' \in [Delivery -> Nat] /\ hidden' \in [Delivery -> Nat]
    BY <1>1, <1>4 DEF TypeOK
  <2>4. TypeOK'
    BY <1>2, <2>2, <2>3 DEF TypeOK, queue, content
  <2>5. Reported'
    BY <1>1, <1>2, <2>1, ReportStays DEF queue, TypeOK
  <2>6. \A i \in Delivery : MovePays(row, w, i)
    <3> TAKE i \in Delivery
    <3>1. MaySend(job[w]) /\ MayUpload(job[w], i)
      BY <1>1 DEF MaySend, MayUpload
    <3>2. Open(i)' = Open(i)
      BY <1>2 DEF Open, queue
    <3>3. /\ uploads[i] \in Nat /\ uploads'[i] \in Nat
          /\ hidden[i] \in Nat /\ hidden'[i] \in Nat
          /\ uploads'[i] - uploads[i] = hidden'[i] - hidden[i]
      BY <1>1, <1>4, <2>3 DEF TypeOK, One
    <3> HIDE DEF up
    <3> QED
      BY <1>2, <2>1, <3>1, <3>2, <3>3, <2>4 DEF MovePays, TypeOK, One
  <2>7. Account'
    BY <1>2, <2>1, <2>4, <2>6, MoveIsPaid DEF queue
  <2> QED
    BY <2>2, <2>4, <2>5, <2>7
<1> QED
  BY <1>3, <1>4 DEF Upload

LEMMA CallKeeps ==
  ASSUME IInv, NEW w \in Worker, Call(w)
  PROVE  IInv'
<1> USE DEF IInv
<1>1. /\ job[w].pc = "calling" /\ job[w].pc # "idle" /\ job[w].verdict = "none"
      /\ job[w].item \in Delivery
  BY BusyRow DEF Call, Decided, Verdictful
<1>2. UNCHANGED <<queue, disruptions>>
  BY DEF Call
<1> DEFINE i == job[w].item
<1>3. ASSUME Accept(i), NEW verdict \in {"sent", "delivery_unknown"}, Decide(w, verdict)
      PROVE  IInv'
  <2>1. PICK row \in Busy :
          /\ job' = [job EXCEPT ![w] = row] /\ row.item = job[w].item
          /\ row.pc = "settling" /\ row.verdict = verdict
    BY <1>1, <1>3, DecideRow DEF Verdict
  <2>2. /\ job' \in [Worker -> Busy \cup {Idle}]
        /\ Decided' /\ Held' /\ Ranked' /\ InOrder'
    BY <1>1, <1>2, <2>1, WorkKeeps DEF queue, Verdictful, Verdict
  <2>4. /\ posts' \in [Delivery -> Nat] /\ carried' = carried \cup {i}
        /\ UNCHANGED <<uploads, hidden>>
        /\ \A k \in Delivery : posts'[k] <= posts[k] + One(k = i)
    BY <1>1, <1>3 DEF Accept, TypeOK, One
  <2>5. TypeOK'
    BY <1>1, <1>2, <2>2, <2>4 DEF TypeOK, queue, content
  <2>6. Reported'
    <3> SUFFICES ASSUME disruptions = 0, NEW k \in carried'
                 PROVE  \/ status'[k] \in {"sent", "delivery_unknown"}
                        \/ \E v \in Worker : /\ job'[v].item = k /\ job'[v].pc = "settling"
                                             /\ job'[v].verdict \in {"sent", "delivery_unknown"}
      BY <1>2 DEF Reported
    <3>1. job'[w] = row /\ \A v \in Worker \ {w} : job'[v] = job[v]
      BY <2>1 DEF TypeOK
    <3>2. CASE k = i
      BY <3>1, <3>2, <2>1
    <3>3. CASE k # i
      <4>1. k \in carried
        BY <3>3, <2>4
      <4> QED
        BY <4>1, <3>1, <1>1, <1>2 DEF Reported, queue
    <3> QED
      BY <3>2, <3>3
  <2>7. \A k \in Delivery : MovePays(row, w, k)
    <3> TAKE k \in Delivery
    <3>1. /\ MaySend(job[w]) /\ ~ MaySend(row) /\ ~ MayUpload(row, k)
      BY <1>1, <2>1 DEF MaySend, MayUpload
    <3>2. Open(k)' = Open(k)
      BY <1>2 DEF Open, queue
    <3>3. posts'[k] <= posts[k] + One(job[w].item = k)
      BY <2>4 DEF One
    <3> QED
      BY <1>2, <2>4, <3>1, <3>2, <3>3, <2>5 DEF MovePays, TypeOK, One
  <2>8. Account'
    BY <1>2, <2>1, <2>5, <2>7, MoveIsPaid DEF queue
  <2> QED
    BY <2>2, <2>5, <2>6, <2>8
<1>4. ASSUME UNCHANGED max, NEW verdict \in Verdict \ {"sent"}, Decide(w, verdict)
      PROVE  IInv'
  <2>1. PICK row \in Busy :
          /\ job' = [job EXCEPT ![w] = row] /\ row.item = job[w].item
          /\ row.pc = "settling" /\ row.verdict = verdict
    BY <1>1, <1>4, DecideRow
  <2>2. /\ job' \in [Worker -> Busy \cup {Idle}]
        /\ Decided' /\ Held' /\ Ranked' /\ InOrder'
    BY <1>1, <1>2, <2>1, WorkKeeps DEF queue, Verdictful
  <2>3. TypeOK'
    BY <1>2, <1>4, <2>2 DEF TypeOK, queue, content, max
  <2>4. Reported'
    BY <1>1, <1>2, <1>4, <2>1, ReportStays DEF queue, max, TypeOK
  <2>5. \A k \in Delivery : MovePays(row, w, k)
    BY <1>1, <1>2, <1>4, <2>1, <2>3, LessIsPaid DEF queue, max, MaySend, MayUpload
  <2>6. Account'
    BY <1>2, <2>1, <2>3, <2>5, MoveIsPaid DEF queue
  <2> QED
    BY <2>2, <2>3, <2>4, <2>6
<1> QED
  BY <1>3, <1>4 DEF Call

\* A worker lets its delivery go.
LEMMA LetGo ==
  ASSUME IInv, NEW w \in Worker, job' = [job EXCEPT ![w] = Idle],
         UNCHANGED <<content, token>>
  PROVE  /\ job' \in [Worker -> Busy \cup {Idle}] /\ Decided'
         /\ job'[w] = Idle /\ \A v \in Worker \ {w} : job'[v] = job[v]
BY DEF IInv, TypeOK, Decided, Verdictful, content

LEMMA SaveTokenKeeps ==
  ASSUME IInv, NEW w \in Worker, SaveToken(w)
  PROVE  IInv'
<1> USE DEF IInv
<1>1. /\ job[w].pc = "saving" /\ job[w].pc # "idle" /\ job[w].verdict = "none"
      /\ job[w] # Idle /\ job[w].item \in Delivery /\ job[w].item \in file
  BY BusyRow DEF SaveToken, Decided, Verdictful
<1>2. UNCHANGED <<status, attempts, owner, leased, content, max, disruptions>>
  BY DEF SaveToken
<1> DEFINE i == job[w].item
<1>3. ASSUME Holds(w, i), token' = token \cup {i}, Goto(w, "calling")
      PROVE  IInv'
  <2>1. PICK row \in Busy :
          /\ job' = [job EXCEPT ![w] = row] /\ row.item = job[w].item
          /\ row.pc = "calling" /\ row.verdict = "none"
    BY <1>1, <1>3, GotoRow
  <2>2. /\ job' \in [Worker -> Busy \cup {Idle}]
        /\ Decided' /\ Held' /\ Ranked' /\ InOrder'
    BY <1>1, <1>2, <2>1, WorkKeeps DEF Verdictful
  <2>3. TypeOK'
    BY <1>1, <1>2, <1>3, <2>2 DEF TypeOK, content, max
  <2>4. Reported'
    BY <1>1, <1>2, <2>1, ReportStays DEF max, TypeOK
  <2>5. job'[w] = row /\ \A v \in Worker \ {w} : job'[v] = job[v]
    BY <2>1 DEF TypeOK
  <2>6. Account'
    <3> SUFFICES ASSUME NEW k \in Delivery
                 PROVE  /\ IsFiniteSet(Sending(k)')
                        /\ posts'[k] + Cardinality(Sending(k)') + One(Open(k)') <= 1 + disruptions'
                        /\ uploads'[k] + Cardinality(Uploading(k)')
                             + One(k \notin token' /\ Open(k)')
                             <= 1 + disruptions' + hidden'[k]
      BY DEF Account
    <3>1. Sending(k)' \subseteq Sending(k)
      BY <1>1, <2>1, <2>5 DEF Sending, MaySend
    <3>2. Uploading(k)' \subseteq Uploading(k)
      BY <1>1, <1>3, <2>1, <2>5 DEF Uploading, MayUpload
    <3>3. /\ IsFiniteSet(Sending(k)) /\ IsFiniteSet(Uploading(k))
      BY UploadersSend, FS_Subset DEF Account
    <3>4. /\ IsFiniteSet(Sending(k)')
          /\ Cardinality(Sending(k)) \in Nat /\ Cardinality(Sending(k)') \in Nat
          /\ Cardinality(Sending(k)') <= Cardinality(Sending(k))
      BY <3>1, <3>3, Fewer
    <3>5. /\ Cardinality(Uploading(k)) \in Nat /\ Cardinality(Uploading(k)') \in Nat
          /\ Cardinality(Uploading(k)') <= Cardinality(Uploading(k))
      BY <3>2, <3>3, Fewer
    <3>6. /\ One(Open(k)') = One(Open(k)) /\ One(Open(k)) \in Nat
          /\ One(k \notin token' /\ Open(k)') <= One(k \notin token /\ Open(k))
          /\ One(k \notin token' /\ Open(k)') \in Nat /\ One(k \notin token /\ Open(k)) \in Nat
      BY <1>2, <1>3 DEF Open, One
    <3>7. /\ posts'[k] = posts[k] /\ posts[k] \in Nat /\ uploads'[k] = uploads[k]
          /\ uploads[k] \in Nat /\ disruptions' = disruptions /\ disruptions \in Nat
          /\ hidden'[k] = hidden[k] /\ hidden[k] \in Nat
      BY <1>2 DEF TypeOK, max
    <3>8. /\ posts[k] + Cardinality(Sending(k)) + One(Open(k)) <= 1 + disruptions
          /\ uploads[k] + Cardinality(Uploading(k)) + One(k \notin token /\ Open(k))
               <= 1 + disruptions + hidden[k]
      BY DEF Account
    <3> QED
      BY <3>4, <3>5, <3>6, <3>7, <3>8
  <2> QED
    BY <2>2, <2>3, <2>4, <2>6
<1>4. ASSUME ~ Holds(w, i), job' = [job EXCEPT ![w] = Idle], UNCHANGED token
      PROVE  IInv'
  <2>1. disruptions' # 0
    BY <1>1, <1>2, <1>4 DEF Held
  <2>2. Held' /\ Reported'
    BY <2>1 DEF Held, Reported
  <2>3. job' \in [Worker -> Busy \cup {Idle}] /\ Decided'
    BY <1>2, <1>4, LetGo
  <2>4. TypeOK'
    BY <1>2, <1>4, <2>3 DEF TypeOK, content, max
  <2>5. Ranked' /\ InOrder'
    BY <1>2 DEF Ranked, InOrder, Stored, content
  <2>6. \A k \in Delivery : MovePays(Idle, w, k)
    BY <1>2, <2>4, IdleRow, LessIsPaid DEF max
  <2>7. Account'
    BY <1>4, <2>4, <2>6, MoveIsPaid
  <2> QED
    BY <2>2, <2>3, <2>4, <2>5, <2>7
<1> QED
  BY <1>3, <1>4 DEF SaveToken

LEMMA ClaimKeeps ==
  ASSUME IInv, NEW w \in Worker, NEW i \in Delivery, Claim(w, i)
  PROVE  IInv'
<1> USE DEF IInv
<1> DEFINE row == [pc |-> "reading", item |-> i, attempt |-> attempts[i] + 1, verdict |-> "none"]
<1>1. /\ job[w] = Idle /\ job[w].pc = "idle"
      /\ status[i] = "pending" \/ (status[i] = "processing" /\ ~ leased[i])
      /\ status' = [status EXCEPT ![i] = "processing"]
      /\ attempts' = [attempts EXCEPT ![i] = @ + 1]
      /\ owner' = [owner EXCEPT ![i] = w]
      /\ leased' = [leased EXCEPT ![i] = TRUE]
      /\ job' = [job EXCEPT ![w] = row]
      /\ UNCHANGED <<content, token, max, disruptions>>
  BY IdleRow DEF Claim
<1>2. attempts[i] \in Nat
  BY DEF TypeOK
<1>3. /\ row \in Busy /\ row.item = i /\ row.pc = "reading" /\ row.verdict = "none"
  BY <1>2 DEF Busy
<1> HIDE DEF row
<1>4. TypeOK'
  BY <1>1, <1>2, <1>3 DEF TypeOK, Status, content, max
<1>5. job'[w] = row /\ \A v \in Worker \ {w} : job'[v] = job[v]
  BY <1>1 DEF TypeOK
<1>6. Decided'
  BY <1>1, <1>3, <1>5 DEF Decided, Verdictful, content
<1>7. Held'
  <2> SUFFICES ASSUME disruptions = 0, NEW v \in Worker, job'[v] # Idle
               PROVE  Holds(v, job[v].item)'
    BY <1>1 DEF Held
  <2>1. CASE v = w
    BY <2>1, <1>1, <1>3, <1>5 DEF Holds, TypeOK
  <2>2. CASE v # w
    <3>1. job'[v] = job[v] /\ Holds(v, job[v].item) /\ job[v].item \in Delivery
      BY <2>2, <1>5, BusyRow DEF Held
    <3>2. job[v].item # i
      BY <3>1, <1>1 DEF Holds
    <3> QED
      BY <3>1, <3>2, <1>1 DEF Holds, TypeOK
  <2> QED
    BY <2>1, <2>2
<1>8. Reported'
  <2>1. \A k \in Delivery : status[k] \in {"sent", "delivery_unknown"} => status'[k] = status[k]
    BY <1>1 DEF TypeOK
  <2> QED
    BY <2>1, <1>1, <1>5, ReportStays DEF max
<1>9. Stored' = Stored
  BY <1>1 DEF Stored, TypeOK
<1>10. Ranked'
  BY <1>1, <1>2, <1>9 DEF Ranked, TypeOK, content
<1>11. InOrder'
  BY <1>1, <1>2 DEF InOrder, TypeOK, content
<1>12. \A k \in Delivery : MovePays(row, w, k)
  <2> TAKE k \in Delivery
  <2>1. CASE k = i
    <3>1. /\ Open(k) /\ ~ Open(k)' /\ ~ MaySend(job[w]) /\ job[w].item # k
          /\ MayUpload(row, k) => k \notin token
      BY <2>1, <1>1, <1>3, IdleRow DEF Open, TypeOK, MayUpload
    <3> QED
      BY <3>1, <1>1, <1>4 DEF MovePays, One, TypeOK, max
  <2>2. CASE k # i
    <3>1. row.item # k /\ Open(k)' = Open(k)
      BY <2>2, <1>1, <1>3 DEF Open, TypeOK
    <3> QED
      BY <3>1, <1>1, <1>4 DEF MovePays, One, TypeOK, max
  <2> QED
    BY <2>1, <2>2
<1>13. Account'
  BY <1>1, <1>4, <1>12, MoveIsPaid
<1> QED
  BY <1>4, <1>6, <1>7, <1>8, <1>10, <1>11, <1>13

LEMMA CrashKeeps ==
  ASSUME IInv, NEW w \in Worker, Crash(w)
  PROVE  IInv'
<1> USE DEF IInv
<1>1. /\ job[w] # Idle /\ job[w].item \in Delivery
      /\ disruptions' = disruptions + 1 /\ disruptions \in Nat
      /\ job' = [job EXCEPT ![w] = Idle]
      /\ leased' = [leased EXCEPT ![job[w].item] = @ /\ owner[job[w].item] # w]
      /\ UNCHANGED <<status, attempts, owner, content, token, max>>
  BY BusyRow DEF Crash, Disrupt, TypeOK
<1>2. Held' /\ Reported'
  BY <1>1 DEF Held, Reported
<1>3. job' \in [Worker -> Busy \cup {Idle}] /\ Decided'
  BY <1>1, LetGo
<1>4. leased' \in [Delivery -> BOOLEAN]
  BY <1>1 DEF TypeOK
<1>5. TypeOK'
  BY <1>1, <1>3, <1>4 DEF TypeOK, content, max
<1>6. Ranked' /\ InOrder'
  BY <1>1 DEF Ranked, InOrder, Stored, content
<1>7. \A k \in Delivery : MovePays(Idle, w, k)
  BY <1>1, <1>5, IdleRow DEF MovePays, One, TypeOK, max
<1>8. Account'
  BY <1>1, <1>5, <1>7, MoveIsPaid
<1> QED
  BY <1>2, <1>3, <1>5, <1>6, <1>8

LEMMA SettleKeeps ==
  ASSUME IInv, NEW w \in Worker, Settle(w)
  PROVE  IInv'
<1> USE DEF IInv
<1> DEFINE i == job[w].item
           outcome == Outcome(job[w])
<1>1. /\ job[w].pc = "settling" /\ job[w] # Idle /\ i \in Delivery
      /\ job[w].verdict \in Verdict /\ job[w].attempt \in Nat
  BY BusyRow DEF Settle, Decided, Verdictful
<1>2. /\ job' = [job EXCEPT ![w] = Idle]
      /\ UNCHANGED <<attempts, content, token, max, disruptions>>
      /\ \/ /\ Holds(w, i)
            /\ status' = [status EXCEPT ![i] = outcome]
            /\ owner' = [owner EXCEPT ![i] = None]
            /\ leased' = [leased EXCEPT ![i] = FALSE]
         \/ /\ ~ Holds(w, i)
            /\ UNCHANGED <<status, owner, leased>>
  BY DEF Settle
<1>3. /\ outcome \in Final \cup {"pending"} /\ outcome # "superseded"
      /\ outcome = "pending" => job[w].verdict = "retry"
      /\ job[w].verdict # "retry" => outcome = job[w].verdict
  <2>1. CASE job[w].verdict # "retry"
    <3>1. outcome = job[w].verdict
      BY <2>1 DEF Outcome
    <3> HIDE DEF outcome
    <3> QED
      BY <1>1, <2>1, <3>1 DEF Final, Verdict
  <2>2. CASE job[w].verdict = "retry"
    <3>1. outcome = IF job[w].attempt >= MaxAttempts THEN "dead" ELSE "pending"
      BY <2>2 DEF Outcome
    <3> HIDE DEF outcome
    <3> QED
      BY <2>2, <3>1 DEF Final
  <2> QED
    BY <2>1, <2>2
<1> HIDE DEF outcome
<1>4. /\ job' \in [Worker -> Busy \cup {Idle}] /\ Decided'
      /\ job'[w] = Idle /\ \A v \in Worker \ {w} : job'[v] = job[v]
  BY <1>2, LetGo
<1>5. ASSUME Holds(w, i),
             status' = [status EXCEPT ![i] = outcome],
             owner' = [owner EXCEPT ![i] = None],
             leased' = [leased EXCEPT ![i] = FALSE]
      PROVE  IInv'
  <2>1. /\ status[i] = "processing" /\ owner[i] = w /\ leased[i]
        /\ attempts[i] \in Nat /\ attempts[i] > 0
    BY <1>1, <1>5 DEF Holds, Ranked, TypeOK
  <2>2. outcome \in Status /\ outcome # "absent" /\ outcome # "processing"
    BY <1>3 DEF Status, Final
  <2>3. attempts'[i] > 0
    BY <1>2, <2>1
  <2>4. TypeOK'
    <3>1. status' \in [Delivery -> Status] /\ owner' \in [Delivery -> Worker \cup {None}]
          /\ leased' \in [Delivery -> BOOLEAN]
      BY <1>5, <2>2 DEF TypeOK
    <3> QED
      BY <1>2, <1>4, <3>1 DEF TypeOK, content, max
  <2>5. /\ status'[i] = outcome
        /\ \A k \in Delivery \ {i} : /\ status'[k] = status[k] /\ owner'[k] = owner[k]
                                     /\ leased'[k] = leased[k] /\ attempts'[k] = attempts[k]
    BY <1>1, <1>2, <1>5 DEF TypeOK
  <2>6. Held'
    <3> SUFFICES ASSUME disruptions = 0, NEW v \in Worker, job'[v] # Idle
                 PROVE  Holds(v, job[v].item)'
      BY <1>2 DEF Held
    <3>1. v # w /\ job'[v] = job[v]
      BY <1>4
    <3>2. Holds(v, job[v].item) /\ job[v].item \in Delivery
      BY <3>1, BusyRow DEF Held
    <3>3. job[v].item # i
      BY <2>1, <3>1, <3>2 DEF Holds
    <3> QED
      BY <2>5, <3>1, <3>2, <3>3 DEF Holds
  <2>7. Reported'
    <3> SUFFICES ASSUME disruptions = 0, NEW k \in carried
                 PROVE  \/ status'[k] \in {"sent", "delivery_unknown"}
                        \/ \E v \in Worker : /\ job'[v].item = k /\ job'[v].pc = "settling"
                                             /\ job'[v].verdict \in {"sent", "delivery_unknown"}
      BY <1>2 DEF Reported, max
    <3>1. CASE status[k] \in {"sent", "delivery_unknown"}
      BY <3>1, <2>1, <2>5 DEF TypeOK
    <3>2. ASSUME NEW v \in Worker, job[v].item = k, job[v].pc = "settling",
                 job[v].verdict \in {"sent", "delivery_unknown"}
          PROVE  \/ status'[k] \in {"sent", "delivery_unknown"}
                 \/ \E u \in Worker : /\ job'[u].item = k /\ job'[u].pc = "settling"
                                      /\ job'[u].verdict \in {"sent", "delivery_unknown"}
      <4>1. CASE v = w
        BY <3>2, <4>1, <1>3, <2>5
      <4>2. CASE v # w
        BY <3>2, <4>2, <1>4
      <4> QED
        BY <4>1, <4>2
    <3> QED
      BY <3>1, <3>2 DEF Reported
  <2>8. Stored' = Stored /\ rank' = rank
    BY <1>2, <2>1, <2>2, <2>5 DEF Stored, content
  <2>9. Ranked'
    BY <2>2, <2>5, <2>8 DEF Ranked
  <2>10. InOrder'
    BY <1>3, <2>3, <2>5, <2>8 DEF InOrder
  <2>11. \A k \in Delivery : MovePays(Idle, w, k)
    <3> TAKE k \in Delivery
    <3>1. CASE k = i
      <4>1. /\ ~ Open(k) /\ ~ (Idle.item = k)
            /\ Open(k)' => job[w].verdict = "retry"
        BY <3>1, <1>1, <1>3, <2>1, <2>2, <2>5, IdleRow DEF Open
      <4>2. job[w].verdict = "retry" => /\ MaySend(job[w])
                                        /\ k \notin token => MayUpload(job[w], k)
        BY DEF MaySend, MayUpload
      <4> QED
        BY <3>1, <4>1, <4>2, <1>2, <2>4 DEF MovePays, One, TypeOK, max
    <3>2. CASE k # i
      <4>1. Open(k)' = Open(k) /\ Idle.item # k
        BY <3>2, <2>5, IdleRow DEF Open
      <4> QED
        BY <3>2, <4>1, <1>2, <2>4 DEF MovePays, One, TypeOK, max
    <3> QED
      BY <3>1, <3>2
  <2>12. Account'
    BY <1>2, <2>4, <2>11, MoveIsPaid
  <2> QED
    BY <1>4, <2>4, <2>6, <2>7, <2>9, <2>10, <2>12
<1>6. ASSUME ~ Holds(w, i), UNCHANGED <<status, owner, leased>>
      PROVE  IInv'
  <2>1. disruptions' # 0
    BY <1>1, <1>2, <1>6 DEF Held
  <2>2. Held' /\ Reported'
    BY <2>1 DEF Held, Reported
  <2>3. TypeOK'
    BY <1>2, <1>4, <1>6 DEF TypeOK, content, max
  <2>4. Ranked' /\ InOrder'
    BY <1>2, <1>6 DEF Ranked, InOrder, Stored, content
  <2>5. \A k \in Delivery : MovePays(Idle, w, k)
    BY <1>2, <1>6, <2>3, IdleRow, LessIsPaid DEF max
  <2>6. Account'
    BY <1>2, <2>3, <2>5, MoveIsPaid
  <2> QED
    BY <1>4, <2>2, <2>3, <2>4, <2>6
<1> QED
  BY <1>2, <1>5, <1>6

-----------------------------------------------------------------------------
(* The steps of the use cases, and a lost lease *)

LEMMA LapseKeeps ==
  ASSUME IInv, NEW i \in Delivery, Lapse(i)
  PROVE  IInv'
<1> USE DEF IInv
<1>1. /\ disruptions' = disruptions + 1 /\ disruptions \in Nat
      /\ leased' = [leased EXCEPT ![i] = FALSE]
      /\ UNCHANGED <<status, attempts, owner, content, token, job, max>>
  BY DEF Lapse, Disrupt, TypeOK
<1>2. Held' /\ Reported'
  BY <1>1 DEF Held, Reported
<1>3. TypeOK'
  BY <1>1 DEF TypeOK, content, max
<1>4. Decided' /\ Ranked' /\ InOrder'
  BY <1>1 DEF Decided, Ranked, InOrder, Stored, content
<1>5. \A k \in Delivery : One(Open(k)') + disruptions <= One(Open(k)) + disruptions'
  BY <1>1 DEF One
<1>6. Account'
  BY <1>1, <1>3, <1>5, RestIsPaid DEF max
<1> QED
  BY <1>2, <1>3, <1>4, <1>6

LEMMA WithdrawKeeps ==
  ASSUME IInv, NEW i \in Delivery, Withdraw(i)
  PROVE  IInv'
<1> USE DEF IInv
<1>1. /\ ~ IsEdit(i) /\ status[i] = "pending"
      /\ status' = [status EXCEPT ![i] = "superseded"]
      /\ UNCHANGED <<attempts, owner, leased, content, token, job, max, disruptions>>
  BY DEF Withdraw
<1>2. /\ status'[i] = "superseded"
      /\ \A k \in Delivery \ {i} : status'[k] = status[k]
  BY <1>1 DEF TypeOK
<1>3. TypeOK'
  BY <1>1 DEF TypeOK, Status, Final, content, max
<1>4. Decided'
  BY <1>1 DEF Decided, content
<1>5. Held'
  BY <1>1, <1>2, BusyRow DEF Held, Holds
<1>6. Reported'
  BY <1>1, <1>2, ReportStays DEF max
<1>7. Stored' = Stored
  BY <1>1, <1>2 DEF Stored
<1>8. Ranked' /\ InOrder'
  BY <1>1, <1>2, <1>7 DEF Ranked, InOrder, content
<1>9. \A k \in Delivery : Open(k)' => Open(k)
  BY <1>1, <1>2 DEF Open
<1>10. \A k \in Delivery : One(Open(k)') + disruptions <= One(Open(k)) + disruptions'
  BY <1>1, <1>9 DEF One, TypeOK
<1>11. Account'
  BY <1>1, <1>3, <1>10, RestIsPaid DEF max, TypeOK
<1> QED
  BY <1>3, <1>4, <1>5, <1>6, <1>8, <1>11

LEMMA StutterKeeps ==
  ASSUME IInv, UNCHANGED vars
  PROVE  IInv'
<1> USE DEF IInv, vars, queue, content, max
<1>1. TypeOK' /\ Decided' /\ Held'
  BY DEF TypeOK, Decided, Held, Holds
<1>2. Reported' /\ Ranked' /\ InOrder'
  BY DEF Reported, Ranked, InOrder, Stored
<1>3. \A i \in Delivery : One(Open(i)') + disruptions <= One(Open(i)) + disruptions'
  BY DEF Open, One, TypeOK
<1>4. Account'
  BY <1>1, <1>3, RestIsPaid DEF TypeOK
<1> QED
  BY <1>1, <1>2, <1>4

LEMMA EnqueueKeeps ==
  ASSUME IInv, NEW i \in Delivery, Enqueue(i)
  PROVE  IInv'
<1> USE DEF IInv
<1>1. /\ IsEdit(i) => Target[i] \in Stored
      /\ status' = [j \in Delivery |->
           CASE j \in Coalesced(i) -> "superseded"
             [] j = i /\ i \notin Stored -> "pending"
             [] OTHER -> status[j]]
      /\ rank' = IF i \in Stored THEN rank
                 ELSE [rank EXCEPT ![i] = Cardinality(Stored) + 1]
      /\ file' \in IF IsEdit(i) \/ i \in Stored THEN {file} ELSE {file, file \cup {i}}
      /\ UNCHANGED <<attempts, owner, leased, token, job, max, disruptions>>
  BY DEF Enqueue
<1>2. CASE i \in Stored
  <2>1. status' = status
    BY <1>1, <1>2 DEF Coalesced, TypeOK
  <2>2. UNCHANGED vars
    BY <1>1, <1>2, <2>1 DEF vars, queue, content
  <2> QED
    BY <2>2, StutterKeeps
<1>3. CASE i \notin Stored
  <2> DEFINE size == Cardinality(Stored)
  <2>1. /\ status[i] = "absent" /\ status'[i] = "pending" /\ rank'[i] = size + 1
        /\ \A j \in Delivery \ {i} :
             /\ rank'[j] = rank[j]
             /\ status'[j] = IF j \in Coalesced(i) THEN "superseded" ELSE status[j]
        /\ \A j \in Coalesced(i) :
             /\ j \in Delivery /\ status[j] = "pending"
             /\ IsEdit(i) /\ Target[j] = Target[i]
    BY <1>1, <1>3 DEF Coalesced, Stored, TypeOK
  <2>2. size \in Nat
    BY StoredIsFinite
  <2>3. Stored' = Stored \cup {i} /\ Cardinality(Stored') = size + 1
    <3>1. Stored' = Stored \cup {i}
      BY <2>1 DEF Stored
    <3> QED
      BY <3>1, <1>3, StoredIsFinite, FS_AddElement
  <2> HIDE DEF size
  <2>4. \A j \in Delivery : rank[j] \in Nat /\ rank[j] <= size
    BY DEF Ranked, TypeOK, size
  <2>5. TypeOK'
    <3>1. rank' \in [Delivery -> Nat]
      BY <1>1, <1>3, <2>2 DEF TypeOK, size
    <3>2. status' \in [Delivery -> Status]
      BY <1>1 DEF TypeOK, Status, Final
    <3>3. file' \subseteq {j \in Delivery : ~ IsEdit(j)} /\ token' \subseteq file'
      BY <1>1 DEF TypeOK
    <3> QED
      BY <1>1, <3>1, <3>2, <3>3 DEF TypeOK, max
  <2>6. Decided'
    BY <1>1 DEF Decided
  <2>7. Held'
    BY <1>1, <2>1, BusyRow DEF Held, Holds
  <2>8. Reported'
    <3>1. \A k \in Delivery : status[k] \in {"sent", "delivery_unknown"} => status'[k] = status[k]
      BY <2>1
    <3> QED
      BY <1>1, <3>1, ReportStays DEF max
  <2>9. Ranked'
    BY <1>1, <2>1, <2>2, <2>3, <2>4 DEF Ranked
  <2>10. InOrder'
    <3>1. ASSUME NEW x \in Delivery, NEW j \in Delivery,
                 IsEdit(x), Target[x] = Target[j], status'[x] = "pending", attempts'[x] = 0
          PROVE  rank'[j] <= rank'[x]
      <4>1. CASE x = i
        BY <4>1, <2>1, <2>2, <2>4
      <4>2. CASE x # i
        <5>1. x \notin Coalesced(i) /\ status[x] = "pending" /\ attempts[x] = 0
          BY <1>1, <2>1, <3>1, <4>2
        <5>2. Target[x] # Target[i]
          BY <5>1, <1>3, <3>1 DEF Coalesced, IsEdit
        <5>3. j # i /\ rank[j] <= rank[x]
          BY <5>1, <5>2, <3>1 DEF InOrder
        <5> QED
          BY <5>3, <4>2, <2>1
      <4> QED
        BY <4>1, <4>2
    <3>2. ASSUME NEW x \in Delivery, IsEdit(x), status'[x] = "superseded"
          PROVE  \E j \in Delivery : Target[j] = Target[x] /\ rank'[j] > rank'[x]
      <4>1. x # i /\ rank'[x] = rank[x] /\ rank[x] < rank'[i]
        BY <2>1, <2>2, <2>4, <3>2
      <4>2. CASE x \in Coalesced(i)
        <5>1. Target[i] = Target[x] /\ rank'[i] > rank'[x]
          BY <2>1, <2>4, <4>1, <4>2
        <5> QED
          BY <5>1
      <4>3. CASE x \notin Coalesced(i)
        <5>1. PICK j \in Delivery : Target[j] = Target[x] /\ rank[j] > rank[x]
          BY <2>1, <3>2, <4>1, <4>3 DEF InOrder
        <5>2. rank'[j] > rank'[x]
          BY <2>1, <2>2, <2>4, <4>1, <5>1
        <5> QED
          BY <5>1, <5>2
      <4> QED
        BY <4>2, <4>3
    <3> QED
      BY <3>1, <3>2 DEF InOrder
  <2>11. \A k \in Delivery : Open(k)' => Open(k)
    BY <1>1, <2>1 DEF Open
  <2>12. \A k \in Delivery : One(Open(k)') + disruptions <= One(Open(k)) + disruptions'
    BY <1>1, <2>11 DEF One, TypeOK
  <2>13. Account'
    BY <1>1, <2>5, <2>12, RestIsPaid DEF max, TypeOK
  <2> QED
    BY <2>5, <2>6, <2>7, <2>8, <2>9, <2>10, <2>13
<1> QED
  BY <1>2, <1>3

-----------------------------------------------------------------------------
(* The invariant *)

LEMMA InitKeeps == Init => IInv
<1> SUFFICES ASSUME Init
             PROVE  IInv
  OBVIOUS
<1> USE DEF Init
<1>1. TypeOK
  BY DEF TypeOK, Status
<1>2. Decided /\ Held
  BY DEF Decided, Held
<1>3. Reported
  BY DEF Reported
<1>4. Ranked
  BY StoredIsFinite DEF Ranked
<1>5. InOrder
  BY DEF InOrder
<1>6. Account
  <2> SUFFICES ASSUME NEW i \in Delivery
               PROVE  /\ IsFiniteSet(Sending(i))
                      /\ posts[i] + Cardinality(Sending(i)) + One(Open(i)) <= 1 + disruptions
                      /\ uploads[i] + Cardinality(Uploading(i)) + One(i \notin token /\ Open(i))
                           <= 1 + disruptions + hidden[i]
    BY DEF Account
  <2>1. Sending(i) = {} /\ Uploading(i) = {}
    BY IdleRow DEF Sending, Uploading
  <2>2. IsFiniteSet(Sending(i)) /\ Cardinality(Sending(i)) = 0 /\ Cardinality(Uploading(i)) = 0
    BY <2>1, FS_EmptySet
  <2>3. One(Open(i)) = 1 /\ One(i \notin token /\ Open(i)) = 1
    BY DEF One, Open
  <2> QED
    BY <2>2, <2>3
<1> QED
  BY <1>1, <1>2, <1>3, <1>4, <1>5, <1>6 DEF IInv

LEMMA NextKeeps == IInv /\ [Next]_vars => IInv'
<1> SUFFICES ASSUME IInv, [Next]_vars
             PROVE  IInv'
  OBVIOUS
<1>1. CASE UNCHANGED vars
  BY <1>1, StutterKeeps
<1>2. CASE \E i \in Delivery : Enqueue(i) \/ Withdraw(i) \/ Lapse(i)
  BY <1>2, EnqueueKeeps, WithdrawKeeps, LapseKeeps
<1>3. CASE \E w \in Worker, i \in Delivery : Claim(w, i)
  BY <1>3, ClaimKeeps
<1>4. CASE \E w \in Worker : Read(w) \/ Upload(w) \/ SaveToken(w)
  BY <1>4, ReadKeeps, UploadKeeps, SaveTokenKeeps
<1>5. CASE \E w \in Worker : Call(w) \/ Settle(w) \/ Crash(w)
  BY <1>5, CallKeeps, SettleKeeps, CrashKeeps
<1> QED
  BY <1>1, <1>2, <1>3, <1>4, <1>5 DEF Next

\* In every reachable state the table, the workers, the ranks of the edits and
\* the account of copies fit together.
THEOREM OutboxInvariant == Spec => []IInv
BY InitKeeps, NextKeeps, PTL DEF Spec

\* The variables keep their types.
THEOREM TypeCorrect == Spec => []TypeOK
<1>1. IInv => TypeOK
  BY DEF IInv
<1> QED
  BY <1>1, OutboxInvariant, PTL

\* A message goes to MAX twice only after a crash or a lost lease: the worker never
\* retries a call whose result it does not know.  A file does so or after an upload
\* whose success an error hid: the token of any other is kept (DeliveryWorker._deliver,
\* _retry).
THEOREM CopiesCostDisruptions == Spec => []CopiesArePaidFor
<1>1. IInv => CopiesArePaidFor
  <2> SUFFICES ASSUME IInv, NEW i \in Delivery
               PROVE  posts[i] <= 1 + disruptions /\ uploads[i] <= 1 + disruptions + hidden[i]
    BY DEF CopiesArePaidFor
  <2>1. /\ posts[i] \in Nat /\ uploads[i] \in Nat /\ disruptions \in Nat
        /\ hidden[i] \in Nat
        /\ Cardinality(Sending(i)) \in Nat /\ Cardinality(Uploading(i)) \in Nat
        /\ One(Open(i)) \in Nat /\ One(i \notin token /\ Open(i)) \in Nat
    BY UploadersSend, Fewer DEF IInv, TypeOK, Account, One
  <2>2. /\ posts[i] + Cardinality(Sending(i)) + One(Open(i)) <= 1 + disruptions
        /\ uploads[i] + Cardinality(Uploading(i)) + One(i \notin token /\ Open(i))
             <= 1 + disruptions + hidden[i]
    BY DEF IInv, Account
  <2> QED
    BY <2>1, <2>2
<1> QED
  BY <1>1, OutboxInvariant, PTL

\* Undisturbed, the outbox says of no delivery that took effect that it did not,
\* nor keeps it to be sent again (DeliveryWorker._deliver, _settle).
THEOREM ReportsAreHonest == Spec => []VerdictIsHonest
<1>1. IInv => VerdictIsHonest
  <2> SUFFICES ASSUME IInv, disruptions = 0, NEW i \in carried
               PROVE  status[i] \in {"processing", "sent", "delivery_unknown"}
    BY DEF VerdictIsHonest
  <2>1. CASE status[i] \in {"sent", "delivery_unknown"}
    BY <2>1
  <2>2. ASSUME NEW w \in Worker, job[w].item = i, job[w].pc = "settling"
        PROVE  status[i] = "processing"
    BY <2>2, BusyRow DEF IInv, Held, Holds
  <2> QED
    BY <2>1, <2>2 DEF IInv, Reported
<1> QED
  BY <1>1, OutboxInvariant, PTL

\* An untried edit that waits is the newest of its message, the newest is never
\* superseded, and undisturbed none is superseded under the worker that has it
\* (PostgresDeliveryQueue.enqueue).
THEOREM NewestEditWaits == Spec => []EditsAreCoalesced
<1>1. IInv => EditsAreCoalesced
  BY DEF IInv, InOrder, Held, Holds, EditsAreCoalesced
<1> QED
  BY <1>1, OutboxInvariant, PTL

-----------------------------------------------------------------------------
(* The outbox is a work queue *)

\* A worker has counted its attempt, and reports as sent what was carried out.
Witnessed ==
  \A w \in Worker : job[w] # Idle =>
    /\ job[w].attempt <= attempts[job[w].item]
    /\ job[w].verdict = "sent" => job[w].item \in carried

\* Attempts and what was carried out only grow, so what a worker goes on with is
\* as it was.
LEMMA WitnessStays ==
  ASSUME IInv, Witnessed, NEW w \in Worker, job'[w] = job[w], carried \subseteq carried',
         \A i \in Delivery : attempts[i] <= attempts'[i] /\ attempts'[i] \in Nat
  PROVE  job'[w] # Idle => /\ job'[w].attempt <= attempts'[job'[w].item]
                           /\ job'[w].verdict = "sent" => job'[w].item \in carried'
<1> SUFFICES ASSUME job[w] # Idle
             PROVE  /\ job[w].attempt <= attempts'[job[w].item]
                    /\ job[w].verdict = "sent" => job[w].item \in carried'
  OBVIOUS
<1>1. job[w].item \in Delivery /\ job[w].attempt \in Nat
  BY BusyRow
<1>2. attempts[job[w].item] \in Nat
  BY <1>1 DEF IInv, TypeOK
<1> QED
  BY <1>1, <1>2 DEF Witnessed

LEMMA Grows ==
  ASSUME IInv, [Next]_vars
  PROVE  /\ carried \subseteq carried'
         /\ \A i \in Delivery : attempts[i] <= attempts'[i] /\ attempts'[i] \in Nat
<1>1. IInv' /\ attempts \in [Delivery -> Nat] /\ attempts' \in [Delivery -> Nat]
  BY NextKeeps DEF IInv, TypeOK
<1>2. carried \subseteq carried'
  BY DEF Next, Enqueue, Withdraw, Lapse, Claim, Read, Upload, SaveToken, Call, Accept, Settle,
         Crash, vars, max
<1>3. CASE \E w \in Worker, i \in Delivery : Claim(w, i)
  BY <1>1, <1>2, <1>3 DEF Claim
<1>4. CASE UNCHANGED attempts
  BY <1>1, <1>2, <1>4
<1>5. UNCHANGED attempts \/ \E w \in Worker, i \in Delivery : Claim(w, i)
  BY DEF Next, Enqueue, Withdraw, Lapse, Read, Upload, SaveToken, Call, Settle, Crash, vars, queue
<1> QED
  BY <1>3, <1>4, <1>5

LEMMA WitnessNext ==
  IInv /\ Witnessed /\ [Next]_vars => Witnessed'
<1> SUFFICES ASSUME IInv, Witnessed, [Next]_vars, NEW v \in Worker, job'[v] # Idle
             PROVE  /\ job'[v].attempt <= attempts'[job'[v].item]
                    /\ job'[v].verdict = "sent" => job'[v].item \in carried'
  BY DEF Witnessed
<1> USE DEF IInv
<1>1. CASE job'[v] = job[v]
  BY <1>1, Grows, WitnessStays
<1>2. CASE \E i \in Delivery : Claim(v, i)
  BY <1>2, Grows DEF Claim, TypeOK
<1>3. ASSUME job[v].pc # "idle", job'[v].item = job[v].item, job'[v].attempt = job[v].attempt,
             job'[v].verdict = "sent" => job[v].verdict = "sent" \/ job[v].item \in carried'
      PROVE  /\ job'[v].attempt <= attempts'[job'[v].item]
             /\ job'[v].verdict = "sent" => job'[v].item \in carried'
  <2>1. job[v] # Idle /\ job[v].item \in Delivery /\ job[v].attempt \in Nat
    BY <1>3, BusyRow
  <2>2. attempts[job[v].item] \in Nat
    BY <2>1 DEF TypeOK
  <2> QED
    BY <1>3, <2>1, <2>2, Grows DEF Witnessed
<1>4. ASSUME NEW pc, Goto(v, pc), job[v].pc # "idle"
      PROVE  /\ job'[v].item = job[v].item /\ job'[v].attempt = job[v].attempt
             /\ job'[v].verdict = job[v].verdict
  BY <1>4, BusyRow DEF Goto, TypeOK, Busy
<1>5. ASSUME NEW verdict, Decide(v, verdict), job[v].pc # "idle"
      PROVE  /\ job'[v].item = job[v].item /\ job'[v].attempt = job[v].attempt
             /\ job'[v].verdict = verdict
  BY <1>5, BusyRow DEF Decide, TypeOK, Busy
<1>6. CASE Read(v)
  BY <1>3, <1>4, <1>5, <1>6 DEF Read
<1>7. CASE Upload(v)
  BY <1>3, <1>4, <1>5, <1>7 DEF Upload
<1>8. CASE SaveToken(v)
  BY <1>3, <1>4, <1>8 DEF SaveToken, TypeOK
<1>9. CASE Call(v)
  <2>1. CASE Accept(job[v].item) /\ \E verdict \in {"sent", "delivery_unknown"} : Decide(v, verdict)
    BY <1>3, <1>5, <1>9, <2>1 DEF Call, Accept
  <2>2. CASE \E verdict \in Verdict \ {"sent"} : Decide(v, verdict)
    BY <1>3, <1>5, <1>9, <2>2 DEF Call
  <2> QED
    BY <1>9, <2>1, <2>2 DEF Call
<1>10. CASE Settle(v) \/ Crash(v)
  BY <1>10 DEF Settle, Crash, TypeOK
<1>11. ASSUME NEW w \in Worker, w # v,
              (\E i \in Delivery : Claim(w, i)) \/ Read(w) \/ Upload(w) \/ SaveToken(w)
                \/ Call(w) \/ Settle(w) \/ Crash(w)
       PROVE  job'[v] = job[v]
  BY <1>11 DEF Claim, Read, Upload, SaveToken, Call, Settle, Crash, Goto, Decide, TypeOK
<1>12. ASSUME NEW i \in Delivery, Enqueue(i) \/ Withdraw(i) \/ Lapse(i)
       PROVE  job'[v] = job[v]
  BY <1>12 DEF Enqueue, Withdraw, Lapse
<1>13. CASE UNCHANGED vars
  BY <1>1, <1>13 DEF vars
<1> QED
  BY <1>1, <1>2, <1>6, <1>7, <1>8, <1>9, <1>10, <1>11, <1>12, <1>13 DEF Next

LEMMA Phases ==
  /\ \A s \in Status : PhaseOf(s) \in Queue!Phase
  /\ PhaseOf("absent") = "absent" /\ PhaseOf("pending") = "open" /\ PhaseOf("processing") = "open"
  /\ PhaseOf("sent") = "done" /\ PhaseOf("dead") = "dead"
  /\ \A s \in {"unreachable", "failed", "delivery_unknown", "superseded"} : PhaseOf(s) = "dropped"
BY DEF PhaseOf, Status, Final, Queue!Phase

LEMMA PhasesNext ==
  ASSUME TypeOK'
  PROVE  [i \in Delivery |-> PhaseOf(status'[i])] \in [Delivery -> Queue!Phase]
BY Phases DEF TypeOK

\* Deliveries that wait are stored or superseded, and nothing else moves.
LEMMA DropsOnly ==
  ASSUME TypeOK', UNCHANGED <<attempts, carried>>,
         \A i \in Delivery :
           \/ PhaseOf(status'[i]) = PhaseOf(status[i])
           \/ status[i] = "absent" /\ status'[i] = "pending"
           \/ PhaseOf(status[i]) = "open" /\ PhaseOf(status'[i]) = "dropped"
  PROVE  Queue!Drop
BY Phases, PhasesNext DEF Queue!Drop

LEMMA SettleRefines ==
  ASSUME IInv, Witnessed, TypeOK', NEW w \in Worker, Settle(w)
  PROVE  Queue!Next \/ UNCHANGED Queue!vars
<1> DEFINE i == job[w].item
           outcome == Outcome(job[w])
<1>1. /\ job[w].pc = "settling" /\ job[w] # Idle /\ i \in Delivery
      /\ job[w].verdict \in Verdict /\ job[w].attempt \in Nat
  BY BusyRow DEF IInv, Settle, Decided, Verdictful
<1>2. UNCHANGED <<attempts, carried>>
  BY DEF Settle, max
<1>3. CASE ~ Holds(w, i)
  BY <1>2, <1>3 DEF Settle, Queue!vars
<1>4. CASE Holds(w, i)
  <2>1. /\ status[i] = "processing" /\ status'[i] = outcome
        /\ \A k \in Delivery \ {i} : status'[k] = status[k]
    BY <1>1, <1>4 DEF Settle, Holds, IInv, TypeOK
  <2>2. PhaseOf(status[i]) = "open"
    BY <2>1, Phases
  <2>3. outcome \in {"sent", "unreachable", "failed", "delivery_unknown", "dead", "pending"}
    BY <1>1 DEF Outcome, Verdict
  <2>4. [k \in Delivery |-> PhaseOf(status'[k])] =
          [[k \in Delivery |-> PhaseOf(status[k])] EXCEPT ![i] = PhaseOf(outcome)]
    <3> HIDE DEF i, outcome
    <3> QED
      BY <1>1, <2>1
  <2>5. CASE outcome = "sent"
    <3>1. i \in carried
      BY <1>1, <2>5 DEF Outcome, Witnessed
    <3>2. PhaseOf(outcome) = "done"
      BY <2>5, Phases
    <3>3. Queue!Complete(i)
      <4> HIDE DEF i, outcome
      <4> QED
        BY <1>1, <1>2, <2>2, <2>4, <3>1, <3>2 DEF Queue!Complete
    <3> QED
      BY <1>1, <3>3 DEF Queue!Next
  <2>6. CASE outcome = "dead"
    <3>1. job[w].attempt >= MaxAttempts
      BY <1>1, <2>6 DEF Outcome, Verdict
    <3>2. job[w].attempt <= attempts[i] /\ attempts[i] \in Nat /\ MaxAttempts \in Nat
      BY <1>1, OutboxAssumption DEF Witnessed, IInv, TypeOK
    <3>3. attempts[i] >= MaxAttempts
      BY <1>1, <3>1, <3>2
    <3>4. PhaseOf(outcome) = "dead"
      BY <2>6, Phases
    <3>5. Queue!GiveUp(i)
      <4> HIDE DEF i, outcome
      <4> QED
        BY <1>1, <1>2, <2>2, <2>4, <3>3, <3>4 DEF Queue!GiveUp
    <3> QED
      BY <1>1, <3>5 DEF Queue!Next
  <2>7. CASE outcome \in {"unreachable", "failed", "delivery_unknown", "pending"}
    <3>1. Queue!Drop
      BY <1>2, <2>1, <2>2, <2>7, Phases, DropsOnly
    <3> QED
      BY <3>1 DEF Queue!Next
  <2> HIDE DEF outcome
  <2> QED
    BY <2>3, <2>5, <2>6, <2>7
<1> QED
  BY <1>3, <1>4

LEMMA CallRefines ==
  ASSUME IInv, Witnessed, TypeOK', NEW w \in Worker, Call(w)
  PROVE  Queue!Next \/ UNCHANGED Queue!vars
<1>1. UNCHANGED <<status, attempts>>
  BY DEF Call, queue
<1>2. CASE UNCHANGED max
  BY <1>1, <1>2 DEF max, Queue!vars
<1>3. CASE Accept(job[w].item)
  <2>1. job[w] # Idle /\ job[w].item \in Delivery /\ job[w].attempt \in Nat \ {0}
    BY BusyRow DEF Call
  <2>2. attempts[job[w].item] > 0
    BY <2>1 DEF Witnessed, IInv, TypeOK
  <2>3. Queue!Admit({"open"})
    BY <1>1, PhasesNext DEF Queue!Admit
  <2>4. Queue!Run(job[w].item)
    BY <1>1, <1>3, <2>2, <2>3 DEF Accept, Queue!Run
  <2> QED
    BY <2>1, <2>4 DEF Queue!Next
<1> QED
  BY <1>2, <1>3 DEF Call

\* A delivery is reported as sent only if MAX carried it out, and dead only after
\* its attempts; a verdict is never taken back, whichever workers are late
\* (PostgresDeliveryQueue.claim and settle, DeliveryWorker._retry).
THEOREM OutboxImplementsWorkQueue == Spec => ImplementsWorkQueue
<1>1. Init => Queue!Init
  BY Phases DEF Init, Queue!Init
<1>2. IInv /\ Witnessed /\ TypeOK' /\ [Next]_vars => [Queue!Next]_(Queue!vars)
  <2> SUFFICES ASSUME IInv, Witnessed, TypeOK', [Next]_vars
               PROVE  Queue!Next \/ UNCHANGED Queue!vars
    OBVIOUS
  <2>1. ASSUME NEW i \in Delivery, Enqueue(i)
        PROVE  Queue!Drop
    <3>1. status' = [j \in Delivery |->
             CASE j \in Coalesced(i) -> "superseded"
               [] j = i /\ i \notin Stored -> "pending"
               [] OTHER -> status[j]]
      BY <2>1 DEF Enqueue
    <3>2. \A j \in Delivery :
            \/ status'[j] = status[j]
            \/ status[j] = "absent" /\ status'[j] = "pending"
            \/ status[j] = "pending" /\ status'[j] = "superseded"
      BY <3>1 DEF Coalesced, Stored
    <3>3. UNCHANGED <<attempts, carried>>
      BY <2>1 DEF Enqueue, max
    <3> QED
      BY <3>2, <3>3, Phases, DropsOnly
  <2>2. ASSUME NEW i \in Delivery, Withdraw(i)
        PROVE  Queue!Drop
    <3>1. \A j \in Delivery :
            \/ status'[j] = status[j]
            \/ status[j] = "pending" /\ status'[j] = "superseded"
      BY <2>2 DEF Withdraw, IInv, TypeOK
    <3>2. UNCHANGED <<attempts, carried>>
      BY <2>2 DEF Withdraw, max
    <3> QED
      BY <3>1, <3>2, Phases, DropsOnly
  <2>3. ASSUME NEW w \in Worker, NEW i \in Delivery, Claim(w, i)
        PROVE  Queue!Try(i)
    <3>1. /\ status[i] \in {"pending", "processing"}
          /\ \A j \in Delivery : status'[j] = IF j = i THEN "processing" ELSE status[j]
          /\ attempts' = [attempts EXCEPT ![i] = @ + 1] /\ carried' = carried
      BY <2>3 DEF Claim, IInv, TypeOK, max
    <3>2. PhaseOf(status[i]) = "open" /\ \A j \in Delivery : PhaseOf(status'[j]) = PhaseOf(status[j])
      BY <3>1, Phases
    <3> QED
      BY <3>1, <3>2 DEF Queue!Try
  <2>4. CASE UNCHANGED <<status, attempts, carried>>
    BY <2>4 DEF Queue!vars
  <2>5. ASSUME NEW w \in Worker, Read(w) \/ Upload(w) \/ SaveToken(w) \/ Crash(w)
        PROVE  UNCHANGED <<status, attempts, carried>>
    BY <2>5 DEF Read, Upload, SaveToken, Crash, queue, max
  <2>6. ASSUME NEW i \in Delivery, Lapse(i)
        PROVE  UNCHANGED <<status, attempts, carried>>
    BY <2>6 DEF Lapse, max
  <2>7. CASE UNCHANGED vars
    BY <2>4, <2>7 DEF vars, queue, max
  <2> QED
    BY <2>1, <2>2, <2>3, <2>4, <2>5, <2>6, <2>7, CallRefines, SettleRefines DEF Next, Queue!Next
<1>3. Init => Witnessed
  BY DEF Init, Witnessed
<1>4. Spec => []Witnessed
  BY <1>3, OutboxInvariant, WitnessNext, PTL DEF Spec
<1> QED
  BY <1>1, <1>2, <1>4, OutboxInvariant, TypeCorrect, PTL DEF Spec, Queue!Spec, ImplementsWorkQueue

=============================================================================
