--------------------------- MODULE FulfilmentProofs ---------------------------
(***************************************************************************)
(* What the executor, the case and its check say of one request agrees,    *)
(* for any residents, calls, events, workers and faults.                   *)
(*                                                                         *)
(* From the approval on nothing but the status of the request moves, so    *)
(* the executor holds the draft that was approved.  The operation only     *)
(* grows: what a worker has read of it stays true, and done is its last    *)
(* word, so that a check belongs to the event by which the work was done.  *)
(***************************************************************************)
EXTENDS Fulfilment, TLAPS

\* An approval is of the draft that stands, by one who was shown it.
Approval ==
  request.status \in {"approved"} \cup Ordered =>
    /\ request.approved = request.draft
    /\ request.approver \in Actor
    /\ seen[request.approver] = request.draft

\* A call that has reserved the submission, and the executor, hold it.
Taken ==
  /\ operation # None => request.status \in Ordered /\ operation.revision = request.draft
  /\ request.status \in {"submitted", "registered"} => operation # None
  /\ \A c \in Call :
       /\ call[c].step \in {"reserved", "sent"} => request.status \in Ordered
       /\ call[c].step = "sent" => operation # None

\* An operation is registered first, and done last.
History ==
  operation # None =>
    \A i \in 1..Len(operation.history) :
      /\ i = 1 => operation.history[i] = [event |-> Registration, status |-> "registered"]
      /\ i > 1 => /\ operation.history[i].event \in StatusEvent
                  /\ operation.history[i].status \in {"in_progress", "done"}
      /\ operation.history[i].status = "done" => i = Len(operation.history)

\* What the inbox holds has happened.
Inboxed ==
  /\ \A e \in StatusEvent : event[e].status # "absent" =>
       /\ operation # None
       /\ event[e].version \in 1..Len(operation.history)
       /\ operation.history[event[e].version].event = e
  /\ event[Registration].status # "absent" => operation # None /\ operation.history # <<>>
  /\ event["decided"].status # "absent" => poll \in Verdict

\* The row knows the executor from the registration on.
External ==
  /\ request.externalVersion > 0 <=> request.status = "registered"
  /\ ExternalIsTrue

\* What a worker knows of its event in each step of the handler.
Fits(h) ==
  LET e == handler[h].event  step == handler[h].step  answer == handler[h].answer IN
  e # None =>
    /\ event[e].status # "absent"
    /\ step \in {"read", "record", "look", "view", "start"} => e \in StatusEvent
    /\ step = "register" => e = Registration
    /\ step = "decide" => e = "decided"
    /\ step \in {"check", "draft"} => e = "deadline"
    /\ step = "record" => /\ answer.version \in 1..Len(operation.history)
                          /\ answer.status = operation.history[answer.version].status
    /\ step \in {"view", "start"} => /\ request.external = "done"
                                     /\ request.externalVersion = event[e].version

Duties == \A h \in Handler : Fits(h)

\* A check belongs to the event that brought done, and ends as its poll.
Checked ==
  /\ check.status = "none" => check = NoCheck /\ poll = "none"
  /\ check.status # "none" =>
       /\ poll # "none"
       /\ request.status = "registered" /\ request.external = "done"
       /\ operation.history[request.externalVersion].event = check.doneEvent
  /\ check.status \in Verdict => poll = check.status

IInv ==
  /\ TypeOK /\ Approval /\ Taken /\ History /\ Inboxed
  /\ External /\ Duties /\ Checked /\ CaseFollowsRows

-----------------------------------------------------------------------------
(* What a step leaves as it was *)

RequestRow == [status : RequestStatus, draft : 0..MaxDraft,
               approved : 0..MaxDraft, approver : Actor \cup {None},
               submitKey : Key \cup {None}, executorKey : Key \cup {None},
               external : ExternalStatus \cup {None},
               externalVersion : Nat, document : BOOLEAN]
CaseRow == [status : CaseStatus, version : Nat \ {0}]
EventRow == [status : EventStatus, attempts : Nat, owner : Handler \cup {None}, version : Nat]
AnswerRow == [status : ExternalStatus \cup {None}, version : Nat]
ViewRow == [status : CaseStatus \cup {None}, version : Nat]
HandlerRow == [event : Event \cup {None}, step : Step, answer : AnswerRow, view : ViewRow]

Grown ==
  operation # None =>
    /\ operation' # None
    /\ Len(operation.history) <= Len(operation'.history)
    /\ \A i \in 1..Len(operation.history) : operation'.history[i] = operation.history[i]

Kept ==
  \A e \in Event : event[e].status # "absent" =>
    event'[e].status # "absent" /\ event'[e].version = event[e].version

Lasting ==
  request.external = "done" /\ request.externalVersion > 0 =>
    request'.external = "done" /\ request'.externalVersion = request.externalVersion

\* What is stored keeps what was stored.
LEMMA StoredKeeps ==
  ASSUME TypeOK, NEW e \in Event, NEW version \in Nat, event' = Stored(e, version)
  PROVE  /\ event' \in [Event -> EventRow] /\ Kept
         /\ \A f \in Event : f # e => event'[f] = event[f]
         /\ event[e].status = "absent" => event'[e].version = version
  BY DEF TypeOK, Stored, Kept, EventRow, EventStatus

LEMMA SameEvents ==
  ASSUME UNCHANGED event
  PROVE  Kept
  BY DEF Kept

LEMMA SameOperation ==
  ASSUME TypeOK, UNCHANGED operation
  PROVE  Grown
  BY DEF TypeOK, ExecutorTypeOK, Grown

\* A worker that is not at work in a step knows what it knew.
LEMMA FitsStays ==
  ASSUME TypeOK, Inboxed, NEW h \in Handler, Fits(h), handler'[h] = handler[h],
         Grown, Kept, Lasting
  PROVE  Fits(h)'
<1> DEFINE e == handler[h].event
<1>1. CASE e = None
  BY <1>1 DEF Fits
<1>2. CASE e # None
  <2>1. e \in Event
    BY <1>2 DEF TypeOK
  <2>2. event[e].status # "absent" /\ event'[e].status # "absent" /\ event'[e].version = event[e].version
    BY <1>2, <2>1 DEF Fits, Kept
  <2>3. CASE handler[h].step = "record"
    <3>1. operation # None
      BY <1>2, <2>2, <2>3 DEF Fits, Inboxed
    <3>2. operation.history \in Seq(Change)
      BY <3>1 DEF TypeOK, ExecutorTypeOK
    <3> QED
      BY <1>2, <2>2, <2>3, <3>1, <3>2 DEF Fits, Grown
  <2>4. CASE handler[h].step # "record"
    BY <1>2, <2>2, <2>4 DEF Fits, Lasting, Inboxed
  <2> QED
    BY <2>3, <2>4
<1> QED
  BY <1>1, <1>2

LEMMA DutiesStay ==
  ASSUME TypeOK, Inboxed, Duties, UNCHANGED handler, Grown, Kept, Lasting
  PROVE  Duties'
  BY FitsStays DEF Duties

LEMMA OneMoves ==
  ASSUME TypeOK, Inboxed, Duties, NEW h \in Handler, NEW row,
         handler' = [handler EXCEPT ![h] = row], Grown, Kept, Lasting, Fits(h)'
  PROVE  Duties'
<1>1. \A g \in Handler \ {h} : handler'[g] = handler[g]
  BY DEF TypeOK
<1> QED
  BY <1>1, FitsStays DEF Duties

LEMMA InboxedStays ==
  ASSUME TypeOK, Inboxed, Grown, UNCHANGED poll,
         \A e \in Event : event'[e].status # "absent" =>
           event[e].status # "absent" /\ event'[e].version = event[e].version
  PROVE  Inboxed'
<1>1. StatusEvent \subseteq Event /\ Registration \in Event /\ "decided" \in Event
  BY DEF Event
<1>2. operation # None => operation.history \in Seq(Change)
  BY DEF TypeOK, ExecutorTypeOK
<1>3. operation # None => operation' # None /\ (operation.history # <<>> => operation'.history # <<>>)
  BY <1>2 DEF Grown
<1> QED
  BY <1>1, <1>2, <1>3 DEF Inboxed, Grown

LEMMA TypesStay ==
  ASSUME TypeOK, case' \in CaseRow, request' \in RequestRow,
         UNCHANGED <<operation, recorded, checkVars, workVars, boundVars>>,
         seen' \in [Actor -> 0..MaxDraft],
         call' \in [Call -> [step : {"idle", "checked", "reserved", "sent", "over"},
                             revision : 0..MaxDraft]]
  PROVE  TypeOK'
  BY DEF TypeOK, ExecutorTypeOK, RequestsTypeOK, ResolutionTypeOK, RequestRow, CaseRow,
         checkVars, workVars, boundVars

\* A write that leaves the executor, the check and the workers alone.
LEMMA QuietWrite ==
  ASSUME IInv, UNCHANGED <<operation, checkVars, workVars>>, Lasting,
         TypeOK', Approval', Taken', External', CaseFollowsRows'
  PROVE  IInv'
<1> USE DEF IInv
<1>1. Grown /\ Kept
  BY SameEvents, SameOperation DEF workVars
<1>2. Duties'
  BY <1>1, DutiesStay DEF workVars
<1>3. Inboxed' /\ History'
  BY DEF Inboxed, History, workVars, checkVars
<1>4. request.status = "registered" => request.externalVersion > 0
  BY DEF External
<1>5. Checked'
  BY <1>4 DEF Checked, External, Lasting, NoCheck, checkVars
<1> QED
  BY <1>2, <1>3, <1>5

-----------------------------------------------------------------------------
(* Drafts, approvals and other writes to the case *)

LEMMA PrepareKeeps ==
  ASSUME IInv, Prepare, UNCHANGED <<operation, checkVars, call, workVars, boundVars>>
  PROVE  IInv'
<1> USE DEF IInv
<1>1. request.status = "none" /\ check = NoCheck /\ operation = None
  BY DEF Prepare, CaseFollowsRows, Checked, Taken, TypeOK, RequestsTypeOK, ResolutionTypeOK,
         RequestStatus, Verdict, NoCheck, Ordered
<1>2. TypeOK'
  <2>1. case' \in CaseRow
    BY DEF TypeOK, RequestsTypeOK, Prepare, Versioned, CaseStatus, CaseRow
  <2>2. 1 \in 0..MaxDraft /\ 0 \in 0..MaxDraft
    BY FulfilmentAssumption
  <2>3. request' \in RequestRow
    BY <2>2 DEF Prepare, NoRequest, RequestRow, RequestStatus
  <2> QED
    BY <2>1, <2>3, TypesStay DEF Prepare, TypeOK, RequestsTypeOK
<1>3. request'.status = "prepared" /\ request'.externalVersion = 0
  BY DEF Prepare, NoRequest
<1>4. Approval' /\ Taken'
  BY <1>1, <1>3 DEF Approval, Taken, Ordered
<1>5. External' /\ Lasting
  BY <1>1, <1>3 DEF External, ExternalIsTrue, Lasting, TypeOK, RequestsTypeOK
<1>6. CaseFollowsRows'
  BY <1>1, <1>3 DEF CaseFollowsRows, Prepare, Versioned, checkVars, NoCheck, Verdict
<1> QED
  BY <1>2, <1>4, <1>5, <1>6, QuietWrite

LEMMA ReviseKeeps ==
  ASSUME IInv, Revise, UNCHANGED <<operation, checkVars, call, workVars, boundVars>>
  PROVE  IInv'
<1> USE DEF IInv
<1>1. TypeOK'
  <2>1. request.draft + 1 \in 0..MaxDraft /\ 0 \in 0..MaxDraft
    BY FulfilmentAssumption DEF Revise, TypeOK, RequestsTypeOK
  <2>2. request' \in RequestRow
    BY <2>1 DEF Revise, TypeOK, RequestsTypeOK, RequestRow, RequestStatus
  <2>3. case' \in CaseRow
    BY DEF Revise, TypeOK, RequestsTypeOK, CaseRow
  <2> QED
    BY <2>2, <2>3, TypesStay DEF Revise, TypeOK, RequestsTypeOK
<1>2. /\ request'.status = "prepared" /\ request.status \in {"prepared", "approved"}
      /\ request'.externalVersion = request.externalVersion
      /\ request'.external = request.external
  BY DEF Revise, TypeOK, RequestsTypeOK
<1>3. Approval' /\ Taken'
  BY <1>2 DEF Approval, Taken, Ordered
<1>4. External' /\ Lasting
  BY <1>2 DEF External, ExternalIsTrue, Lasting, TypeOK, RequestsTypeOK
<1>5. CaseFollowsRows'
  BY <1>2 DEF CaseFollowsRows, Revise, checkVars, NoCheck, Verdict
<1> QED
  BY <1>1, <1>3, <1>4, <1>5, QuietWrite

LEMMA ShowKeeps ==
  ASSUME IInv, NEW a \in Actor, Show(a),
         UNCHANGED <<operation, checkVars, call, workVars, boundVars>>
  PROVE  IInv'
<1> USE DEF IInv
<1>1. TypeOK'
  <2>1. case' \in CaseRow /\ request' \in RequestRow /\ seen' \in [Actor -> 0..MaxDraft]
    BY DEF Show, TypeOK, RequestsTypeOK, CaseRow, RequestRow
  <2> QED
    BY <2>1, TypesStay DEF Show, TypeOK
<1>2. Approval'
  BY DEF Approval, Show, TypeOK, RequestsTypeOK
<1>3. Taken' /\ External' /\ Lasting /\ CaseFollowsRows'
  BY DEF Taken, External, ExternalIsTrue, Lasting, CaseFollowsRows, checkVars, Show
<1> QED
  BY <1>1, <1>2, <1>3, QuietWrite

LEMMA ApproveKeeps ==
  ASSUME IInv, NEW a \in Actor, Approve(a),
         UNCHANGED <<operation, checkVars, call, workVars, boundVars>>
  PROVE  IInv'
<1> USE DEF IInv
<1>1. TypeOK'
  <2>1. case' \in CaseRow /\ request' \in RequestRow
    BY DEF Approve, TypeOK, RequestsTypeOK, CaseRow, RequestRow, RequestStatus
  <2> QED
    BY <2>1, TypesStay DEF Approve, TypeOK, RequestsTypeOK
<1>2. /\ request'.status = "approved" /\ request.status = "prepared"
      /\ request'.externalVersion = request.externalVersion
      /\ request'.external = request.external
      /\ request'.approved = request'.draft /\ request'.approver = a /\ seen[a] = request'.draft
  BY DEF Approve, TypeOK, RequestsTypeOK
<1>3. Approval' /\ Taken'
  BY <1>2 DEF Approval, Approve, Taken, Ordered
<1>4. External' /\ Lasting
  BY <1>2 DEF External, ExternalIsTrue, Lasting, TypeOK, RequestsTypeOK
<1>5. CaseFollowsRows'
  BY <1>2 DEF CaseFollowsRows, Approve, checkVars, NoCheck, Verdict
<1> QED
  BY <1>1, <1>3, <1>4, <1>5, QuietWrite

LEMMA AttachKeeps ==
  ASSUME IInv, Attach
  PROVE  IInv'
<1> USE DEF IInv
<1>1. case'.status = case.status /\ case' \in CaseRow
  BY DEF Attach, Touch, Versioned, TypeOK, RequestsTypeOK, CaseRow
<1>2. TypeOK'
  BY <1>1, FulfilmentAssumption
  DEF Attach, Touch, TypeOK, ExecutorTypeOK, RequestsTypeOK, ResolutionTypeOK, CaseRow,
      checkVars, workVars, boundVars
<1>3. Approval' /\ Taken' /\ External' /\ Lasting
  BY DEF Approval, Taken, External, ExternalIsTrue, Lasting, Attach, Touch
<1>4. CaseFollowsRows'
  BY <1>1 DEF CaseFollowsRows, Attach, Touch, checkVars
<1> QED
  BY <1>2, <1>3, <1>4, QuietWrite DEF Attach

-----------------------------------------------------------------------------
(* The sessions of submit *)

CallRow == [step : {"idle", "checked", "reserved", "sent", "over"}, revision : 0..MaxDraft]

LEMMA CallMoves ==
  ASSUME TypeOK, NEW c \in Call, NEW row \in CallRow, call' = [call EXCEPT ![c] = row]
  PROVE  call' \in [Call -> CallRow] /\ call'[c] = row /\ \A d \in Call \ {c} : call'[d] = call[d]
  BY DEF TypeOK, CallRow

LEMMA CheckCallKeeps ==
  ASSUME IInv, NEW c \in Call, CheckCall(c)
  PROVE  IInv'
<1> USE DEF IInv
<1>1. [step |-> "checked", revision |-> seen[ActorOf[c]]] \in CallRow
  BY FulfilmentAssumption DEF TypeOK, RequestsTypeOK, CallRow
<1>2. /\ call' \in [Call -> CallRow] /\ call'[c].step = "checked"
      /\ \A d \in Call \ {c} : call'[d] = call[d]
  BY <1>1, CallMoves DEF CheckCall
<1>3. TypeOK'
  <2>1. case' \in CaseRow /\ request' \in RequestRow
    BY DEF CheckCall, requestVars, TypeOK, RequestsTypeOK, CaseRow, RequestRow
  <2> QED
    BY <1>2, <2>1, TypesStay DEF CheckCall, requestVars, TypeOK, RequestsTypeOK, CallRow
<1>4. Taken'
  BY <1>2 DEF Taken, CheckCall, requestVars
<1>5. Approval' /\ External' /\ Lasting /\ CaseFollowsRows'
  BY DEF Approval, External, ExternalIsTrue, Lasting, CaseFollowsRows, CheckCall,
         requestVars, checkVars
<1> QED
  BY <1>3, <1>4, <1>5, QuietWrite DEF CheckCall

LEMMA ReserveCallKeeps ==
  ASSUME IInv, NEW c \in Call, ReserveCall(c)
  PROVE  IInv'
<1> USE DEF IInv
<1>1. \/ UNCHANGED request
      \/ /\ request.status = "approved"
         /\ request' = [request EXCEPT !.submitKey = KeyOf[c], !.status = "submitting"]
  BY DEF ReserveCall, CanReserve, Reserve
<1>2. request \in RequestRow /\ KeyOf[c] \in Key
  BY FulfilmentAssumption DEF TypeOK, RequestsTypeOK, RequestRow
<1>3. /\ request' \in RequestRow
      /\ \/ request'.status = request.status
         \/ request.status = "approved" /\ request'.status = "submitting"
      /\ request'.draft = request.draft /\ request'.approved = request.approved
      /\ request'.approver = request.approver /\ request'.external = request.external
      /\ request'.externalVersion = request.externalVersion
  BY <1>1, <1>2 DEF RequestRow, RequestStatus
<1>4. \E row \in CallRow :
        /\ call' = [call EXCEPT ![c] = row]
        /\ row.step \in {"reserved", "over"}
        /\ row.step = "reserved" => request'.status = "submitting"
  <2>1. CASE call' = [call EXCEPT ![c].step = "reserved"] /\ request'.status = "submitting"
    <3>1. call' = [call EXCEPT ![c] = [call[c] EXCEPT !.step = "reserved"]]
      BY <2>1
    <3>2. [call[c] EXCEPT !.step = "reserved"] \in CallRow
      BY DEF TypeOK, CallRow
    <3>3. [call[c] EXCEPT !.step = "reserved"].step = "reserved"
      BY DEF TypeOK, CallRow
    <3> QED
      BY <2>1, <3>1, <3>2, <3>3
  <2>2. CASE call' = [call EXCEPT ![c] = Over]
    <3>1. Over \in CallRow /\ Over.step = "over"
      BY FulfilmentAssumption DEF Over, NoCall, CallRow
    <3> QED
      BY <2>2, <3>1
  <2> QED
    BY <2>1, <2>2 DEF ReserveCall
<1>5. /\ call' \in [Call -> CallRow] /\ \A d \in Call \ {c} : call'[d] = call[d]
      /\ call'[c].step # "sent" /\ (call'[c].step = "reserved" => request'.status = "submitting")
  BY <1>4, CallMoves
<1>6. TypeOK'
  <2>1. case' \in CaseRow
    BY DEF ReserveCall, TypeOK, RequestsTypeOK, CaseRow
  <2> QED
    BY <1>3, <1>5, <2>1, TypesStay DEF ReserveCall, TypeOK, RequestsTypeOK, CallRow
<1>7. Approval'
  BY <1>3 DEF Approval, ReserveCall, Ordered
<1>8. Taken'
  BY <1>3, <1>5 DEF Taken, ReserveCall, Ordered
<1>9. External' /\ Lasting
  BY <1>3 DEF External, ExternalIsTrue, Lasting, ReserveCall
<1>10. CaseFollowsRows'
  BY <1>3 DEF CaseFollowsRows, ReserveCall, checkVars, NoCheck, Verdict
<1> QED
  BY <1>6, <1>7, <1>8, <1>9, <1>10, QuietWrite DEF ReserveCall

LEMMA MarkCallKeeps ==
  ASSUME IInv, NEW c \in Call, MarkCall(c)
  PROVE  IInv'
<1> USE DEF IInv
<1>1. \/ UNCHANGED <<case, request>>
      \/ /\ request.status = "submitting"
         /\ request' = [request EXCEPT !.executorKey = operation.key, !.status = "submitted"]
         /\ Versioned("awaiting_registration")
  BY DEF MarkCall, CanMark, MarkSubmitted
<1>2. operation # None
  BY DEF MarkCall, Taken
<1>3. /\ request' \in RequestRow /\ case' \in CaseRow
      /\ \/ request'.status = request.status /\ case' = case
         \/ /\ request.status = "submitting" /\ request'.status = "submitted"
            /\ case'.status = "awaiting_registration"
      /\ request'.draft = request.draft /\ request'.approved = request.approved
      /\ request'.approver = request.approver /\ request'.external = request.external
      /\ request'.externalVersion = request.externalVersion
  <2>1. operation.key \in Key
    BY <1>2 DEF TypeOK, ExecutorTypeOK
  <2>2. case \in CaseRow /\ request \in RequestRow
    BY DEF TypeOK, RequestsTypeOK, RequestRow, CaseRow
  <2>3. CASE UNCHANGED <<case, request>>
    BY <2>2, <2>3
  <2>4. CASE ~ UNCHANGED <<case, request>>
    <3>1. request' \in RequestRow
      BY <1>1, <2>1, <2>2, <2>4 DEF RequestRow, RequestStatus
    <3>2. case' \in CaseRow /\ case'.status = "awaiting_registration"
      BY <1>1, <2>2, <2>4 DEF CaseRow, Versioned, CaseStatus
    <3> QED
      BY <1>1, <2>2, <2>4, <3>1, <3>2 DEF RequestRow
  <2> QED
    BY <2>3, <2>4
<1>4. /\ call' \in [Call -> CallRow] /\ call'[c].step = "over"
      /\ \A d \in Call \ {c} : call'[d] = call[d]
  <2>1. Over \in CallRow /\ Over.step = "over"
    BY FulfilmentAssumption DEF Over, NoCall, CallRow
  <2> QED
    BY <2>1, CallMoves DEF MarkCall
<1>5. TypeOK'
  BY <1>3, <1>4, TypesStay DEF MarkCall, TypeOK, RequestsTypeOK, CallRow
<1>6. Approval'
  BY <1>3 DEF Approval, MarkCall, Ordered
<1>7. Taken'
  BY <1>2, <1>3, <1>4 DEF Taken, MarkCall, Ordered
<1>8. External' /\ Lasting
  BY <1>3 DEF External, ExternalIsTrue, Lasting, MarkCall
<1>9. CaseFollowsRows'
  BY <1>3 DEF CaseFollowsRows, MarkCall, checkVars, Checked, NoCheck, Verdict
<1> QED
  BY <1>5, <1>6, <1>7, <1>8, <1>9, QuietWrite DEF MarkCall

\* The executor takes the draft that is approved, once.
LEMMA SendCallKeeps ==
  ASSUME IInv, NEW c \in Call, SendCall(c)
  PROVE  IInv'
<1> USE DEF IInv
<1>1. \/ UNCHANGED operation
      \/ /\ operation = None /\ request.draft = call[c].revision
         /\ operation' = [key |-> KeyOf[c], revision |-> call[c].revision, history |-> <<>>]
  BY DEF SendCall, Accepts, SubmitOnce
<1>2. request.status \in Ordered
  BY DEF SendCall, Taken
<1>3. ExecutorTypeOK'
  <2>1. KeyOf[c] \in Key /\ call[c].revision \in Nat
    BY FulfilmentAssumption DEF TypeOK
  <2>2. <<>> \in Seq(Change)
    OBVIOUS
  <2>3. [key |-> KeyOf[c], revision |-> call[c].revision, history |-> <<>>]
          \in [key : Key, revision : Nat, history : Seq(Change)]
    BY <2>1, <2>2
  <2> QED
    BY <1>1, <2>3 DEF TypeOK, ExecutorTypeOK
<1>4. \E row \in CallRow :
        /\ call' = [call EXCEPT ![c] = row]
        /\ row.step \in {"sent", "over"}
        /\ row.step = "sent" => operation' # None
  <2>1. CASE call' = [call EXCEPT ![c].step = "sent"] /\ operation' # None
    <3>1. call' = [call EXCEPT ![c] = [call[c] EXCEPT !.step = "sent"]]
      BY <2>1
    <3>2. /\ [call[c] EXCEPT !.step = "sent"] \in CallRow
          /\ [call[c] EXCEPT !.step = "sent"].step = "sent"
      BY DEF TypeOK, CallRow
    <3> QED
      BY <2>1, <3>1, <3>2
  <2>2. CASE call' = [call EXCEPT ![c] = Over]
    <3>1. Over \in CallRow /\ Over.step = "over"
      BY FulfilmentAssumption DEF Over, NoCall, CallRow
    <3> QED
      BY <2>2, <3>1
  <2>4. Accepts(KeyOf[c], call[c].revision, request) => operation' # None
    <3>1. KeyOf[c] \in Key /\ call[c].revision \in Nat /\ <<>> \in Seq(Change)
      BY FulfilmentAssumption DEF TypeOK
    <3>2. [key |-> KeyOf[c], revision |-> call[c].revision, history |-> <<>>]
            \in [key : Key, revision : Nat, history : Seq(Change)]
      BY <3>1
    <3> QED
      BY <3>2, FulfilmentAssumption DEF SendCall, SubmitOnce
  <2> QED
    BY <2>1, <2>2, <2>4 DEF SendCall
<1>5. /\ call' \in [Call -> CallRow] /\ \A d \in Call \ {c} : call'[d] = call[d]
      /\ call'[c].step # "reserved" /\ (call'[c].step = "sent" => operation' # None)
  BY <1>4, CallMoves
<1>6. TypeOK'
  BY <1>3, <1>5
  DEF SendCall, TypeOK, RequestsTypeOK, ResolutionTypeOK, requestVars, checkVars, workVars,
      boundVars, CallRow
<1>7. Grown /\ Kept /\ Lasting
  BY <1>1, SameOperation, SameEvents DEF Grown, Lasting, SendCall, requestVars, workVars
<1>8. Approval' /\ CaseFollowsRows'
  BY DEF Approval, CaseFollowsRows, SendCall, requestVars, checkVars
<1>9. Taken'
  BY <1>1, <1>2, <1>5, <1>7 DEF Taken, SendCall, requestVars, Grown
<1>10. History'
  BY <1>1 DEF History
<1>11. operation = None => request.externalVersion = 0 /\ check.status = "none"
  BY DEF Taken, External, Checked, TypeOK, RequestsTypeOK
<1>12. External' /\ Checked'
  BY <1>1, <1>11
  DEF External, ExternalIsTrue, Checked, SendCall, requestVars, checkVars, VersionOf, NoCheck, Verdict
<1>13. Duties' /\ Inboxed'
  BY <1>7, DutiesStay, InboxedStays DEF SendCall, workVars, checkVars
<1> QED
  BY <1>6, <1>8, <1>9, <1>10, <1>12, <1>13

-----------------------------------------------------------------------------
(* The operator, the document worker and the poll *)

\* What was read of an operation stays true when it grows.
LEMMA ReadStaysTrue ==
  ASSUME IInv, Grown, UNCHANGED <<request, checkVars>>, TypeOK'
  PROVE  External' /\ Checked'
<1> USE DEF IInv
<1>1. operation # None => operation.history \in Seq(Change) /\ operation'.history \in Seq(Change)
  BY DEF TypeOK, ExecutorTypeOK, Grown
<1>2. request.externalVersion > 0 =>
        /\ operation # None
        /\ request.externalVersion \in 1..Len(operation.history)
  BY <1>1 DEF External, ExternalIsTrue, VersionOf, TypeOK, RequestsTypeOK
<1>3. External'
  BY <1>1, <1>2 DEF External, ExternalIsTrue, VersionOf, Grown
<1>4. check.status # "none" => request.externalVersion > 0
  BY DEF Checked, External
<1>5. check.status # "none" =>
        operation'.history[request.externalVersion] = operation.history[request.externalVersion]
  BY <1>2, <1>4 DEF Grown
<1> QED
  BY <1>3, <1>5 DEF Checked, checkVars, NoCheck, Verdict

\* An event that is stored with what it is about.
LEMMA InboxedAdds ==
  ASSUME IInv, Grown, NEW e \in Event, NEW version \in Nat, event' = Stored(e, version),
         poll' = poll \/ poll' \in Verdict, TypeOK',
         e = Registration => operation' # None /\ operation'.history # <<>>,
         e \in StatusEvent => /\ operation' # None
                              /\ version \in 1..Len(operation'.history)
                              /\ operation'.history[version].event = e,
         e = "decided" => poll' \in Verdict
  PROVE  Inboxed'
<1> USE DEF IInv
<1>1. /\ \A f \in Event : f # e => event'[f] = event[f]
      /\ Kept
      /\ event[e].status = "absent" => event'[e].version = version
  BY StoredKeeps
<1>2. StatusEvent \subseteq Event /\ Registration \in Event /\ "decided" \in Event
  BY DEF Event
<1>3. /\ operation # None => operation.history \in Seq(Change)
      /\ operation' # None => operation'.history \in Seq(Change)
  BY DEF TypeOK, ExecutorTypeOK
<1>4. ASSUME NEW f \in StatusEvent, event'[f].status # "absent"
      PROVE  /\ operation' # None
             /\ event'[f].version \in 1..Len(operation'.history)
             /\ operation'.history[event'[f].version].event = f
  <2>1. CASE event[f].status # "absent"
    <3>1. event'[f].version = event[f].version
      BY <1>1, <1>2, <2>1 DEF Kept
    <3>2. /\ operation # None /\ event[f].version \in 1..Len(operation.history)
          /\ operation.history[event[f].version].event = f
      BY <2>1 DEF Inboxed
    <3> QED
      BY <1>3, <3>1, <3>2 DEF Grown
  <2>2. CASE event[f].status = "absent"
    BY <1>1, <1>2, <1>4, <2>2
  <2> QED
    BY <2>1, <2>2
<1>5. event'[Registration].status # "absent" => operation' # None /\ operation'.history # <<>>
  <2>1. CASE e = Registration
    BY <2>1
  <2>2. CASE e # Registration
    <3>1. event'[Registration] = event[Registration]
      BY <1>1, <1>2, <2>2
    <3> QED
      BY <1>3, <3>1 DEF Inboxed, Grown
  <2> QED
    BY <2>1, <2>2
<1>6. event'["decided"].status # "absent" => poll' \in Verdict
  BY <1>1, <1>2 DEF Inboxed
<1> QED
  BY <1>4, <1>5, <1>6 DEF Inboxed

LEMMA FirstOrLater ==
  ASSUME NEW n \in Nat \ {0}
  PROVE  n \in 1..n /\ (n = 1 \/ n > 1)
  OBVIOUS

\* An operation that is not registered has no history.
LEMMA UnregisteredIsEmpty ==
  ASSUME IInv, RegisterAtomic
  PROVE  operation.history = <<>>
<1> USE DEF IInv
<1>1. operation # None /\ operation \in [key : Key, revision : Nat, history : Seq(Change)]
  BY DEF RegisterAtomic, TypeOK, ExecutorTypeOK
<1>2. SUFFICES ASSUME operation.history # <<>>
               PROVE  operation.history[Len(operation.history)].status # "submitted"
  BY DEF RegisterAtomic, StatusOf
<1>3. PICK n \in Nat \ {0} : n = Len(operation.history)
  BY <1>1, <1>2
<1>4. n \in 1..Len(operation.history) /\ (n = 1 \/ n > 1)
  BY <1>3, FirstOrLater
<1>5. operation.history[n].status # "submitted"
  BY <1>1, <1>4 DEF History
<1> QED
  BY <1>3, <1>5

LEMMA OperatorRegistersKeeps ==
  ASSUME IInv, OperatorRegisters
  PROVE  IInv'
<1> USE DEF IInv
<1> DEFINE change == [event |-> Registration, status |-> "registered"]
<1>1. operation # None /\ operation \in [key : Key, revision : Nat, history : Seq(Change)]
  BY DEF OperatorRegisters, RegisterAtomic, TypeOK, ExecutorTypeOK
<1>2. operation.history = <<>>
  BY UnregisteredIsEmpty DEF OperatorRegisters
<1>3. operation' = [operation EXCEPT !.history = <<change>>]
  BY DEF OperatorRegisters, RegisterAtomic
<1>4. change \in Change /\ <<change>> \in Seq(Change)
  BY DEF Change, ExternalStatus
<1>5. /\ operation' \in [key : Key, revision : Nat, history : Seq(Change)]
      /\ operation'.history = <<change>> /\ operation'.revision = operation.revision
  BY <1>1, <1>3, <1>4
<1>6. operation' # None
  BY <1>5, FulfilmentAssumption
<1>7. Registration \in Event
  BY DEF Event
<1>8. event' \in [Event -> EventRow] /\ Kept
  BY <1>7, StoredKeeps DEF OperatorRegisters
<1>9. Grown /\ Lasting
  BY <1>1, <1>2, <1>5, <1>6 DEF Grown, Lasting, OperatorRegisters, requestVars
<1>10. TypeOK'
  BY <1>5, <1>8
  DEF TypeOK, ExecutorTypeOK, RequestsTypeOK, ResolutionTypeOK, EventRow, OperatorRegisters,
      requestVars, checkVars, boundVars
<1>11. Approval' /\ CaseFollowsRows'
  BY DEF Approval, CaseFollowsRows, OperatorRegisters, requestVars, checkVars
<1>12. Taken'
  BY <1>1, <1>5, <1>6 DEF Taken, OperatorRegisters, requestVars
<1>13. History'
  BY <1>5 DEF History
<1>14. Inboxed'
  <2>1. Registration \notin StatusEvent /\ Registration # "decided"
    BY FulfilmentAssumption
  <2>2. operation'.history # <<>>
    BY <1>5
  <2> QED
    BY <1>6, <1>7, <1>9, <1>10, <2>1, <2>2, InboxedAdds DEF OperatorRegisters, checkVars
<1>15. Duties'
  BY <1>8, <1>9, DutiesStay DEF OperatorRegisters
<1> QED
  BY <1>9, <1>10, <1>11, <1>12, <1>13, <1>14, <1>15, ReadStaysTrue
     DEF OperatorRegisters, requestVars

LEMMA OperatorReportsKeeps ==
  ASSUME IInv, NEW e \in StatusEvent, NEW s \in ExternalStatus, OperatorReports(e, s)
  PROVE  IInv'
<1> USE DEF IInv
<1> DEFINE change == [event |-> e, status |-> s]
           n == Len(operation.history)
<1>1. operation # None /\ operation \in [key : Key, revision : Nat, history : Seq(Change)]
  BY DEF OperatorReports, ChangeStatusAtomic, TypeOK, ExecutorTypeOK
<1>2. operation.history # <<>> /\ operation.history[n].status # "done" /\ s \in {"in_progress", "done"}
  BY DEF OperatorReports, ChangeStatusAtomic, StatusOf
<1>3. operation' = [operation EXCEPT !.history = Append(@, change)]
  BY DEF OperatorReports, ChangeStatusAtomic
<1>4. change \in Change
  BY DEF Change
<1>5. n \in Nat \ {0}
  BY <1>1, <1>2
<1>6. /\ operation' \in [key : Key, revision : Nat, history : Seq(Change)]
      /\ operation'.revision = operation.revision
      /\ operation'.history = Append(operation.history, change)
  BY <1>1, <1>3, <1>4
<1>7. /\ Len(operation'.history) = n + 1
      /\ \A i \in 1..n : operation'.history[i] = operation.history[i]
      /\ operation'.history[n + 1] = change
  BY <1>1, <1>4, <1>6
<1>8. operation' # None
  BY <1>6, FulfilmentAssumption
<1>9. e \in Event /\ e # Registration /\ e # "decided"
  BY FulfilmentAssumption DEF Event
<1>10. VersionOf(operation') = n + 1 /\ n + 1 \in Nat
  BY <1>5, <1>7 DEF VersionOf
<1>11. event' = Stored(e, n + 1)
  BY <1>10 DEF OperatorReports
<1>12. event' \in [Event -> EventRow] /\ Kept
  BY <1>9, <1>10, <1>11, StoredKeeps
<1>13. Grown /\ Lasting
  BY <1>5, <1>7, <1>8 DEF Grown, Lasting, OperatorReports, requestVars
<1>14. TypeOK'
  BY <1>6, <1>12
  DEF TypeOK, ExecutorTypeOK, RequestsTypeOK, ResolutionTypeOK, EventRow, OperatorReports,
      requestVars, checkVars, boundVars
<1>15. Approval' /\ CaseFollowsRows'
  BY DEF Approval, CaseFollowsRows, OperatorReports, requestVars, checkVars
<1>16. Taken'
  BY <1>1, <1>6, <1>8 DEF Taken, OperatorReports, requestVars
<1>17. History'
  <2>1. ASSUME NEW i \in 1..(n + 1)
        PROVE  /\ i = 1 => operation'.history[i] = [event |-> Registration, status |-> "registered"]
               /\ i > 1 => /\ operation'.history[i].event \in StatusEvent
                           /\ operation'.history[i].status \in {"in_progress", "done"}
               /\ operation'.history[i].status = "done" => i = n + 1
    <3>1. CASE i = n + 1
      BY <1>2, <1>5, <1>7, <3>1
    <3>2. CASE i # n + 1
      <4>1. i \in 1..n /\ operation'.history[i] = operation.history[i]
        BY <1>5, <1>7, <3>2
      <4>2. operation.history[i].status = "done" => i = n
        BY <1>1, <4>1 DEF History
      <4> QED
        BY <1>1, <1>2, <4>1, <4>2 DEF History
    <3> QED
      BY <3>1, <3>2
  <2> QED
    BY <1>7, <2>1 DEF History
<1>18. Inboxed'
  <2>1. n + 1 \in 1..Len(operation'.history) /\ operation'.history[n + 1].event = e
    BY <1>5, <1>7
  <2>2. poll' = poll
    BY DEF OperatorReports, checkVars
  <2> QED
    BY <1>8, <1>9, <1>10, <1>11, <1>13, <1>14, <2>1, <2>2, InboxedAdds
<1>19. Duties'
  BY <1>12, <1>13, DutiesStay DEF OperatorReports
<1> QED
  BY <1>13, <1>14, <1>15, <1>16, <1>17, <1>18, <1>19, ReadStaysTrue
     DEF OperatorReports, requestVars

LEMMA DocumentIsReadyKeeps ==
  ASSUME IInv, DocumentIsReady
  PROVE  IInv'
<1> USE DEF IInv
<1>1. "document" \in Event /\ "document" \notin StatusEvent
      /\ "document" # Registration /\ 0 \in Nat
  BY FulfilmentAssumption DEF Event
<1>2. event' \in [Event -> EventRow] /\ Kept
  BY <1>1, StoredKeeps DEF DocumentIsReady
<1>3. Grown /\ Lasting
  BY SameOperation DEF Lasting, DocumentIsReady, requestVars
<1>4. TypeOK'
  BY <1>2
  DEF TypeOK, ExecutorTypeOK, RequestsTypeOK, ResolutionTypeOK, EventRow, DocumentIsReady,
      requestVars, checkVars, boundVars
<1>5. Approval' /\ CaseFollowsRows' /\ Taken' /\ History'
  BY DEF Approval, CaseFollowsRows, Taken, History, DocumentIsReady, requestVars, checkVars
<1>6. Inboxed'
  BY <1>1, <1>3, <1>4, InboxedAdds DEF DocumentIsReady, checkVars
<1>7. Duties'
  BY <1>2, <1>3, DutiesStay DEF DocumentIsReady
<1> QED
  BY <1>3, <1>4, <1>5, <1>6, <1>7, ReadStaysTrue DEF DocumentIsReady, requestVars

LEMMA PollEndsKeeps ==
  ASSUME IInv, NEW outcome \in Verdict, PollEnds(outcome)
  PROVE  IInv'
<1> USE DEF IInv
<1>1. "decided" \in Event /\ "decided" \notin StatusEvent
      /\ "decided" # Registration /\ 0 \in Nat
  BY FulfilmentAssumption DEF Event
<1>2. event' \in [Event -> EventRow] /\ Kept
  BY <1>1, StoredKeeps DEF PollEnds
<1>3. Grown /\ Lasting
  BY SameOperation DEF Lasting, PollEnds, requestVars
<1>4. poll = "open" /\ poll' = outcome /\ UNCHANGED check
  BY DEF PollEnds, ClosePoll
<1>5. TypeOK'
  BY <1>2, <1>4
  DEF TypeOK, ExecutorTypeOK, RequestsTypeOK, ResolutionTypeOK, EventRow, PollEnds,
      requestVars, boundVars, PollState
<1>6. Approval' /\ CaseFollowsRows' /\ Taken' /\ History'
  BY <1>4 DEF Approval, CaseFollowsRows, Taken, History, PollEnds, requestVars
<1>7. External' /\ Checked'
  BY <1>4 DEF External, ExternalIsTrue, Checked, PollEnds, requestVars, NoCheck, Verdict
<1>8. Inboxed'
  BY <1>1, <1>3, <1>4, <1>5, InboxedAdds DEF PollEnds
<1>9. Duties'
  BY <1>2, <1>3, DutiesStay DEF PollEnds
<1> QED
  BY <1>5, <1>6, <1>7, <1>8, <1>9

-----------------------------------------------------------------------------
(* Workers *)

\* No row comes or goes, and each keeps its version.
SameRows ==
  \A e \in Event : /\ event'[e].status = "absent" <=> event[e].status = "absent"
                   /\ event'[e].version = event[e].version

LEMMA SameRowsKeep ==
  ASSUME IInv, SameRows, UNCHANGED <<operation, poll>>
  PROVE  Kept /\ Inboxed'
<1> USE DEF IInv
<1>1. Kept /\ Grown
  BY SameOperation DEF SameRows, Kept
<1>2. \A e \in Event : event'[e].status # "absent" =>
        event[e].status # "absent" /\ event'[e].version = event[e].version
  BY DEF SameRows
<1> QED
  BY <1>1, <1>2, InboxedStays

LEMMA HandlerMoves ==
  ASSUME TypeOK, NEW h \in Handler, NEW row \in HandlerRow, handler' = [handler EXCEPT ![h] = row]
  PROVE  handler' \in [Handler -> HandlerRow] /\ handler'[h] = row
  BY DEF TypeOK, HandlerRow, AnswerRow, ViewRow

\* The rows of the case may move too.
LEMMA WorkerKeeps ==
  ASSUME IInv, NEW h \in Handler, NEW row \in HandlerRow,
         handler' = [handler EXCEPT ![h] = row], Fits(h)',
         UNCHANGED operation, Kept, Lasting, TypeOK', Inboxed',
         Approval', Taken', External', Checked', CaseFollowsRows'
  PROVE  IInv'
<1> USE DEF IInv
<1>1. Duties'
  BY SameOperation, OneMoves
<1>2. History'
  BY DEF History
<1> QED
  BY <1>1, <1>2

\* The rows of the case stay.
LEMMA WorkerGoes ==
  ASSUME IInv, NEW h \in Handler, NEW row \in HandlerRow,
         handler' = [handler EXCEPT ![h] = row], Fits(h)',
         UNCHANGED <<operation, requestVars, checkVars, call, touches>>,
         disruptions' \in 0..MaxDisruptions, event' \in [Event -> EventRow], SameRows
  PROVE  IInv'
<1> USE DEF IInv
<1>1. Kept /\ Inboxed'
  BY SameRowsKeep DEF checkVars
<1>2. TypeOK'
  <2>1. handler' \in [Handler -> HandlerRow]
    BY HandlerMoves
  <2> QED
    BY <2>1 DEF TypeOK, ExecutorTypeOK, RequestsTypeOK, ResolutionTypeOK, EventRow,
                HandlerRow, AnswerRow, ViewRow, requestVars, checkVars
<1>3. /\ Lasting /\ Approval' /\ Taken' /\ External' /\ Checked' /\ CaseFollowsRows'
  BY DEF Lasting, Approval, Taken, External, ExternalIsTrue, Checked, CaseFollowsRows,
         requestVars, checkVars
<1> QED
  BY <1>1, <1>2, <1>3, WorkerKeeps

LEMMA EventsStay ==
  ASSUME TypeOK, UNCHANGED event
  PROVE  SameRows /\ event' \in [Event -> EventRow]
  BY DEF SameRows, TypeOK, EventRow

LEMMA IdleIsRow == Idle \in HandlerRow /\ Idle.event = None
<1>1. Idle.answer \in AnswerRow /\ Idle.view \in ViewRow
  BY DEF Idle, AnswerRow, ViewRow
<1> QED
  BY <1>1 DEF Idle, HandlerRow, Step

\* The worker goes on to a step, with nothing in hand but its event.
LEMMA NextStepIsRow ==
  ASSUME NEW e \in Event, NEW step \in Step
  PROVE  /\ [Idle EXCEPT !.event = e, !.step = step] \in HandlerRow
         /\ [Idle EXCEPT !.event = e, !.step = step].event = e
         /\ [Idle EXCEPT !.event = e, !.step = step].step = step
<1>1. Idle.answer \in AnswerRow /\ Idle.view \in ViewRow
  BY DEF Idle, AnswerRow, ViewRow
<1> QED
  BY <1>1 DEF Idle, HandlerRow

LEMMA GotoIsRow ==
  ASSUME TypeOK, NEW h \in Handler, NEW step \in Step, Goto(h, step)
  PROVE  \E row \in HandlerRow :
           /\ handler' = [handler EXCEPT ![h] = row]
           /\ row.event = handler[h].event /\ row.step = step
<1>1. handler \in [Handler -> HandlerRow]
  BY DEF TypeOK, HandlerRow, AnswerRow, ViewRow
<1> DEFINE row == [handler[h] EXCEPT !.step = step]
<1>2. row \in HandlerRow /\ row.event = handler[h].event /\ row.step = step
  BY <1>1 DEF HandlerRow
<1>3. handler' = [handler EXCEPT ![h] = row]
  BY DEF Goto
<1> QED
  BY <1>2, <1>3

LEMMA LeaveKeeps ==
  ASSUME IInv, NEW h \in Handler, NEW outcome, Leave(h, outcome),
         event' \in [Event -> EventRow], SameRows,
         UNCHANGED <<operation, requestVars, checkVars, call, boundVars>>
  PROVE  IInv'
<1> USE DEF IInv
<1>1. handler' = [handler EXCEPT ![h] = Idle] /\ Idle \in HandlerRow /\ Idle.event = None
  BY IdleIsRow DEF Leave
<1>2. Fits(h)'
  BY <1>1, HandlerMoves DEF Fits
<1> QED
  BY <1>1, <1>2, WorkerGoes DEF boundVars, TypeOK

LEMMA SettledIsRow ==
  ASSUME NEW row \in EventRow
  PROVE  /\ Settled(row) \in EventRow /\ Settled(row).status = "settled"
         /\ Settled(row).version = row.version
  BY DEF Settled, EventRow, EventStatus

\* One row moves, and was there.
LEMMA RowMoves ==
  ASSUME IInv, NEW e \in Event, NEW row \in EventRow, event[e].status # "absent",
         row.status # "absent", row.version = event[e].version,
         event' = [event EXCEPT ![e] = row]
  PROVE  SameRows /\ event' \in [Event -> EventRow]
  BY DEF IInv, TypeOK, SameRows, EventRow

LEMMA ReportKeepsRows ==
  ASSUME IInv, NEW h \in Handler, handler[h].event # None,
         event' = Finished(h) \/ event' = Failed(h)
  PROVE  SameRows /\ event' \in [Event -> EventRow]
<1> USE DEF IInv
<1> DEFINE e == handler[h].event
<1>1. e \in Event /\ event[e].status # "absent"
  BY DEF TypeOK, Duties, Fits
<1>2. event[e] \in EventRow
  BY <1>1 DEF TypeOK, EventRow
<1>3. Settled(event[e]) \in EventRow /\ Settled(event[e]).status = "settled"
      /\ Settled(event[e]).version = event[e].version
  BY <1>2, SettledIsRow
<1> DEFINE again == [event[e] EXCEPT !.status = "pending", !.owner = None]
<1>4. again \in EventRow /\ again.status = "pending" /\ again.version = event[e].version
  BY <1>2 DEF EventRow, EventStatus
<1>5. \/ event' = [event EXCEPT ![e] = event[e]]
      \/ event' = [event EXCEPT ![e] = Settled(event[e])]
      \/ event' = [event EXCEPT ![e] = again]
  BY DEF Finished, Failed
<1>6. PICK row \in EventRow : /\ row.status # "absent" /\ row.version = event[e].version
                              /\ event' = [event EXCEPT ![e] = row]
  BY <1>1, <1>2, <1>3, <1>4, <1>5
<1> QED
  BY <1>1, <1>6, RowMoves

LEMMA TakeKeeps ==
  ASSUME IInv, NEW h \in Handler, NEW e \in Event, Take(h, e), event[e].status # "absent",
         disruptions' \in 0..MaxDisruptions
  PROVE  IInv'
<1> USE DEF IInv
<1>1. event[e] \in EventRow
  BY DEF TypeOK, EventRow
<1> DEFINE tries == IF event[e].attempts < MaxAttempts THEN event[e].attempts + 1
                    ELSE event[e].attempts
           row == [event[e] EXCEPT !.status = "processing", !.owner = h, !.attempts = tries]
<1>2. tries \in Nat
  BY <1>1 DEF EventRow
<1>3. row \in EventRow /\ row.status = "processing" /\ row.version = event[e].version
  BY <1>1, <1>2 DEF EventRow, EventStatus
<1>4. event' = [event EXCEPT ![e] = row]
  BY DEF Take, TypeOK
<1>5. SameRows /\ event' \in [Event -> EventRow]
  <2> HIDE DEF row
  <2> QED
    BY <1>3, <1>4, RowMoves
<1>6. FirstStep(e) \in Step
  BY DEF FirstStep, Step
<1> DEFINE now == [Idle EXCEPT !.event = e, !.step = FirstStep(e)]
<1>7. now \in HandlerRow /\ now.event = e /\ now.step = FirstStep(e)
  BY <1>6, NextStepIsRow
<1>8. handler' = [handler EXCEPT ![h] = now]
  BY DEF Take
<1>9. handler'[h].event = e /\ handler'[h].step = FirstStep(e)
  <2> HIDE DEF now
  <2> QED
    BY <1>7, <1>8, HandlerMoves
<1>10. /\ FirstStep(e) \notin {"record", "look", "view", "start", "draft"}
       /\ FirstStep(e) = "check" => e = "deadline"
       /\ FirstStep(e) = "read" => e \in StatusEvent
       /\ FirstStep(e) = "register" => e = Registration
       /\ FirstStep(e) = "decide" => e = "decided"
  BY FulfilmentAssumption DEF FirstStep, Event
<1>11. Fits(h)'
  BY <1>5, <1>9, <1>10 DEF Fits, SameRows
<1> QED
  <2> HIDE DEF now
  <2> QED
    BY <1>5, <1>7, <1>8, <1>11, WorkerGoes DEF Take

LEMMA CrashKeeps ==
  ASSUME IInv, NEW h \in Handler, Crash(h)
  PROVE  IInv'
<1> USE DEF IInv
<1> DEFINE e == handler[h].event
<1>1. e \in Event /\ event[e].status # "absent"
  BY DEF Crash, TypeOK, Duties, Fits
<1>2. event[e] \in EventRow
  BY <1>1 DEF TypeOK, EventRow
<1> DEFINE row == [event[e] EXCEPT !.status = "pending", !.owner = None]
<1>3. row \in EventRow /\ row.status = "pending" /\ row.version = event[e].version
  BY <1>2 DEF EventRow, EventStatus
<1>4. event' = [event EXCEPT ![e] = row] \/ event' = event
  BY <1>1 DEF Crash, Left, TypeOK
<1>5. SameRows /\ event' \in [Event -> EventRow]
  <2> HIDE DEF row
  <2> QED
    BY <1>1, <1>3, <1>4, RowMoves, EventsStay
<1>6. disruptions' \in 0..MaxDisruptions
  BY FulfilmentAssumption DEF Crash, TypeOK
<1>7. handler' = [handler EXCEPT ![h] = Idle] /\ Idle \in HandlerRow /\ Idle.event = None
  BY IdleIsRow DEF Crash
<1>8. Fits(h)'
  BY <1>7, HandlerMoves DEF Fits
<1> QED
  BY <1>5, <1>6, <1>7, <1>8, WorkerGoes DEF Crash

LEMMA ReadStatusKeeps ==
  ASSUME IInv, NEW h \in Handler, ReadStatus(h)
  PROVE  IInv'
<1> USE DEF IInv
<1> DEFINE e == handler[h].event
           n == Len(operation.history)
           read == [status |-> StatusOf(operation), version |-> n]
           row == [handler[h] EXCEPT !.step = "record", !.answer = read]
<1>1. e \in StatusEvent /\ e \in Event /\ event[e].status # "absent"
  BY DEF ReadStatus, At, Duties, Fits, TypeOK
<1>2. operation # None /\ operation.history \in Seq(Change) /\ n \in 1..n
  <2>1. operation # None /\ event[e].version \in 1..n
    BY <1>1 DEF Inboxed
  <2>2. operation.history \in Seq(Change)
    BY <2>1 DEF TypeOK, ExecutorTypeOK
  <2>3. n \in Nat \ {0}
    BY <2>1, <2>2
  <2> QED
    BY <2>1, <2>2, <2>3, FirstOrLater
<1>3. StatusOf(operation) = operation.history[n].status /\ StatusOf(operation) \in ExternalStatus
  <2>1. operation.history # <<>> /\ operation.history[n] \in Change
    BY <1>2
  <2> QED
    BY <2>1 DEF StatusOf, Change
<1>4. read \in AnswerRow
  BY <1>2, <1>3 DEF AnswerRow
<1>5. row \in HandlerRow /\ row.event = e /\ row.step = "record" /\ row.answer = read
  <2> HIDE DEF read
  <2>1. handler[h] \in HandlerRow /\ "record" \in Step
    BY DEF TypeOK, HandlerRow, AnswerRow, ViewRow, Step
  <2> QED
    BY <1>4, <2>1 DEF HandlerRow
<1>6. handler' = [handler EXCEPT ![h] = row]
  BY DEF ReadStatus, VersionOf, TypeOK
<1>7. handler'[h] = row
  <2> HIDE DEF row
  <2> QED
    BY <1>5, <1>6, HandlerMoves
<1>8. SameRows /\ event' \in [Event -> EventRow] /\ UNCHANGED operation
  BY EventsStay DEF ReadStatus
<1>9. Fits(h)'
  <2>1. handler'[h].answer.version = n /\ handler'[h].answer.status = operation.history[n].status
    BY <1>3, <1>5, <1>7
  <2>2. handler'[h].event = e /\ handler'[h].step = "record"
    BY <1>5, <1>7
  <2> HIDE DEF row, n
  <2>3. n \in 1..Len(operation'.history) /\ operation'.history[n] = operation.history[n]
    BY <1>2, <1>8 DEF n
  <2> QED
    BY <1>1, <1>8, <2>1, <2>2, <2>3 DEF Fits, SameRows
<1> QED
  <2> HIDE DEF row
  <2> QED
    BY <1>5, <1>6, <1>8, <1>9, WorkerGoes DEF ReadStatus, boundVars, TypeOK

LEMMA LookForCheckKeeps ==
  ASSUME IInv, NEW h \in Handler, LookForCheck(h)
  PROVE  IInv'
<1> USE DEF IInv
<1> DEFINE e == handler[h].event
<1>1. e \in StatusEvent /\ e \in Event /\ event[e].status # "absent"
  BY DEF LookForCheck, At, Duties, Fits, TypeOK
<1>2. PICK step \in {"view", "agent"} :
        /\ Goto(h, step)
        /\ step = "view" => request.external = "done" /\ request.externalVersion = event[e].version
  BY DEF LookForCheck, IsDone
<1>3. step \in Step
  BY DEF Step
<1>4. PICK row \in HandlerRow : /\ handler' = [handler EXCEPT ![h] = row]
                                /\ row.event = e /\ row.step = step
  BY <1>2, <1>3, GotoIsRow
<1>5. SameRows /\ event' \in [Event -> EventRow]
  BY EventsStay DEF LookForCheck
<1>6. Fits(h)'
  BY <1>1, <1>2, <1>4, <1>5, HandlerMoves DEF Fits, SameRows, LookForCheck, requestVars
<1> QED
  BY <1>4, <1>5, <1>6, WorkerGoes DEF LookForCheck, boundVars, TypeOK

LEMMA ViewCaseKeeps ==
  ASSUME IInv, NEW h \in Handler, ViewCase(h)
  PROVE  IInv'
<1> USE DEF IInv
<1> DEFINE e == handler[h].event
           row == [handler[h] EXCEPT !.step = "start", !.view = case]
<1>1. /\ e \in StatusEvent /\ e \in Event /\ event[e].status # "absent"
      /\ request.external = "done" /\ request.externalVersion = event[e].version
  BY DEF ViewCase, At, Duties, Fits, TypeOK
<1>2. row \in HandlerRow /\ row.event = e /\ row.step = "start"
  <2>1. handler[h] \in HandlerRow /\ "start" \in Step
    BY DEF TypeOK, HandlerRow, AnswerRow, ViewRow, Step
  <2>2. case \in ViewRow
    BY DEF TypeOK, RequestsTypeOK, ViewRow
  <2> QED
    BY <2>1, <2>2 DEF HandlerRow
<1>3. handler' = [handler EXCEPT ![h] = row]
  BY DEF ViewCase, TypeOK
<1>4. SameRows /\ event' \in [Event -> EventRow]
  BY EventsStay DEF ViewCase
<1> HIDE DEF row
<1>5. Fits(h)'
  BY <1>1, <1>2, <1>3, <1>4, HandlerMoves DEF Fits, SameRows, ViewCase, requestVars
<1> QED
  BY <1>2, <1>3, <1>4, <1>5, WorkerGoes DEF ViewCase, boundVars, TypeOK

LEMMA CheckDeadlineKeeps ==
  ASSUME IInv, NEW h \in Handler, CheckDeadline(h)
  PROVE  IInv'
<1> USE DEF IInv
<1> DEFINE e == handler[h].event
<1>1. e = "deadline" /\ e \in Event /\ event[e].status # "absent"
  BY DEF CheckDeadline, At, Duties, Fits, TypeOK
<1>2. CASE Goto(h, "draft") /\ UNCHANGED event
  <2>1. PICK row \in HandlerRow : /\ handler' = [handler EXCEPT ![h] = row]
                                  /\ row.event = e /\ row.step = "draft"
    <3>1. "draft" \in Step
      BY DEF Step
    <3> QED
      BY <1>2, <3>1, GotoIsRow
  <2>2. SameRows /\ event' \in [Event -> EventRow]
    BY <1>2, EventsStay
  <2>3. Fits(h)'
    BY <1>1, <2>1, <2>2, HandlerMoves DEF Fits, SameRows
  <2> QED
    BY <2>1, <2>2, <2>3, WorkerGoes DEF CheckDeadline, boundVars, TypeOK
<1>3. CASE Leave(h, [event EXCEPT !["deadline"] = IF @.owner = h THEN Settled(@) ELSE @])
  <2>1. "deadline" \in Event /\ event["deadline"].status # "absent"
    BY <1>1
  <2>2. event["deadline"] \in EventRow
    BY <2>1 DEF TypeOK, EventRow
  <2>3. event' = event \/ event' = [event EXCEPT !["deadline"] = Settled(event["deadline"])]
    BY <1>3, <2>1 DEF Leave, TypeOK
  <2>4. SameRows /\ event' \in [Event -> EventRow]
    BY <2>1, <2>2, <2>3, SettledIsRow, RowMoves, EventsStay
  <2> QED
    BY <1>3, <2>4, LeaveKeeps DEF CheckDeadline
<1> QED
  BY <1>2, <1>3 DEF CheckDeadline

LEMMA LastStepKeeps ==
  ASSUME IInv, NEW h \in Handler, Agent(h) \/ Finish(h)
  PROVE  IInv'
<1>1. SameRows /\ event' \in [Event -> EventRow]
  BY ReportKeepsRows DEF Agent, Finish, Leave, At
<1> QED
  BY <1>1, LeaveKeeps DEF Agent, Finish

-----------------------------------------------------------------------------
(* Workers that write to the case *)

\* A case that is in progress has a registered request and no check.
LEMMA InProgress ==
  ASSUME IInv, case.status = "in_progress"
  PROVE  /\ check = NoCheck /\ poll = "none" /\ request.status = "registered"
         /\ event["decided"].status = "absent"
  BY DEF IInv, CaseFollowsRows, Checked, Inboxed, TypeOK, ResolutionTypeOK, Verdict, NoCheck

LEMMA RegistrationKeeps ==
  ASSUME IInv, NEW h \in Handler, HandleRegistration(h)
  PROVE  IInv'
<1> USE DEF IInv
<1>1. CASE Leave(h, Failed(h)) /\ UNCHANGED <<case, request>>
  <2>1. SameRows /\ event' \in [Event -> EventRow]
    BY <1>1, ReportKeepsRows DEF Leave, HandleRegistration, At
  <2> QED
    BY <1>1, <2>1, LeaveKeeps DEF HandleRegistration, requestVars
<1>2. CASE /\ CanRegister /\ Register /\ Goto(h, "finish")
           /\ event' = IF Timed /\ request.status # "registered"
                       THEN Stored("deadline", case'.version) ELSE event
  <2>1. /\ handler[h].event = Registration /\ Registration \in Event
        /\ event[Registration].status # "absent"
        /\ operation # None /\ operation.history # <<>>
    BY DEF HandleRegistration, At, Duties, Fits, Inboxed, Event
  <2>2. operation.history \in Seq(Change) /\ 1 \in 1..Len(operation.history)
    <3>1. operation.history \in Seq(Change)
      BY <2>1 DEF TypeOK, ExecutorTypeOK
    <3> QED
      BY <2>1, <3>1
  <2>3. operation.history[1].status = "registered"
    BY <2>1, <2>2 DEF History
  <2>4. request \in RequestRow /\ case \in CaseRow
    BY DEF TypeOK, RequestsTypeOK, RequestRow, CaseRow
  <2> DEFINE known == [request EXCEPT !.status = "registered", !.external = "registered",
                                      !.externalVersion = 1]
             now == [status |-> "in_progress", version |-> case.version + 1]
  <2>5. known \in RequestRow /\ now \in CaseRow
    <3>1. "registered" \in RequestStatus /\ "registered" \in ExternalStatus /\ 1 \in Nat
      BY DEF RequestStatus, ExternalStatus
    <3>2. known \in RequestRow
      BY <2>4, <3>1 DEF RequestRow
    <3>3. "in_progress" \in CaseStatus /\ case.version + 1 \in Nat \ {0}
      BY <2>4 DEF CaseRow, CaseStatus
    <3> QED
      BY <3>2, <3>3 DEF CaseRow
  <2>6. /\ known.status = "registered" /\ known.external = "registered"
        /\ known.externalVersion = 1 /\ known.draft = request.draft
        /\ known.approved = request.approved /\ known.approver = request.approver
        /\ now.status = "in_progress"
    BY <2>4 DEF RequestRow
  <2>7. \/ UNCHANGED <<case, request>>
        \/ /\ request.status = "submitted" /\ request.externalVersion = 0
           /\ request' = known /\ case' = now
    <3>1. request.status # "registered" => request.externalVersion = 0
      BY <2>4 DEF External, RequestRow
    <3>2. CASE request.status = "registered"
      BY <1>2, <3>2 DEF Register
    <3>3. CASE request.status # "registered"
      <4>1. request' = [request EXCEPT !.status = "registered", !.external = "registered",
                          !.externalVersion = IF @ = 0 THEN 1 ELSE @]
            /\ case' = now /\ request.status = "submitted"
        BY <1>2, <3>3 DEF Register, CanRegister, Versioned
      <4>2. request' = known
        BY <2>4, <3>1, <3>3, <4>1 DEF RequestRow
      <4> QED
        BY <3>1, <3>3, <4>1, <4>2
    <3> QED
      BY <3>2, <3>3
  <2> HIDE DEF known, now
  <2>8. "deadline" \in Event /\ "deadline" \notin StatusEvent
        /\ "deadline" # Registration /\ case'.version \in Nat
    BY <2>4, <2>5, <2>7, FulfilmentAssumption DEF Event, CaseRow
  <2>9. event' = event \/ event' = Stored("deadline", case'.version)
    BY <1>2
  <2>10. event' \in [Event -> EventRow] /\ Kept
    BY <2>8, <2>9, StoredKeeps, SameEvents, EventsStay
  <2>11. PICK row \in HandlerRow : /\ handler' = [handler EXCEPT ![h] = row]
                                   /\ row.event = Registration /\ row.step = "finish"
    <3>1. "finish" \in Step
      BY DEF Step
    <3> QED
      BY <1>2, <2>1, <3>1, GotoIsRow
  <2>12. TypeOK'
    <3>1. handler' \in [Handler -> HandlerRow]
      BY <2>11, HandlerMoves
    <3>2. request' \in RequestRow /\ case' \in CaseRow
      BY <2>4, <2>5, <2>7
    <3> QED
      BY <2>10, <3>1, <3>2
      DEF HandleRegistration, TypeOK, ExecutorTypeOK, RequestsTypeOK, ResolutionTypeOK,
          RequestRow, CaseRow, EventRow, HandlerRow, AnswerRow, ViewRow, checkVars, boundVars
  <2>13. UNCHANGED operation /\ UNCHANGED poll /\ Grown
    BY SameOperation DEF HandleRegistration, checkVars
  <2>14. Inboxed'
    <3>1. CASE event' = event
      BY <2>13, <3>1 DEF Inboxed
    <3>2. CASE event' = Stored("deadline", case'.version)
      <4>1. "deadline" # "decided"
        OBVIOUS
      <4> QED
        BY <2>8, <2>12, <2>13, <3>2, <4>1, InboxedAdds
    <3> QED
      BY <2>9, <3>1, <3>2
  <2>15. Fits(h)'
    BY <2>1, <2>10, <2>11, HandlerMoves DEF Fits, Kept
  <2>16. Approval' /\ Taken'
    BY <2>6, <2>7 DEF Approval, Taken, Ordered, HandleRegistration
  <2>17. Lasting
    BY <2>6, <2>7 DEF Lasting
  <2>18. External'
    BY <2>1, <2>2, <2>3, <2>6, <2>7, <2>13 DEF External, ExternalIsTrue, VersionOf
  <2>19. request.status = "submitted" => check = NoCheck /\ poll = "none" /\ check.status = "none"
    BY DEF Checked, NoCheck
  <2>20. Checked'
    BY <2>6, <2>7, <2>19 DEF Checked, HandleRegistration, checkVars, NoCheck, Verdict
  <2>21. CaseFollowsRows'
    BY <2>6, <2>7, <2>19 DEF CaseFollowsRows, HandleRegistration, checkVars, NoCheck, Verdict
  <2> QED
    BY <2>10, <2>11, <2>12, <2>13, <2>14, <2>15, <2>16, <2>17, <2>18, <2>20, <2>21, WorkerKeeps
<1> QED
  BY <1>1, <1>2 DEF HandleRegistration

\* What a worker records is later than what is known, and never follows done.
LEMMA RecordStatusKeeps ==
  ASSUME IInv, NEW h \in Handler, RecordStatus(h)
  PROVE  IInv'
<1> USE DEF IInv
<1> DEFINE e == handler[h].event
           answer == handler[h].answer
<1>1. /\ e \in StatusEvent /\ e \in Event /\ event[e].status # "absent"
      /\ answer.version \in 1..Len(operation.history)
      /\ answer.status = operation.history[answer.version].status
  BY DEF RecordStatus, At, Duties, Fits, TypeOK
<1>2. CASE Leave(h, Failed(h)) /\ UNCHANGED <<case, request, recorded>>
  <2>1. SameRows /\ event' \in [Event -> EventRow]
    BY <1>2, ReportKeepsRows DEF Leave, RecordStatus, At
  <2> QED
    BY <1>2, <2>1, LeaveKeeps DEF RecordStatus, requestVars
<1>3. CASE /\ CanRecord(e, event[e].version, answer) /\ Record(e, answer)
           /\ UNCHANGED event
           /\ handler' = [handler EXCEPT ![h] = [Idle EXCEPT !.event = e, !.step = "look"]]
  <2>1. operation # None /\ operation.history \in Seq(Change)
    <3>1. operation # None
      BY <1>1 DEF Inboxed
    <3> QED
      BY <3>1 DEF TypeOK, ExecutorTypeOK
  <2>2. answer.version \in Nat \ {0} /\ answer.status \in ExternalStatus
    <3>1. operation.history[answer.version] \in Change
      BY <1>1, <2>1
    <3> QED
      BY <1>1, <2>1, <3>1 DEF Change
  <2>3. request \in RequestRow /\ case \in CaseRow /\ recorded \subseteq StatusEvent
    BY DEF TypeOK, RequestsTypeOK, RequestRow, CaseRow
  <2> DEFINE known == [request EXCEPT !.external = answer.status,
                                      !.externalVersion = answer.version]
             now == [status |-> case.status, version |-> case.version + 1]
  <2>4. known \in RequestRow /\ now \in CaseRow
    <3> HIDE DEF answer
    <3>1. case.version + 1 \in Nat \ {0}
      BY <2>3 DEF CaseRow
    <3>2. now \in CaseRow
      BY <2>3, <3>1 DEF CaseRow
    <3> QED
      BY <2>2, <2>3, <3>2 DEF RequestRow
  <2>5. /\ known.status = request.status /\ known.external = answer.status
        /\ known.externalVersion = answer.version /\ known.draft = request.draft
        /\ known.approved = request.approved /\ known.approver = request.approver
        /\ now.status = case.status
    BY <2>3 DEF RequestRow
  <2>6. \/ UNCHANGED <<case, request, recorded>>
        \/ /\ request.status = "registered" /\ answer.version > request.externalVersion
           /\ request' = known /\ case' = now /\ recorded' = recorded \cup {e}
    <3> HIDE DEF e, answer
    <3>1. CASE IsRecorded(e, answer)
      BY <1>3, <3>1 DEF Record
    <3>2. CASE ~ IsRecorded(e, answer)
      <4>1. request.status = "registered" /\ answer.version > request.externalVersion
        BY <1>3, <3>2 DEF CanRecord, IsRecorded
      <4> QED
        BY <1>3, <3>2, <4>1 DEF Record, Versioned
    <3> QED
      BY <3>1, <3>2
  <2>7. request.externalVersion > 0 =>
          /\ request.externalVersion \in 1..Len(operation.history)
          /\ request.external = operation.history[request.externalVersion].status
    BY <2>1, <2>3 DEF External, ExternalIsTrue, VersionOf, RequestRow
  <2>8. request.external = "done" /\ request.externalVersion > 0 =>
          ~(answer.version > request.externalVersion)
    <3>1. request.external = "done" /\ request.externalVersion > 0 =>
            request.externalVersion = Len(operation.history)
      BY <2>1, <2>7 DEF History
    <3>2. Len(operation.history) \in Nat
      BY <2>1
    <3> HIDE DEF answer
    <3> QED
      BY <1>1, <2>2, <3>1, <3>2
  <2>9. Lasting
    BY <2>6, <2>8 DEF Lasting
  <2> DEFINE row == [Idle EXCEPT !.event = e, !.step = "look"]
  <2>10. row \in HandlerRow /\ row.event = e /\ row.step = "look"
    <3>1. "look" \in Step /\ e \in Event
      BY <1>1 DEF Step
    <3> HIDE DEF e
    <3> QED
      BY <3>1, NextStepIsRow
  <2>11. handler' = [handler EXCEPT ![h] = row]
    BY <1>3
  <2> HIDE DEF known, now, row
  <2>12. TypeOK'
    <3>1. handler' \in [Handler -> HandlerRow]
      BY <2>10, <2>11, HandlerMoves
    <3>2. request' \in RequestRow /\ case' \in CaseRow /\ recorded' \subseteq StatusEvent
      BY <1>1, <2>3, <2>4, <2>6
    <3> QED
      BY <1>3, <3>1, <3>2
      DEF RecordStatus, TypeOK, ExecutorTypeOK, RequestsTypeOK, ResolutionTypeOK,
          RequestRow, CaseRow, HandlerRow, AnswerRow, ViewRow, checkVars, boundVars
  <2>13. UNCHANGED <<operation, poll, event>> /\ SameRows
    BY <1>3, EventsStay DEF RecordStatus, checkVars
  <2>14. Kept /\ Inboxed'
    BY <2>13, SameRowsKeep
  <2>15. Fits(h)'
    <3>1. handler'[h] = row
      BY <2>10, <2>11, HandlerMoves
    <3> HIDE DEF e
    <3> QED
      BY <1>1, <2>10, <2>13, <3>1 DEF Fits
  <2>16. /\ request'.status = request.status /\ request'.draft = request.draft
         /\ request'.approved = request.approved /\ request'.approver = request.approver
         /\ case'.status = case.status
    BY <2>5, <2>6
  <2>17. Approval' /\ Taken' /\ CaseFollowsRows'
    BY <2>16 DEF Approval, Taken, CaseFollowsRows, RecordStatus, checkVars
  <2>18. External'
    <3>1. CASE UNCHANGED request
      BY <2>13, <3>1 DEF External, ExternalIsTrue
    <3>2. CASE ~ UNCHANGED request
      <4>1. /\ request'.externalVersion = answer.version /\ request'.external = answer.status
            /\ request'.status = "registered"
        BY <2>5, <2>6, <3>2
      <4> HIDE DEF answer
      <4>2. answer.version > 0 /\ answer.version <= Len(operation.history)
        BY <1>1, <2>1, <2>2
      <4> QED
        BY <1>1, <2>1, <2>13, <4>1, <4>2 DEF External, ExternalIsTrue, VersionOf
    <3> QED
      BY <3>1, <3>2
  <2>19. check.status # "none" => request' = request
    <3>1. check.status # "none" => request.external = "done" /\ request.externalVersion > 0
      BY DEF Checked, External
    <3> QED
      BY <2>6, <2>8, <3>1
  <2>20. Checked'
    BY <2>13, <2>19 DEF Checked, RecordStatus, checkVars, NoCheck, Verdict
  <2> QED
    BY <2>9, <2>10, <2>11, <2>12, <2>13, <2>14, <2>15, <2>17, <2>18, <2>20, WorkerKeeps
<1> QED
  BY <1>2, <1>3 DEF RecordStatus

LEMMA StartCheckKeeps ==
  ASSUME IInv, NEW h \in Handler, StartCheck(h)
  PROVE  IInv'
<1> USE DEF IInv
<1> DEFINE e == handler[h].event
           view == handler[h].view
<1>1. /\ e \in StatusEvent /\ e \in Event /\ event[e].status # "absent"
      /\ request.external = "done" /\ request.externalVersion = event[e].version
      /\ operation.history[event[e].version].event = e
  BY DEF StartCheck, At, Duties, Fits, TypeOK, Inboxed
<1>2. CASE Leave(h, Failed(h)) /\ UNCHANGED <<case, checkVars>>
  <2>1. SameRows /\ event' \in [Event -> EventRow]
    BY <1>2, ReportKeepsRows DEF Leave, StartCheck, At
  <2> QED
    BY <1>2, <2>1, LeaveKeeps DEF StartCheck, requestVars
<1>3. CASE /\ CanStart(e, view) /\ Start(e, view) /\ UNCHANGED event
           /\ handler' = [handler EXCEPT ![h] = [Idle EXCEPT !.event = e, !.step = "agent"]]
  <2> DEFINE row == [Idle EXCEPT !.event = e, !.step = "agent"]
  <2>1. row \in HandlerRow /\ row.event = e /\ row.step = "agent"
    <3>1. "agent" \in Step
      BY DEF Step
    <3> QED
      BY <1>1, <3>1, NextStepIsRow
  <2>2. handler' = [handler EXCEPT ![h] = row]
    BY <1>3
  <2> HIDE DEF row
  <2>3. handler' \in [Handler -> HandlerRow] /\ handler'[h] = row
    BY <2>1, <2>2, HandlerMoves
  <2>4. UNCHANGED <<operation, request, recorded, seen, call, event, touches, disruptions>>
    BY <1>3 DEF StartCheck, boundVars
  <2>5. SameRows /\ event' \in [Event -> EventRow] /\ Kept /\ Lasting
    BY <2>4, EventsStay, SameEvents DEF Lasting
  <2>6. Fits(h)'
    <3> HIDE DEF e
    <3> QED
      BY <1>1, <2>1, <2>3, <2>4 DEF Fits
  <2>7. \/ UNCHANGED <<case, check, poll>>
        \/ /\ case.status = "in_progress"
           /\ check' = [status |-> "checking", caseVersion |-> view.version, doneEvent |-> e]
           /\ poll' = "open"
           /\ case' = [status |-> "checking_resolution", version |-> case.version + 1]
    BY <1>3 DEF CanStart, Start, Versioned
  <2>8. CASE UNCHANGED <<case, check, poll>>
    <3>1. UNCHANGED <<requestVars, checkVars, touches>> /\ disruptions' \in 0..MaxDisruptions
      BY <2>4, <2>8 DEF requestVars, checkVars, TypeOK
    <3> QED
      BY <2>1, <2>2, <2>4, <2>5, <2>6, <3>1, WorkerGoes
  <2>9. CASE /\ case.status = "in_progress"
             /\ check' = [status |-> "checking", caseVersion |-> view.version, doneEvent |-> e]
             /\ poll' = "open"
             /\ case' = [status |-> "checking_resolution", version |-> case.version + 1]
    <3>1. request.status = "registered" /\ event["decided"].status = "absent"
      BY <2>9, InProgress
    <3>2. case' \in CaseRow
      <4>1. "checking_resolution" \in CaseStatus /\ case.version + 1 \in Nat \ {0}
        BY DEF CaseStatus, TypeOK, RequestsTypeOK
      <4> QED
        BY <2>9, <4>1 DEF CaseRow
    <3>3. check' \in [status : {"none", "checking"} \cup Verdict,
                      caseVersion : Nat, doneEvent : StatusEvent \cup {None}]
      <4>1. view.version \in Nat
        BY DEF TypeOK
      <4> HIDE DEF view, e
      <4> QED
        BY <1>1, <2>9, <4>1
    <3>4. TypeOK'
      BY <2>3, <2>4, <2>9, <3>2, <3>3
      DEF TypeOK, ExecutorTypeOK, RequestsTypeOK, ResolutionTypeOK, PollState,
          CaseRow, HandlerRow, AnswerRow, ViewRow
    <3>5. Inboxed'
      BY <2>4, <3>1 DEF Inboxed
    <3>6. Approval' /\ Taken' /\ External'
      BY <2>4 DEF Approval, Taken, External, ExternalIsTrue
    <3>7. Checked'
      <4>1. check'.status = "checking" /\ check'.doneEvent = e /\ poll' = "open"
        BY <2>9
      <4> HIDE DEF e
      <4> QED
        BY <1>1, <2>4, <3>1, <4>1 DEF Checked, Verdict
    <3>8. CaseFollowsRows'
      <4>1. check'.status = "checking" /\ case'.status = "checking_resolution"
        BY <2>9
      <4> QED
        BY <4>1 DEF CaseFollowsRows, NoCheck, Verdict
    <3> QED
      BY <2>1, <2>2, <2>4, <2>5, <2>6, <3>4, <3>5, <3>6, <3>7, <3>8, WorkerKeeps
  <2> QED
    BY <2>7, <2>8, <2>9
<1> QED
  BY <1>2, <1>3 DEF StartCheck

LEMMA BindDocumentKeeps ==
  ASSUME IInv, NEW h \in Handler, BindDocument(h)
  PROVE  IInv'
<1> USE DEF IInv
<1> DEFINE e == handler[h].event
<1>1. e \in Event /\ event[e].status # "absent" /\ e = handler[h].event
  BY DEF BindDocument, At, Duties, Fits, TypeOK
<1>2. CASE Leave(h, Failed(h)) /\ UNCHANGED <<case, request>>
  <2>1. SameRows /\ event' \in [Event -> EventRow]
    BY <1>2, ReportKeepsRows DEF Leave, BindDocument, At
  <2> QED
    BY <1>2, <2>1, LeaveKeeps DEF BindDocument, requestVars
<1>3. CASE Bind /\ Goto(h, "agent") /\ UNCHANGED event
  <2>1. PICK row \in HandlerRow : /\ handler' = [handler EXCEPT ![h] = row]
                                  /\ row.event = e /\ row.step = "agent"
    <3>1. "agent" \in Step
      BY DEF Step
    <3> QED
      BY <1>3, <3>1, GotoIsRow
  <2>2. request \in RequestRow /\ case \in CaseRow
    BY DEF TypeOK, RequestsTypeOK, RequestRow, CaseRow
  <2>3. /\ request' \in RequestRow
        /\ request'.status = request.status /\ request'.draft = request.draft
        /\ request'.approved = request.approved /\ request'.approver = request.approver
        /\ request'.external = request.external
        /\ request'.externalVersion = request.externalVersion
    BY <1>3, <2>2 DEF Bind, RequestRow
  <2>4. case' \in CaseRow /\ case'.status = case.status
    <3>1. CASE UNCHANGED case
      BY <2>2, <3>1
    <3>2. CASE case' = [status |-> case.status, version |-> case.version + 1]
      <4>1. case.version + 1 \in Nat \ {0}
        BY <2>2 DEF CaseRow
      <4> QED
        BY <2>2, <3>2, <4>1 DEF CaseRow
    <3> QED
      BY <1>3, <3>1, <3>2 DEF Bind, Versioned
  <2>5. TypeOK'
    <3>1. handler' \in [Handler -> HandlerRow]
      BY <2>1, HandlerMoves
    <3> QED
      BY <1>3, <2>3, <2>4, <3>1
      DEF BindDocument, TypeOK, ExecutorTypeOK, RequestsTypeOK, ResolutionTypeOK,
          RequestRow, CaseRow, HandlerRow, AnswerRow, ViewRow, checkVars, boundVars
  <2>6. UNCHANGED <<operation, poll, event>> /\ SameRows
    BY <1>3, EventsStay DEF BindDocument, checkVars
  <2>7. Kept /\ Inboxed'
    BY <2>6, SameRowsKeep
  <2>8. Fits(h)'
    BY <1>1, <2>1, <2>6, HandlerMoves DEF Fits
  <2>9. Lasting /\ Approval' /\ Taken' /\ External' /\ Checked' /\ CaseFollowsRows'
    BY <2>3, <2>4, <2>6
    DEF Lasting, Approval, Taken, External, ExternalIsTrue, Checked, CaseFollowsRows,
        BindDocument, checkVars, NoCheck, Verdict
  <2> QED
    BY <2>1, <2>5, <2>6, <2>7, <2>8, <2>9, WorkerKeeps
<1> QED
  BY <1>2, <1>3 DEF BindDocument

LEMMA DraftFollowupKeeps ==
  ASSUME IInv, NEW h \in Handler, DraftFollowup(h)
  PROVE  IInv'
<1> USE DEF IInv
<1> DEFINE e == handler[h].event
<1>1. e \in Event /\ event[e].status # "absent" /\ e = handler[h].event
  BY DEF DraftFollowup, At, Duties, Fits, TypeOK
<1>2. PICK row \in HandlerRow : /\ handler' = [handler EXCEPT ![h] = row]
                                /\ row.event = e /\ row.step = "agent"
  <2>1. "agent" \in Step
    BY DEF Step
  <2> QED
    BY <2>1, GotoIsRow DEF DraftFollowup
<1>3. UNCHANGED <<operation, request, recorded, seen, check, poll, call, event>> /\ SameRows
  BY EventsStay DEF DraftFollowup, Followup, checkVars
<1>4. \/ UNCHANGED case
      \/ /\ case' = [status |-> "followup_draft", version |-> case.version + 1]
         /\ check = NoCheck /\ request.status = "registered"
  BY InProgress DEF DraftFollowup, Followup, DeadlineIsCurrent, Versioned
<1>5. case' \in CaseRow
  <2>1. case \in CaseRow /\ "followup_draft" \in CaseStatus
    BY DEF TypeOK, RequestsTypeOK, CaseRow, CaseStatus
  <2>2. case.version + 1 \in Nat \ {0}
    BY <2>1 DEF CaseRow
  <2> QED
    BY <1>4, <2>1, <2>2 DEF CaseRow
<1>6. TypeOK'
  <2>1. handler' \in [Handler -> HandlerRow]
    BY <1>2, HandlerMoves
  <2> QED
    BY <1>3, <1>5, <2>1
    DEF DraftFollowup, TypeOK, ExecutorTypeOK, RequestsTypeOK, ResolutionTypeOK,
        CaseRow, HandlerRow, AnswerRow, ViewRow, boundVars
<1>7. Kept /\ Inboxed'
  BY <1>3, SameRowsKeep
<1>8. Fits(h)'
  BY <1>1, <1>2, <1>3, HandlerMoves DEF Fits
<1>9. Lasting /\ Approval' /\ Taken' /\ External' /\ Checked'
  BY <1>3 DEF Lasting, Approval, Taken, External, ExternalIsTrue, Checked
<1>10. CaseFollowsRows'
  BY <1>3, <1>4 DEF CaseFollowsRows, NoCheck, Verdict
<1> QED
  BY <1>2, <1>3, <1>6, <1>7, <1>8, <1>9, <1>10, WorkerKeeps

\* The verdict of a check is the outcome that its poll has had.
LEMMA DecideCheckKeeps ==
  ASSUME IInv, NEW h \in Handler, DecideCheck(h)
  PROVE  IInv'
<1> USE DEF IInv
<1> DEFINE e == handler[h].event
<1>1. e \in Event /\ event[e].status # "absent" /\ e = handler[h].event /\ poll \in Verdict
  BY DEF DecideCheck, At, Duties, Fits, TypeOK, Inboxed
<1>2. CASE Leave(h, Failed(h)) /\ UNCHANGED <<case, check>>
  <2>1. SameRows /\ event' \in [Event -> EventRow]
    BY <1>2, ReportKeepsRows DEF Leave, DecideCheck, At
  <2> QED
    BY <1>2, <2>1, LeaveKeeps DEF DecideCheck, requestVars, checkVars
<1>3. CASE /\ Decide /\ Goto(h, "agent")
           /\ event' = IF check.status = "checking" /\ event["deadline"].status = "pending"
                       THEN [event EXCEPT !["deadline"] = Settled(@)] ELSE event
  <2>1. PICK row \in HandlerRow : /\ handler' = [handler EXCEPT ![h] = row]
                                  /\ row.event = e /\ row.step = "agent"
    <3>1. "agent" \in Step
      BY DEF Step
    <3> QED
      BY <1>3, <3>1, GotoIsRow
  <2>2. SameRows /\ event' \in [Event -> EventRow]
    <3>1. "deadline" \in Event /\ event["deadline"] \in EventRow
      BY DEF Event, TypeOK, EventRow
    <3>2. \/ event' = event
          \/ /\ event["deadline"].status # "absent"
             /\ event' = [event EXCEPT !["deadline"] = Settled(event["deadline"])]
      BY <1>3, <3>1
    <3> QED
      BY <3>1, <3>2, SettledIsRow, RowMoves, EventsStay
  <2>3. UNCHANGED <<operation, request, recorded, seen, poll, call>>
    BY DEF DecideCheck
  <2>4. \/ UNCHANGED <<case, check>>
        \/ /\ check.status = "checking" /\ check' = [check EXCEPT !.status = poll]
           /\ case' = [status |-> poll, version |-> case.version + 1]
    BY <1>3 DEF Decide, Versioned
  <2>5. case' \in CaseRow /\ (UNCHANGED <<case, check>> \/ case'.status = poll)
    <3>1. case \in CaseRow /\ poll \in CaseStatus
      BY <1>1 DEF TypeOK, RequestsTypeOK, CaseRow, CaseStatus
    <3>2. case.version + 1 \in Nat \ {0}
      BY <3>1 DEF CaseRow
    <3> QED
      BY <2>4, <3>1, <3>2 DEF CaseRow
  <2>6. /\ check' \in [status : {"none", "checking"} \cup Verdict,
                       caseVersion : Nat, doneEvent : StatusEvent \cup {None}]
        /\ \/ UNCHANGED <<case, check>>
           \/ /\ check.status = "checking" /\ check'.status = poll
              /\ check'.doneEvent = check.doneEvent
    BY <1>1, <2>4 DEF TypeOK, ResolutionTypeOK
  <2>7. TypeOK'
    <3>1. handler' \in [Handler -> HandlerRow]
      BY <2>1, HandlerMoves
    <3> QED
      BY <2>2, <2>3, <2>5, <2>6, <3>1
      DEF DecideCheck, TypeOK, ExecutorTypeOK, RequestsTypeOK, ResolutionTypeOK,
          CaseRow, EventRow, HandlerRow, AnswerRow, ViewRow, boundVars
  <2>8. Kept /\ Inboxed'
    BY <2>2, <2>3, SameRowsKeep
  <2>9. Fits(h)'
    BY <1>1, <2>1, <2>2, HandlerMoves DEF Fits, SameRows
  <2>10. Lasting /\ Approval' /\ Taken' /\ External'
    BY <2>3 DEF Lasting, Approval, Taken, External, ExternalIsTrue
  <2>11. Checked'
    <3>1. CASE UNCHANGED <<case, check>>
      BY <2>3, <3>1 DEF Checked, NoCheck
    <3>2. CASE ~ UNCHANGED <<case, check>>
      BY <1>1, <2>3, <2>6, <3>2 DEF Checked, Verdict
    <3> QED
      BY <3>1, <3>2
  <2>12. CaseFollowsRows'
    <3>1. CASE UNCHANGED <<case, check>>
      BY <2>3, <3>1 DEF CaseFollowsRows
    <3>2. CASE ~ UNCHANGED <<case, check>>
      BY <1>1, <2>3, <2>5, <2>6, <3>2 DEF CaseFollowsRows, NoCheck, Verdict
    <3> QED
      BY <3>1, <3>2
  <2> QED
    BY <2>1, <2>2, <2>3, <2>7, <2>8, <2>9, <2>10, <2>11, <2>12, WorkerKeeps
<1> QED
  BY <1>2, <1>3 DEF DecideCheck

-----------------------------------------------------------------------------
(* The invariant *)

LEMMA InitKeeps ==
  ASSUME Init
  PROVE  IInv
<1>1. NoRequest \in RequestRow /\ NoRequest.status = "none" /\ NoRequest.externalVersion = 0
  <2>1. 0 \in 0..MaxDraft
    BY FulfilmentAssumption
  <2> QED
    BY <2>1 DEF NoRequest, RequestRow, RequestStatus
<1>2. case \in CaseRow /\ case.status \in {"request_ready", "detected"}
  BY DEF Init, RequestsInit, CaseRow, CaseStatus
<1>3. seen \in [Actor -> 0..MaxDraft] /\ recorded \subseteq StatusEvent
  BY FulfilmentAssumption DEF Init, RequestsInit
<1>4. call \in [Call -> CallRow] /\ \A c \in Call : call[c].step = "idle"
  BY FulfilmentAssumption DEF Init, NoCall, CallRow
<1>5. event \in [Event -> EventRow] /\ \A e \in Event : event[e].status = "absent"
  BY DEF Init, Absent, EventRow, EventStatus
<1>6. handler \in [Handler -> HandlerRow] /\ \A h \in Handler : handler[h].event = None
  BY IdleIsRow DEF Init
<1>7. TypeOK
  BY <1>1, <1>2, <1>3, <1>4, <1>5, <1>6, FulfilmentAssumption
  DEF Init, ExecutorInit, RequestsInit, ResolutionInit, TypeOK, ExecutorTypeOK,
      RequestsTypeOK, ResolutionTypeOK, RequestRow, CaseRow, CallRow, EventRow, HandlerRow,
      AnswerRow, ViewRow, NoCheck, PollState
<1>8. Approval /\ Taken /\ History
  BY <1>1, <1>4 DEF Approval, Taken, History, Init, RequestsInit, ExecutorInit, Ordered
<1>9. Inboxed
  BY <1>5 DEF Inboxed, Event
<1>10. External
  BY <1>1 DEF External, ExternalIsTrue, Init, RequestsInit
<1>11. Duties
  BY <1>6 DEF Duties, Fits
<1>12. Checked
  BY DEF Checked, Init, ResolutionInit, NoCheck, Verdict
<1>13. CaseFollowsRows
  BY <1>1, <1>2 DEF CaseFollowsRows, Init, RequestsInit, ResolutionInit, NoCheck, Verdict
<1> QED
  BY <1>7, <1>8, <1>9, <1>10, <1>11, <1>12, <1>13 DEF IInv

LEMMA WriteKeeps ==
  ASSUME IInv, Write
  PROVE  IInv'
BY PrepareKeeps, ReviseKeeps, ShowKeeps, ApproveKeeps DEF Write

LEMMA SubmitKeeps ==
  ASSUME IInv, NEW c \in Call, Submit(c)
  PROVE  IInv'
BY CheckCallKeeps, ReserveCallKeeps, SendCallKeeps, MarkCallKeeps DEF Submit

LEMMA WorkKeeps ==
  ASSUME IInv, NEW h \in Handler, Work(h)
  PROVE  IInv'
BY RegistrationKeeps, ReadStatusKeeps, RecordStatusKeeps, LookForCheckKeeps, ViewCaseKeeps,
   StartCheckKeeps, BindDocumentKeeps, CheckDeadlineKeeps, DraftFollowupKeeps,
   DecideCheckKeeps, LastStepKeeps DEF Work

LEMMA ClaimKeeps ==
  ASSUME IInv, NEW h \in Handler, NEW e \in Event, Claim(h, e) \/ TakeOver(h, e)
  PROVE  IInv'
<1>1. event[e].status # "absent" /\ Take(h, e)
  BY DEF Claim, TakeOver
<1>2. disruptions' \in 0..MaxDisruptions
  BY FulfilmentAssumption DEF Claim, TakeOver, IInv, TypeOK
<1> QED
  BY <1>1, <1>2, TakeKeeps

LEMMA StutterKeeps ==
  ASSUME IInv, UNCHANGED vars
  PROVE  IInv'
<1> USE DEF IInv, vars, requestVars, checkVars, workVars, boundVars
<1>1. TypeOK'
  BY DEF TypeOK, ExecutorTypeOK, RequestsTypeOK, ResolutionTypeOK
<1>2. Approval' /\ Taken' /\ External' /\ Lasting /\ CaseFollowsRows'
  BY DEF Approval, Taken, External, ExternalIsTrue, Lasting, CaseFollowsRows
<1> QED
  BY <1>1, <1>2, QuietWrite

LEMMA NextKeeps ==
  ASSUME IInv, [Next]_vars
  PROVE  IInv'
<1>1. CASE Write \/ Attach
  BY <1>1, WriteKeeps, AttachKeeps
<1>2. ASSUME NEW c \in Call, Submit(c) PROVE IInv'
  BY <1>2, SubmitKeeps
<1>3. CASE OperatorRegisters \/ DocumentIsReady
  BY <1>3, OperatorRegistersKeeps, DocumentIsReadyKeeps
<1>4. ASSUME NEW e \in StatusEvent, NEW s \in ExternalStatus, OperatorReports(e, s) PROVE IInv'
  BY <1>4, OperatorReportsKeeps
<1>5. ASSUME NEW o \in Verdict, PollEnds(o) PROVE IInv'
  BY <1>5, PollEndsKeeps
<1>6. ASSUME NEW h \in Handler,
             \/ Work(h) \/ Crash(h)
             \/ \E e \in Event : Claim(h, e) \/ TakeOver(h, e)
      PROVE  IInv'
  BY <1>6, WorkKeeps, CrashKeeps, ClaimKeeps
<1>7. CASE UNCHANGED vars
  BY <1>7, StutterKeeps
<1> QED
  BY <1>1, <1>2, <1>3, <1>4, <1>5, <1>6, <1>7 DEF Next

\* The rows of the case, its request, its check and the executor agree, with
\* what each worker and each call knows of them, in every state.
THEOREM FulfilmentInvariant == Spec => []IInv
BY InitKeeps, NextKeeps, PTL DEF Spec

\* Every row is well formed: only declared statuses, versions that count from
\* one, and no worker at an event the system does not have.
THEOREM TypeCorrect == Spec => []TypeOK
<1>1. IInv => TypeOK
  BY DEF IInv
<1> QED
  BY <1>1, FulfilmentInvariant, PTL

\* The executor holds the draft that stands, as approved, by one who was shown
\* it: revise and reserve_submit exclude each other through the row lock.
THEOREM SubmissionWasApproved == Spec => []SubmittedAsApproved
<1>1. IInv => SubmittedAsApproved
  BY DEF IInv, SubmittedAsApproved, Taken, Approval
<1> QED
  BY <1>1, FulfilmentInvariant, PTL

\* The status that is kept is the one the executor had at that version, though
\* it is read long after the event was made.
THEOREM KnowledgeIsTrue == Spec => []ExternalIsTrue
<1>1. IInv => ExternalIsTrue
  BY DEF IInv, External
<1> QED
  BY <1>1, FulfilmentInvariant, PTL

\* The status of the case follows from those of its request and its check,
\* whichever worker wrote last.
THEOREM RowsAgree == Spec => []CaseFollowsRows
<1>1. IInv => CaseFollowsRows
  BY DEF IInv
<1> QED
  BY <1>1, FulfilmentInvariant, PTL

\* A verdict is the outcome of the poll of residents, and the poll was asked
\* because of the event by which the executor said done.
THEOREM ResidentsDecide == Spec => []VerdictIsOfResidents
<1>1. IInv => VerdictIsOfResidents
  <2> SUFFICES ASSUME IInv, case.status \in Verdict
               PROVE  /\ poll = case.status
                      /\ request.external = "done"
                      /\ operation.history[request.externalVersion].event = check.doneEvent
    BY DEF VerdictIsOfResidents
  <2>1. check.status \in Verdict /\ check.status = case.status
    BY DEF IInv, CaseFollowsRows, Verdict
  <2>2. check.status # "none"
    BY <2>1 DEF Verdict
  <2> QED
    BY <2>1, <2>2 DEF IInv, Checked
<1> QED
  BY <1>1, FulfilmentInvariant, PTL

-----------------------------------------------------------------------------
(* What no step takes back *)

Forward ==
  /\ request.status \in Ordered
       => /\ request'.status # request.status
               => <<request.status, request'.status>> \in
                    {<<"submitting", "submitted">>, <<"submitted", "registered">>}
          /\ request'.submitKey = request.submitKey
          /\ request'.draft = request.draft
  /\ request'.externalVersion >= request.externalVersion
  /\ case.status \in Verdict => case'.status = case.status

LEMMA UntouchedGoesForward ==
  ASSUME TypeOK, UNCHANGED <<case, request>>
  PROVE  Forward
BY DEF Forward, TypeOK, RequestsTypeOK

\* A write that leaves the request where it is, or moves it on by one.
LEMMA WritesGoForward ==
  ASSUME IInv, Write
  PROVE  Forward
<1> USE DEF IInv
<1>1. CASE Prepare
  <2>1. request.status = "none" /\ request.externalVersion = 0 /\ case.status \notin Verdict
    BY <1>1 DEF Prepare, CaseFollowsRows, Checked, TypeOK, RequestsTypeOK, ResolutionTypeOK,
                RequestStatus, External, NoCheck, Verdict
  <2>2. request'.externalVersion = 0
    BY <1>1 DEF Prepare, NoRequest
  <2> QED
    BY <2>1, <2>2 DEF Forward, Ordered
<1>2. CASE Revise \/ \E a \in Actor : Approve(a)
  <2>1. request.status \notin Ordered /\ request'.externalVersion = request.externalVersion
        /\ UNCHANGED case /\ request.externalVersion \in Nat
    BY <1>2 DEF Revise, Approve, Ordered, TypeOK, RequestsTypeOK
  <2> QED
    BY <2>1 DEF Forward
<1>3. CASE \E a \in Actor : Show(a)
  BY <1>3, UntouchedGoesForward DEF Show
<1> QED
  BY <1>1, <1>2, <1>3 DEF Write

LEMMA SubmitGoesForward ==
  ASSUME IInv, NEW c \in Call, Submit(c)
  PROVE  Forward
<1> USE DEF IInv
<1>1. CASE CheckCall(c) \/ SendCall(c)
  BY <1>1, UntouchedGoesForward DEF CheckCall, SendCall, requestVars
<1>2. CASE ReserveCall(c)
  <2>1. \/ UNCHANGED request
        \/ /\ request.status = "approved"
           /\ request' = [request EXCEPT !.submitKey = KeyOf[c], !.status = "submitting"]
    BY <1>2 DEF ReserveCall, CanReserve, Reserve
  <2>2. UNCHANGED case
    BY <1>2 DEF ReserveCall
  <2>3. CASE UNCHANGED request
    BY <2>2, <2>3, UntouchedGoesForward
  <2>4. CASE /\ request.status = "approved"
             /\ request' = [request EXCEPT !.submitKey = KeyOf[c], !.status = "submitting"]
    <3>1. request'.externalVersion = request.externalVersion /\ request.externalVersion \in Nat
          /\ request.status \notin Ordered
      BY <2>4 DEF TypeOK, RequestsTypeOK, Ordered
    <3> QED
      BY <2>2, <3>1 DEF Forward
  <2> QED
    BY <2>1, <2>3, <2>4
<1>3. CASE MarkCall(c)
  <2>1. \/ UNCHANGED <<case, request>>
        \/ /\ request.status = "submitting"
           /\ request' = [request EXCEPT !.executorKey = operation.key, !.status = "submitted"]
    BY <1>3 DEF MarkCall, CanMark, MarkSubmitted
  <2>2. CASE UNCHANGED <<case, request>>
    BY <2>2, UntouchedGoesForward
  <2>3. CASE /\ request.status = "submitting"
             /\ request' = [request EXCEPT !.executorKey = operation.key, !.status = "submitted"]
    <3>1. case.status \notin Verdict
      BY <2>3 DEF CaseFollowsRows, Checked, TypeOK, ResolutionTypeOK, NoCheck, Verdict
    <3>2. /\ request'.status = "submitted" /\ request'.submitKey = request.submitKey
          /\ request'.draft = request.draft
          /\ request'.externalVersion = request.externalVersion /\ request.externalVersion \in Nat
      BY <2>3 DEF TypeOK, RequestsTypeOK
    <3> QED
      BY <2>3, <3>1, <3>2 DEF Forward
  <2> QED
    BY <2>1, <2>2, <2>3
<1> QED
  BY <1>1, <1>2, <1>3 DEF Submit

LEMMA WorkGoesForward ==
  ASSUME IInv, NEW h \in Handler, Work(h)
  PROVE  Forward
<1> USE DEF IInv
<1>1. CASE \/ ReadStatus(h) \/ LookForCheck(h) \/ ViewCase(h) \/ CheckDeadline(h)
           \/ Agent(h) \/ Finish(h)
  BY <1>1, UntouchedGoesForward
  DEF ReadStatus, LookForCheck, ViewCase, CheckDeadline, Agent, Finish, requestVars
<1>2. request \in RequestRow
  BY DEF TypeOK, RequestsTypeOK, RequestRow
<1>3. CASE HandleRegistration(h)
  <2>1. CASE UNCHANGED <<case, request>>
    BY <2>1, UntouchedGoesForward
  <2>2. CASE ~ UNCHANGED <<case, request>>
    <3>1. /\ request.status = "submitted" /\ request.externalVersion = 0
          /\ request' = [request EXCEPT !.status = "registered", !.external = "registered",
                           !.externalVersion = IF @ = 0 THEN 1 ELSE @]
      BY <1>2, <1>3, <2>2 DEF HandleRegistration, CanRegister, Register, External, RequestRow
    <3>2. case.status \notin Verdict
      BY <3>1 DEF CaseFollowsRows, Checked, TypeOK, ResolutionTypeOK, NoCheck, Verdict
    <3>3. /\ request'.status = "registered" /\ request'.submitKey = request.submitKey
          /\ request'.draft = request.draft /\ request'.externalVersion = 1
      BY <1>2, <3>1 DEF RequestRow
    <3> QED
      BY <3>1, <3>2, <3>3 DEF Forward
  <2> QED
    BY <2>1, <2>2
<1>4. CASE RecordStatus(h)
  <2> DEFINE answer == handler[h].answer
  <2>1. answer.version \in Nat /\ request.externalVersion \in Nat
    BY <1>2 DEF TypeOK, RequestRow
  <2>2. \/ UNCHANGED <<case, request>>
        \/ /\ answer.version > request.externalVersion /\ Versioned(case.status)
           /\ request' = [request EXCEPT !.external = answer.status,
                                         !.externalVersion = answer.version]
    <3> DEFINE e == handler[h].event
    <3> HIDE DEF e, answer
    <3>1. \/ UNCHANGED <<case, request>>
          \/ CanRecord(e, event[e].version, answer) /\ Record(e, answer)
      BY <1>4 DEF RecordStatus, e, answer
    <3> QED
      BY <3>1 DEF CanRecord, Record, IsRecorded
  <2>3. CASE UNCHANGED <<case, request>>
    BY <2>3, UntouchedGoesForward
  <2>4. CASE /\ answer.version > request.externalVersion /\ Versioned(case.status)
             /\ request' = [request EXCEPT !.external = answer.status,
                                           !.externalVersion = answer.version]
    <3> HIDE DEF answer
    <3>1. /\ request'.status = request.status /\ request'.submitKey = request.submitKey
          /\ request'.draft = request.draft
          /\ request'.externalVersion = answer.version /\ case'.status = case.status
      BY <1>2, <2>4 DEF RequestRow, Versioned
    <3> QED
      BY <2>1, <2>4, <3>1 DEF Forward
  <2> QED
    BY <2>2, <2>3, <2>4
<1>5. CASE StartCheck(h) \/ DraftFollowup(h)
  <2>1. UNCHANGED request /\ (UNCHANGED case \/ case.status = "in_progress")
    BY <1>5 DEF StartCheck, CanStart, Start, DraftFollowup, Followup, DeadlineIsCurrent
  <2> QED
    BY <1>2, <2>1 DEF Forward, Verdict, RequestRow
<1>6. CASE BindDocument(h)
  <2>1. /\ request'.status = request.status /\ request'.submitKey = request.submitKey
        /\ request'.draft = request.draft
        /\ request'.externalVersion = request.externalVersion /\ case'.status = case.status
    BY <1>2, <1>6 DEF BindDocument, Bind, Versioned, RequestRow
  <2> QED
    BY <1>2, <2>1 DEF Forward, RequestRow
<1>7. CASE DecideCheck(h)
  <2>1. UNCHANGED request /\ (UNCHANGED case \/ case.status = "checking_resolution")
    BY <1>7 DEF DecideCheck, CanDecide, Decide
  <2> QED
    BY <1>2, <2>1 DEF Forward, Verdict, RequestRow
<1> QED
  BY <1>1, <1>3, <1>4, <1>5, <1>6, <1>7 DEF Work

LEMMA StepsGoForward ==
  ASSUME IInv, Next
  PROVE  Forward
<1>1. CASE Write
  BY <1>1, WritesGoForward
<1>2. CASE Attach
  <2>1. UNCHANGED request /\ case'.status = case.status
    BY <1>2 DEF Attach, Touch, Versioned
  <2> QED
    BY <2>1 DEF Forward, IInv, TypeOK, RequestsTypeOK
<1>3. ASSUME NEW c \in Call, Submit(c) PROVE Forward
  BY <1>3, SubmitGoesForward
<1>4. CASE \/ OperatorRegisters \/ DocumentIsReady
           \/ \E e \in StatusEvent, s \in ExternalStatus : OperatorReports(e, s)
           \/ \E o \in Verdict : PollEnds(o)
           \/ \E h \in Handler : Crash(h) \/ \E e \in Event : Claim(h, e) \/ TakeOver(h, e)
  <2>1. UNCHANGED <<case, request>>
    BY <1>4
    DEF OperatorRegisters, DocumentIsReady, OperatorReports, PollEnds, Crash, Claim,
        TakeOver, Take, requestVars
  <2> QED
    BY <2>1, UntouchedGoesForward DEF IInv
<1>5. ASSUME NEW h \in Handler, Work(h) PROVE Forward
  BY <1>5, WorkGoesForward
<1> QED
  BY <1>1, <1>2, <1>3, <1>4, <1>5 DEF Next

\* A submission, a registration, what the executor reported and a verdict are
\* never taken back, by whatever repeated, late or doubly handled event.
THEOREM NothingIsEverUndone == Spec => NothingIsUndone
<1>1. IInv /\ [Next]_vars => [Forward]_vars
  BY StepsGoForward
<1>2. Forward =>
        /\ request.status \in {"submitting", "submitted", "registered"}
             => /\ request'.status # request.status
                     => <<request.status, request'.status>> \in
                          {<<"submitting", "submitted">>, <<"submitted", "registered">>}
                /\ request'.submitKey = request.submitKey
        /\ request'.externalVersion >= request.externalVersion
        /\ case.status \in Verdict => case'.status = case.status
  BY DEF Forward, Ordered
<1> QED
  BY <1>1, <1>2, FulfilmentInvariant, PTL DEF Spec, NothingIsUndone

-----------------------------------------------------------------------------
(* The rows implement a case *)

\* A call that has reserved the submission did so under its own key.
Keyed == \A c \in Call : call[c].step \in {"reserved", "sent"} => KeyOf[c] = request.submitKey

\* What a step leaves alone if it shows nothing of the case.
Still ==
  /\ UNCHANGED <<operation, poll>>
  /\ request'.status \in Ordered => request.status \in Ordered
  /\ request'.externalVersion = request.externalVersion
  /\ case'.status \in Verdict => case.status \in Verdict

LEMMA StillIsStutter ==
  ASSUME Forward, Still
  PROVE  UNCHANGED Life!vars
<1>1. UNCHANGED OrderOfRow
  BY DEF Forward, Still, OrderOfRow, Ordered
<1>2. UNCHANGED <<OrderAtExecutor, Reports, VerdictOfCase>>
  BY DEF Forward, Still, OrderAtExecutor, Reports, VerdictOfCase
<1> QED
  BY <1>1, <1>2 DEF Still, Life!vars

LEMMA UntouchedIsStutter ==
  ASSUME UNCHANGED <<operation, case, request, poll>>
  PROVE  UNCHANGED Life!vars
BY DEF OrderOfRow, OrderAtExecutor, Reports, VerdictOfCase, Life!vars

LEMMA WritesAreStutters ==
  ASSUME IInv, Write
  PROVE  UNCHANGED Life!vars
<1> USE DEF IInv
<1>1. Forward
  BY WritesGoForward
<1>2. CASE Prepare
  <2>1. request.externalVersion = 0
    BY <1>2 DEF Prepare, CaseFollowsRows, Checked, TypeOK, RequestsTypeOK, ResolutionTypeOK,
                RequestStatus, External, NoCheck, Verdict
  <2>2. request'.externalVersion = 0 /\ request'.status = "prepared"
        /\ case'.status = "awaiting_approval"
    BY <1>2 DEF Prepare, NoRequest, Versioned
  <2> QED
    BY <1>1, <2>1, <2>2, StillIsStutter DEF Still, Write, Ordered, Verdict, checkVars
<1>3. CASE Revise \/ \E a \in Actor : Approve(a)
  <2>1. /\ request'.status \notin Ordered /\ UNCHANGED case
        /\ request'.externalVersion = request.externalVersion
    BY <1>3 DEF Revise, Approve, Ordered, TypeOK, RequestsTypeOK
  <2> QED
    BY <1>1, <2>1, StillIsStutter DEF Still, Write, checkVars
<1>4. CASE \E a \in Actor : Show(a)
  BY <1>4, UntouchedIsStutter DEF Show, Write, checkVars
<1> QED
  BY <1>2, <1>3, <1>4 DEF Write

LEMMA SubmitIsLife ==
  ASSUME IInv, Keyed, NEW c \in Call, Submit(c)
  PROVE  Life!Seal \/ Life!Take \/ UNCHANGED Life!vars
<1> USE DEF IInv
<1>1. CASE CheckCall(c)
  BY <1>1, UntouchedIsStutter DEF CheckCall, requestVars, checkVars
<1>2. CASE ReserveCall(c)
  <2>1. UNCHANGED <<operation, case, poll>>
    BY <1>2 DEF ReserveCall, checkVars
  <2>2. CASE UNCHANGED request
    BY <2>1, <2>2, UntouchedIsStutter
  <2>3. CASE /\ request.status = "approved"
             /\ request' = [request EXCEPT !.submitKey = KeyOf[c], !.status = "submitting"]
    <3>1. /\ request'.status = "submitting" /\ request'.submitKey = KeyOf[c]
          /\ request'.draft = request.draft /\ request.draft \in 0..MaxDraft
          /\ request'.externalVersion = request.externalVersion
      BY <2>3 DEF TypeOK, RequestsTypeOK
    <3>2. OrderOfRow = None /\ OrderOfRow' = [draft |-> request.draft, key |-> KeyOf[c]]
      BY <2>3, <3>1 DEF OrderOfRow, Ordered
    <3>3. OrderOfRow' \in Life!Order
      BY <3>1, <3>2, FulfilmentAssumption DEF Life!Order
    <3>4. UNCHANGED <<OrderAtExecutor, Reports, VerdictOfCase>>
      BY <2>1 DEF OrderAtExecutor, Reports, VerdictOfCase
    <3> QED
      BY <2>1, <3>1, <3>2, <3>3, <3>4 DEF Life!Seal
  <2> QED
    BY <1>2, <2>2, <2>3 DEF ReserveCall, CanReserve, Reserve
<1>3. CASE SendCall(c)
  <2>1. UNCHANGED <<case, request, poll>>
    BY <1>3 DEF SendCall, requestVars, checkVars
  <2>2. CASE UNCHANGED operation
    BY <2>1, <2>2, UntouchedIsStutter
  <2>3. CASE ~ UNCHANGED operation
    <3>1. /\ operation = None /\ request.draft = call[c].revision
          /\ operation' = [key |-> KeyOf[c], revision |-> call[c].revision, history |-> <<>>]
          /\ call[c].step = "reserved"
      BY <1>3, <2>3 DEF SendCall, Accepts, SubmitOnce
    <3>2. request.status \in Ordered /\ request.submitKey = KeyOf[c]
      BY <3>1 DEF Taken, Keyed
    <3>3. KeyOf[c] \in Key /\ call[c].revision \in 0..MaxDraft
      BY FulfilmentAssumption DEF TypeOK
    <3>4. <<>> \in Seq(Change)
      OBVIOUS
    <3>5. operation' \in [key : Key, revision : Nat, history : Seq(Change)]
      BY <3>1, <3>3, <3>4, FulfilmentAssumption
    <3>6. operation' # None
      BY <3>5, FulfilmentAssumption
    <3>7. OrderOfRow = [draft |-> call[c].revision, key |-> KeyOf[c]]
      BY <3>1, <3>2 DEF OrderOfRow
    <3>8. /\ OrderAtExecutor = None /\ OrderAtExecutor' = OrderOfRow
          /\ Reports = <<>> /\ Reports' = <<>>
      BY <3>1, <3>6, <3>7 DEF OrderAtExecutor, Reports
    <3>9. OrderOfRow \in Life!Order
      BY <3>3, <3>7 DEF Life!Order
    <3>10. UNCHANGED <<OrderOfRow, VerdictOfCase>>
      BY <2>1 DEF OrderOfRow, VerdictOfCase
    <3> QED
      BY <2>1, <3>8, <3>9, <3>10 DEF Life!Take
  <2> QED
    BY <2>2, <2>3
<1>4. CASE MarkCall(c)
  <2>1. UNCHANGED <<operation, poll>> /\ Forward
    BY <1>4, SubmitGoesForward DEF MarkCall, Submit, checkVars
  <2>2. CASE UNCHANGED <<case, request>>
    BY <2>1, <2>2, UntouchedIsStutter
  <2>3. CASE /\ request.status = "submitting"
             /\ request' = [request EXCEPT !.executorKey = operation.key, !.status = "submitted"]
             /\ Versioned("awaiting_registration")
    <3>1. /\ request.status \in Ordered /\ request'.externalVersion = request.externalVersion
          /\ case'.status \notin Verdict
      BY <2>3 DEF TypeOK, RequestsTypeOK, Versioned, Verdict, Ordered
    <3> QED
      BY <2>1, <3>1, StillIsStutter DEF Still
  <2> QED
    BY <1>4, <2>2, <2>3 DEF MarkCall, CanMark, MarkSubmitted
<1> QED
  BY <1>1, <1>2, <1>3, <1>4 DEF Submit

LEMMA TellingIsLife ==
  ASSUME IInv, operation # None, NEW change \in Change,
         operation' = [operation EXCEPT !.history = Append(@, change)],
         Life!MayReport(change.status), UNCHANGED <<case, request, poll>>
  PROVE  Life!Tell
<1> USE DEF IInv
<1>1. operation \in [key : Key, revision : Nat, history : Seq(Change)]
  BY DEF TypeOK, ExecutorTypeOK
<1>2. Append(operation.history, change) \in Seq(Change)
  BY <1>1
<1>3. /\ operation' \in [key : Key, revision : Nat, history : Seq(Change)]
      /\ operation'.revision = operation.revision /\ operation'.key = operation.key
      /\ operation'.history = Append(operation.history, change)
  BY <1>1, <1>2
<1>4. operation' # None
  BY <1>3, FulfilmentAssumption
<1>5. operation.revision \in 0..MaxDraft /\ operation.key \in Key
  BY <1>1 DEF Taken, TypeOK, RequestsTypeOK
<1>6. OrderAtExecutor \in Life!Order /\ UNCHANGED OrderAtExecutor
  BY <1>3, <1>4, <1>5 DEF OrderAtExecutor, Life!Order
<1>7. Reports' = Append(Reports, change)
  BY <1>3, <1>4 DEF Reports
<1>8. UNCHANGED <<OrderOfRow, VerdictOfCase>>
  BY DEF OrderOfRow, VerdictOfCase
<1> QED
  BY <1>6, <1>7, <1>8 DEF Life!Tell

LEMMA OperatorIsLife ==
  ASSUME IInv, OperatorRegisters \/ \E e \in StatusEvent, s \in ExternalStatus : OperatorReports(e, s)
  PROVE  Life!Tell
<1> USE DEF IInv
<1>1. ASSUME OperatorRegisters PROVE Life!Tell
  <2> DEFINE change == [event |-> Registration, status |-> "registered"]
  <2>1. /\ operation # None /\ UNCHANGED <<case, request, poll>>
        /\ operation' = [operation EXCEPT !.history = <<change>>]
        /\ operation.history = <<>>
    BY <1>1, UnregisteredIsEmpty DEF OperatorRegisters, RegisterAtomic, requestVars, checkVars
  <2>2. change \in Change /\ change.status = "registered"
    BY DEF Change, ExternalStatus
  <2> HIDE DEF change
  <2>3. operation' = [operation EXCEPT !.history = Append(@, change)]
    BY <2>1, <2>2
  <2>4. Life!MayReport(change.status)
    BY <2>1, <2>2 DEF Life!MayReport, Reports
  <2> QED
    BY <2>1, <2>2, <2>3, <2>4, TellingIsLife
<1>2. ASSUME NEW e \in StatusEvent, NEW s \in ExternalStatus, OperatorReports(e, s)
      PROVE  Life!Tell
  <2> DEFINE change == [event |-> e, status |-> s]
  <2>1. /\ operation # None /\ UNCHANGED <<case, request, poll>>
        /\ operation' = [operation EXCEPT !.history = Append(@, change)]
        /\ StatusOf(operation) \in {"registered", "in_progress"}
        /\ s \in {"in_progress", "done"}
    BY <1>2 DEF OperatorReports, ChangeStatusAtomic, requestVars, checkVars
  <2>2. change \in Change /\ change.status = s
    BY DEF Change
  <2> HIDE DEF change
  <2>3. Life!MayReport(change.status)
    BY <2>1, <2>2 DEF Life!MayReport, Reports, StatusOf
  <2> QED
    BY <2>1, <2>2, <2>3, TellingIsLife
<1> QED
  BY <1>1, <1>2

LEMMA PollIsLife ==
  ASSUME IInv, NEW outcome \in Verdict, PollEnds(outcome)
  PROVE  Life!Reply
<1>1. poll = "open" /\ poll' = outcome /\ UNCHANGED <<operation, case, request>>
  BY DEF PollEnds, ClosePoll, requestVars
<1> QED
  BY <1>1 DEF Life!Reply, OrderOfRow, OrderAtExecutor, Reports, VerdictOfCase

\* What the house learns is what the executor has reported by then.
LEMMA LearningIsLife ==
  ASSUME IInv, Forward, NEW version \in 1..Len(operation.history), operation # None,
         version > request.externalVersion, request'.externalVersion = version,
         request'.status \in Ordered => request.status \in Ordered,
         case'.status \in Verdict => case.status \in Verdict,
         UNCHANGED <<operation, poll>>
  PROVE  Life!Learn
<1>1. request.externalVersion \in Nat
  BY DEF IInv, TypeOK, RequestsTypeOK
<1>2. operation \in [key : Key, revision : Nat, history : Seq(Change)]
  BY DEF IInv, TypeOK, ExecutorTypeOK
<1>3. Len(Reports) \in Nat /\ version \in 1..Len(Reports)
  BY <1>2 DEF Reports
<1>4. UNCHANGED OrderOfRow
  BY DEF Forward, OrderOfRow, Ordered
<1>5. UNCHANGED <<OrderAtExecutor, Reports, VerdictOfCase>>
  BY DEF Forward, OrderAtExecutor, Reports, VerdictOfCase
<1> QED
  BY <1>1, <1>3, <1>4, <1>5 DEF Life!Learn

LEMMA RegistrationIsLife ==
  ASSUME IInv, NEW h \in Handler, HandleRegistration(h)
  PROVE  Life!Learn \/ UNCHANGED Life!vars
<1> USE DEF IInv
<1>1. UNCHANGED <<operation, poll>> /\ Forward
  BY WorkGoesForward DEF Work, HandleRegistration, checkVars
<1>2. CASE UNCHANGED <<case, request>>
  BY <1>1, <1>2, UntouchedIsStutter
<1>3. CASE ~ UNCHANGED <<case, request>>
  <2>1. /\ request.status = "submitted" /\ request.externalVersion = 0
        /\ request' = [request EXCEPT !.status = "registered", !.external = "registered",
                         !.externalVersion = IF @ = 0 THEN 1 ELSE @]
        /\ Versioned("in_progress")
    BY <1>3 DEF HandleRegistration, CanRegister, Register, External, TypeOK, RequestsTypeOK
  <2>2. request'.externalVersion = 1 /\ request.status \in Ordered /\ case'.status \notin Verdict
    BY <2>1 DEF TypeOK, RequestsTypeOK, Ordered, Versioned, Verdict
  <2>3. handler[h].event = Registration
    BY DEF HandleRegistration, At, Duties, Fits
  <2>4. operation # None /\ operation.history # <<>>
    BY <2>3 DEF Duties, Fits, Inboxed, HandleRegistration, At
  <2>5. operation \in [key : Key, revision : Nat, history : Seq(Change)]
    BY <2>4 DEF TypeOK, ExecutorTypeOK
  <2>6. 1 \in 1..Len(operation.history)
    BY <2>4, <2>5
  <2> QED
    BY <1>1, <2>1, <2>2, <2>4, <2>6, LearningIsLife
<1> QED
  BY <1>2, <1>3

LEMMA RecordIsLife ==
  ASSUME IInv, NEW h \in Handler, RecordStatus(h)
  PROVE  Life!Learn \/ UNCHANGED Life!vars
<1> USE DEF IInv
<1> DEFINE e == handler[h].event
           answer == handler[h].answer
<1>1. UNCHANGED <<operation, poll>> /\ Forward
  BY WorkGoesForward DEF Work, RecordStatus, checkVars
<1>2. answer.version \in Nat /\ request.externalVersion \in Nat /\ request \in RequestRow
  BY DEF TypeOK, RequestsTypeOK, RequestRow
<1>3. /\ e \in StatusEvent /\ event[e].status # "absent"
      /\ answer.version \in 1..Len(operation.history)
  BY DEF RecordStatus, At, Duties, Fits
<1>4. operation # None
  BY <1>3 DEF Inboxed
<1>5. \/ UNCHANGED <<case, request>>
      \/ CanRecord(e, event[e].version, answer) /\ Record(e, answer)
  BY DEF RecordStatus
<1> HIDE DEF e, answer
<1>6. \/ UNCHANGED <<case, request>>
      \/ /\ answer.version > request.externalVersion /\ Versioned(case.status)
         /\ request' = [request EXCEPT !.external = answer.status,
                                       !.externalVersion = answer.version]
  BY <1>5 DEF CanRecord, Record, IsRecorded
<1>7. CASE UNCHANGED <<case, request>>
  BY <1>1, <1>7, UntouchedIsStutter
<1>8. CASE /\ answer.version > request.externalVersion /\ Versioned(case.status)
           /\ request' = [request EXCEPT !.external = answer.status,
                                         !.externalVersion = answer.version]
  <2>1. /\ request'.externalVersion = answer.version /\ request'.status = request.status
        /\ case'.status = case.status
    BY <1>2, <1>8 DEF RequestRow, Versioned
  <2> QED
    BY <1>1, <1>3, <1>4, <1>8, <2>1, LearningIsLife
<1> QED
  BY <1>6, <1>7, <1>8

LEMMA StartIsLife ==
  ASSUME IInv, NEW h \in Handler, StartCheck(h)
  PROVE  Life!Ask \/ UNCHANGED Life!vars
<1> USE DEF IInv
<1> DEFINE e == handler[h].event
<1>1. UNCHANGED <<operation, request>> /\ Forward
  BY WorkGoesForward DEF Work, StartCheck
<1>2. CASE UNCHANGED <<case, poll>>
  BY <1>1, <1>2, UntouchedIsStutter
<1>3. CASE ~ UNCHANGED <<case, poll>>
  <2>1. /\ poll' = "open" /\ Versioned("checking_resolution") /\ case.status = "in_progress"
    BY <1>3 DEF StartCheck, CanStart, Start, checkVars
  <2>2. check.status = "none" /\ poll = "none"
    <3>1. check.status \in {"none", "checking"} \cup Verdict
      BY DEF TypeOK, ResolutionTypeOK
    <3>2. check.status # "checking" /\ check.status \notin Verdict
      BY <2>1 DEF CaseFollowsRows, Verdict, NoCheck
    <3> QED
      BY <3>1, <3>2 DEF Checked
  <2>3. /\ e \in StatusEvent /\ event[e].status # "absent"
        /\ request.external = "done" /\ request.externalVersion = event[e].version
    BY DEF StartCheck, At, Duties, Fits
  <2>4. operation # None /\ request.externalVersion \in 1..Len(operation.history)
    BY <2>3 DEF Inboxed
  <2>5. operation \in [key : Key, revision : Nat, history : Seq(Change)]
    BY <2>4 DEF TypeOK, ExecutorTypeOK
  <2>6. request.externalVersion > 0
    BY <2>4, <2>5
  <2>7. operation.history[request.externalVersion].status = "done"
    BY <2>3, <2>6 DEF External, ExternalIsTrue
  <2>8. Reports = operation.history /\ UNCHANGED <<OrderOfRow, OrderAtExecutor, Reports>>
    BY <1>1, <2>4 DEF Reports, OrderOfRow, OrderAtExecutor
  <2>9. UNCHANGED VerdictOfCase
    BY <2>1 DEF VerdictOfCase, Versioned, Verdict
  <2> QED
    BY <1>1, <2>1, <2>2, <2>4, <2>7, <2>8, <2>9 DEF Life!Ask
<1> QED
  BY <1>2, <1>3

LEMMA DecisionIsLife ==
  ASSUME IInv, NEW h \in Handler, DecideCheck(h)
  PROVE  Life!Decide \/ UNCHANGED Life!vars
<1> USE DEF IInv
<1>1. UNCHANGED <<operation, request, poll>>
  BY DEF DecideCheck
<1>2. CASE UNCHANGED case
  BY <1>1, <1>2, UntouchedIsStutter
<1>3. CASE ~ UNCHANGED case
  <2>1. case.status = "checking_resolution" /\ Versioned(poll)
    BY <1>3 DEF DecideCheck, CanDecide, Decide
  <2>2. poll \in Verdict
    BY DEF DecideCheck, At, Duties, Fits, Inboxed
  <2>3. VerdictOfCase = None /\ VerdictOfCase' = poll
    BY <2>1, <2>2 DEF VerdictOfCase, Versioned, Verdict
  <2>4. UNCHANGED <<OrderOfRow, OrderAtExecutor, Reports>>
    BY <1>1 DEF Reports, OrderOfRow, OrderAtExecutor
  <2> QED
    BY <1>1, <2>2, <2>3, <2>4 DEF Life!Decide
<1> QED
  BY <1>2, <1>3

LEMMA WorkIsLife ==
  ASSUME IInv, NEW h \in Handler, Work(h)
  PROVE  Life!Learn \/ Life!Ask \/ Life!Decide \/ UNCHANGED Life!vars
<1>1. CASE \/ ReadStatus(h) \/ LookForCheck(h) \/ ViewCase(h) \/ CheckDeadline(h)
           \/ Agent(h) \/ Finish(h)
  BY <1>1, UntouchedIsStutter
  DEF ReadStatus, LookForCheck, ViewCase, CheckDeadline, Agent, Finish, requestVars, checkVars
<1>2. CASE BindDocument(h) \/ DraftFollowup(h)
  <2>1. request \in RequestRow
    BY DEF IInv, TypeOK, RequestsTypeOK, RequestRow
  <2>2. /\ UNCHANGED <<operation, poll>> /\ request'.status = request.status
        /\ request'.externalVersion = request.externalVersion
        /\ case'.status \in {case.status, "followup_draft"}
    BY <1>2, <2>1
    DEF BindDocument, Bind, DraftFollowup, Followup, Versioned, RequestRow, checkVars
  <2> QED
    BY <2>2, WorkGoesForward, StillIsStutter DEF Still, Verdict
<1> QED
  BY <1>1, <1>2, RegistrationIsLife, RecordIsLife, StartIsLife, DecisionIsLife DEF Work

LEMMA KeyedStays ==
  ASSUME IInv, Keyed, [Next]_vars
  PROVE  Keyed'
<1> USE DEF IInv
<1> SUFFICES ASSUME NEW c \in Call, call'[c].step \in {"reserved", "sent"}
             PROVE  KeyOf[c] = request'.submitKey
  BY DEF Keyed
<1>1. ASSUME ReserveCall(c)
      PROVE  KeyOf[c] = request'.submitKey
  <2>1. call'[c] = Over => call'[c].step = "over"
    BY DEF Over, NoCall
  <2>2. Reserve(KeyOf[c])
    BY <1>1, <2>1 DEF ReserveCall, TypeOK
  <2> QED
    BY <2>2 DEF Reserve, HoldsSubmission, TypeOK, RequestsTypeOK
<1>2. ASSUME ~ ReserveCall(c)
      PROVE  call[c].step \in {"reserved", "sent"}
  <2>1. CASE UNCHANGED call
    BY <2>1
  <2>2. ASSUME NEW d \in Call, Submit(d)
        PROVE  call[c].step \in {"reserved", "sent"}
    <3>1. CASE c # d
      <4>1. call'[c] = call[c]
        BY <2>2, <3>1 DEF Submit, CheckCall, ReserveCall, SendCall, MarkCall, TypeOK
      <4> QED
        BY <4>1
    <3>2. CASE c = d
      <4>1. CASE CheckCall(c)
        BY <4>1 DEF CheckCall, TypeOK
      <4>2. CASE SendCall(c)
        BY <4>2 DEF SendCall
      <4>3. CASE MarkCall(c)
        BY <4>3 DEF MarkCall
      <4> QED
        BY <1>2, <2>2, <3>2, <4>1, <4>2, <4>3 DEF Submit
    <3> QED
      BY <3>1, <3>2
  <2>3. UNCHANGED call \/ \E d \in Call : Submit(d)
    BY DEF Next, vars, Write, Attach, OperatorRegisters, DocumentIsReady, OperatorReports, PollEnds,
           Work, HandleRegistration, ReadStatus, RecordStatus, LookForCheck, ViewCase, StartCheck,
           BindDocument, CheckDeadline, DraftFollowup, DecideCheck, Agent, Finish, Crash, Claim,
           TakeOver, Take
  <2> QED
    BY <2>1, <2>2, <2>3
<1>3. ASSUME ~ ReserveCall(c)
      PROVE  KeyOf[c] = request'.submitKey
  <2>1. KeyOf[c] = request.submitKey /\ request.status \in Ordered
    BY <1>2, <1>3 DEF Keyed, Taken
  <2>2. CASE Next
    BY <2>1, <2>2, StepsGoForward DEF Forward
  <2>3. CASE UNCHANGED vars
    BY <2>1, <2>3 DEF vars, requestVars
  <2> QED
    BY <2>2, <2>3
<1> QED
  BY <1>1, <1>3

\* The rows, calls and workers of a case implement the machine that the
\* residents are promised: what competes, comes late or is repeated is no step
\* of it, and no step of the code is more than one of it.
THEOREM FulfilmentImplementsCaseLife == Spec => ImplementsCaseLife
<1>1. Init => Life!Init /\ Keyed
  <2> SUFFICES ASSUME Init
               PROVE  Life!Init /\ Keyed
    OBVIOUS
  <2>1. /\ operation = None /\ request = NoRequest /\ poll = "none"
        /\ case.status \in {"request_ready", "detected"}
    BY DEF Init, ExecutorInit, RequestsInit, ResolutionInit
  <2>2. request.status = "none" /\ request.externalVersion = 0
    BY <2>1 DEF NoRequest
  <2>3. Keyed
    BY DEF Init, Keyed, NoCall
  <2> QED
    BY <2>1, <2>2, <2>3
    DEF Life!Init, OrderOfRow, Ordered, OrderAtExecutor, Reports, VerdictOfCase, Verdict
<1>2. IInv /\ Keyed /\ [Next]_vars => [Life!Next]_(Life!vars)
  <2> SUFFICES ASSUME IInv, Keyed, [Next]_vars
               PROVE  [Life!Next]_(Life!vars)
    OBVIOUS
  <2>1. CASE Write
    BY <2>1, WritesAreStutters
  <2>2. CASE Attach
    BY <2>2, UntouchedIsStutter
    DEF Attach, Touch, Versioned, checkVars, Life!vars, OrderOfRow, OrderAtExecutor, Reports,
        VerdictOfCase
  <2>3. ASSUME NEW c \in Call, Submit(c) PROVE [Life!Next]_(Life!vars)
    BY <2>3, SubmitIsLife DEF Life!Next
  <2>4. CASE OperatorRegisters \/ \E e \in StatusEvent, s \in ExternalStatus : OperatorReports(e, s)
    BY <2>4, OperatorIsLife DEF Life!Next
  <2>5. ASSUME NEW o \in Verdict, PollEnds(o) PROVE [Life!Next]_(Life!vars)
    BY <2>5, PollIsLife DEF Life!Next
  <2>6. ASSUME NEW h \in Handler, Work(h) PROVE [Life!Next]_(Life!vars)
    BY <2>6, WorkIsLife DEF Life!Next
  <2>7. CASE \/ DocumentIsReady \/ UNCHANGED vars
             \/ \E h \in Handler : Crash(h) \/ \E e \in Event : Claim(h, e) \/ TakeOver(h, e)
    BY <2>7, UntouchedIsStutter
    DEF DocumentIsReady, Crash, Claim, TakeOver, Take, vars, requestVars, checkVars
  <2> QED
    BY <2>1, <2>2, <2>3, <2>4, <2>5, <2>6, <2>7 DEF Next
<1>3. IInv /\ Keyed /\ [Next]_vars => Keyed'
  BY KeyedStays
<1> QED
  BY <1>1, <1>2, <1>3, FulfilmentInvariant, PTL DEF Spec, Life!Spec, ImplementsCaseLife

=============================================================================
