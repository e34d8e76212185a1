------------------------------- MODULE Ingress --------------------------------
(***************************************************************************)
(* How the updates of MAX enter the inbox: fetched by the poller, in       *)
(* batches behind a marker it keeps in memory, or delivered one by one to  *)
(* the webhook.  Each update has a key of its own, under which it is kept  *)
(* once, however often it arrives; here the key is its place in the feed.  *)
(* (infrastructure/max/polling.py, infrastructure/max/updates.py,          *)
(* entrypoints/api.py, infrastructure/postgres/inbox.py)                   *)
(***************************************************************************)
EXTENDS EventWork, Sequences

CONSTANTS Update,    \* what an update may say: records with a "kind"
          MaxUpdates \* bound on the length of the feed

ASSUME IngressAssumption == MaxUpdates \in Nat

VARIABLES feed,     \* the updates MAX has made, in order
          confirmed, \* the highest marker MAX was shown
          poller,    \* the marker of the poller and the batch in its hands
          mode       \* how the system is set up: "polling" or "webhook"

ingressVars == <<feed, confirmed, poller, mode>>

Key == 1..MaxUpdates

\* A poller that has just been started: it shows MAX no marker.
Started == [step |-> "idle", marker |-> 0, batch |-> {}]

IngressInit ==
  /\ feed = <<>>
  /\ confirmed = 0
  /\ poller = Started
  /\ mode \in {"polling", "webhook"}
  /\ WorkInit(Key)

IngressTypeOK ==
  /\ feed \in Seq(Update) /\ Len(feed) <= MaxUpdates
  /\ confirmed \in 0..Len(feed)
  /\ poller \in [step : {"idle", "fetched", "saved"}, marker : 0..Len(feed),
                 batch : SUBSET (1..Len(feed))]
  /\ DOMAIN event = Key

\* An update the normalisation refuses: a field is missing or of a wrong type.
Refused(n) == n <= Len(feed) /\ feed[n].kind = "odd"

\* Something happens in MAX (external).
Happens(x) ==
  /\ Len(feed) < MaxUpdates
  /\ feed' = Append(feed, x)
  /\ UNCHANGED <<confirmed, poller, mode, workVars, disruptions>>

\* MAX sends what follows the marker, or what was never confirmed to it if no
\* marker is given (external).
Since == IF poller.marker = 0 THEN confirmed ELSE poller.marker

\* Mutant: the marker moves when the batch arrives, before it is kept.
HandedWithMarker(batch) ==
  [step |-> "fetched", marker |-> Len(feed), batch |-> batch]

Handed(batch) == [poller EXCEPT !.step = "fetched", !.batch = batch]

Fetch ==
  /\ mode = "polling" /\ poller.step = "idle"
  /\ Since < Len(feed)
  /\ confirmed' = Since
  /\ poller' = Handed((Since + 1)..Len(feed))
  /\ UNCHANGED <<feed, mode, workVars, disruptions>>

\* One transaction keeps the whole batch, and then the marker moves past it.
Save ==
  /\ poller.step = "fetched"
  /\ ~ \E n \in poller.batch : Refused(n)
  /\ event' = [n \in Key |-> IF n \in poller.batch THEN Stored(n, feed[n])[n] ELSE event[n]]
  /\ poller' = [poller EXCEPT !.step = "saved"]
  /\ UNCHANGED <<feed, confirmed, mode, worker, disruptions>>

Advance ==
  /\ poller.step = "saved"
  /\ poller' = [step |-> "idle", batch |-> {},
                marker |-> CHOOSE n \in poller.batch : \A m \in poller.batch : m <= n]
  /\ UNCHANGED <<feed, confirmed, mode, workVars, disruptions>>

\* The loop drops a batch it could not keep and fetches again.
Drop == poller' = [poller EXCEPT !.step = "idle", !.batch = {}]

\* An update that is refused raises out of the batch.
SaveRefused ==
  /\ poller.step = "fetched"
  /\ \E n \in poller.batch : Refused(n)
  /\ Drop
  /\ UNCHANGED <<feed, confirmed, mode, workVars, disruptions>>

\* The database does not answer.
SaveFails ==
  /\ poller.step = "fetched"
  /\ disruptions < MaxDisruptions
  /\ disruptions' = disruptions + 1
  /\ Drop
  /\ UNCHANGED <<feed, confirmed, mode, workVars>>

Restart ==
  /\ poller # Started
  /\ disruptions < MaxDisruptions
  /\ disruptions' = disruptions + 1
  /\ poller' = Started
  /\ UNCHANGED <<feed, confirmed, mode, workVars>>

\* The webhook answers 200 after its commit, and 400 to what it refuses; MAX
\* repeats a delivery that was not confirmed, or whose confirmation was lost.
Deliver(n) ==
  /\ mode = "webhook"
  /\ n <= Len(feed) /\ ~ Refused(n)
  /\ event' = Stored(n, feed[n])
  /\ UNCHANGED <<ingressVars, worker, disruptions>>

Polling == Fetch \/ Save \/ Advance \/ SaveRefused

Enter == Polling \/ SaveFails \/ Restart \/ (\E n \in Key : Deliver(n))

\* The loop of the poller goes on whatever is raised in it; MAX delivers until
\* the webhook confirms (external).
IngressFairness ==
  /\ WF_<<ingressVars, event>>(Polling)
  /\ WF_<<ingressVars, event>>(\E n \in Key : Deliver(n) /\ event' # event)

-----------------------------------------------------------------------------
\* Every update of the feed is kept in the end, though the poller may die
\* between its commit and its marker or fail to commit.  What is refused is not
\* kept; under polling it holds up, for ever, what has come since the marker,
\* but nothing that the marker has passed
\* (MaxPollingConsumer.poll_once, save_inbox_event, the webhook).
EveryUpdateEnters ==
  []<>(\A n \in 1..Len(feed) :
         \/ event[n].status # "absent"
         \/ Refused(n)
         \/ mode = "polling" /\ n > Since /\ \E m \in 1..Len(feed) : Refused(m))
=============================================================================
