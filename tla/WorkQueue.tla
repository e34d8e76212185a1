------------------------------ MODULE WorkQueue ------------------------------
(***************************************************************************)
(* What every PostgreSQL work table of the system promises its producers,  *)
(* without saying how: an item that was stored is tried until its work has *)
(* taken effect at least once, or it is given up after enough tries, or it *)
(* is dropped because its work became pointless or cannot be done; and the *)
(* verdict is final.                                                       *)
(* Leases, owners, clocks, retries and crashes are the business of the     *)
(* modules that implement this one.                                        *)
(***************************************************************************)
EXTENDS Naturals

CONSTANTS Item,         \* everything that can ever be stored
          Perishable,   \* items whose work can become pointless or impossible
          MaxAttempts   \* tries after which an item may be given up

VARIABLES phase,        \* where each item stands
          tries,        \* how many times a worker has taken it up
          ran           \* the items whose work has taken effect

vars == <<phase, tries, ran>>

Phase == {"absent", "open", "done", "dead", "ignored", "dropped"}

TypeOK ==
  /\ phase \in [Item -> Phase]
  /\ tries \in [Item -> Nat]
  /\ ran \in SUBSET Item

Init ==
  /\ phase = [i \in Item |-> "absent"]
  /\ tries = [i \in Item |-> 0]
  /\ ran = {}

\* Some absent items enter one of the given phases; no other phase changes.
Admit(entry) ==
  /\ phase' \in [Item -> Phase]
  /\ \A i \in Item : \/ phase'[i] = phase[i]
                     \/ phase[i] = "absent" /\ phase'[i] \in entry

\* Items are stored as work, or only recorded.
Store == Admit({"open", "ignored"}) /\ UNCHANGED <<tries, ran>>

Try(i) ==
  /\ phase[i] = "open"
  /\ tries' = [tries EXCEPT ![i] = @ + 1]
  /\ UNCHANGED <<phase, ran>>

\* The work of an item takes effect; its transaction may store further items.
\* A worker that has lost its claim may still get here, even after a verdict.
Run(i) ==
  /\ tries[i] > 0
  /\ ran' = ran \cup {i}
  /\ Admit({"open"})
  /\ UNCHANGED tries

Complete(i) ==
  /\ phase[i] = "open"
  /\ i \in ran
  /\ phase' = [phase EXCEPT ![i] = "done"]
  /\ UNCHANGED <<tries, ran>>

GiveUp(i) ==
  /\ phase[i] = "open"
  /\ tries[i] >= MaxAttempts
  /\ phase' = [phase EXCEPT ![i] = "dead"]
  /\ UNCHANGED <<tries, ran>>

\* The work of some items has become pointless, or cannot be done; or items are
\* stored that take their place.
Drop ==
  /\ phase' \in [Item -> Phase]
  /\ \A i \in Item : \/ phase'[i] = phase[i]
                     \/ phase[i] = "absent" /\ phase'[i] = "open"
                     \/ i \in Perishable /\ phase[i] = "open" /\ phase'[i] = "dropped"
  /\ UNCHANGED <<tries, ran>>

Next ==
  \/ Store \/ Drop
  \/ \E i \in Item : Try(i) \/ Run(i) \/ Complete(i) \/ GiveUp(i)

Spec == Init /\ [][Next]_vars

=============================================================================
