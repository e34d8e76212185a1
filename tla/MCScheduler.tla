----------------------------- MODULE MCScheduler -----------------------------
\* Two jobs about one entity: each can make the other stale.
EXTENDS Scheduler

CONSTANTS entity

MCAbout == [j \in Job |-> entity]

=============================================================================
