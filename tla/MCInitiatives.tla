----------------------------- MODULE MCInitiatives -----------------------------
\* An initiative that is revised; its first poll has a reminder.
EXTENDS Initiatives

MCJob == {<<Detected, 1>>}
=============================================================================
