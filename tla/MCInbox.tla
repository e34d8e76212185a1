------------------------------- MODULE MCInbox -------------------------------
\* The inbox with one message whose handler emits a domain event, and two workers.
EXTENDS Inbox, TLC

CONSTANTS message, derived

MCEvent == {message, derived}
MCEmits == (message :> {derived}) @@ (derived :> {})

=============================================================================
