------------------------------- MODULE MCSMQ -------------------------------
EXTENDS SMQ, TLC

CONSTANTS a, m1, m2

\* a publishes, and receives what it publishes while it is subscribed.
AuthorIsA == m1 :> a @@ m2 :> a
=============================================================================
