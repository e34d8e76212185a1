---------------------------- MODULE MCFulfilment ----------------------------
\* One case and two residents: the run of one of them calls submit twice, with
\* the same operation id, and the other one calls it too.
EXTENDS Fulfilment, TLC

CONSTANTS a1, a2, s1, s2, s3, k1, k2

MCKeyOf == (s1 :> k1) @@ (s2 :> k1) @@ (s3 :> k2)
MCActorOf == (s1 :> a1) @@ (s2 :> a1) @@ (s3 :> a2)

\* The two calls of one run differ in nothing but their name, and so do the
\* changes of a status and the workers.
MCSymmetry ==
  Permutations({s1, s2}) \cup Permutations(StatusEvent) \cup Permutations(Handler)

=============================================================================
