-------------------------- MODULE MCSessionWrites ---------------------------
EXTENDS SessionWrites, TLC

CONSTANTS c1, c2, w1, w2, w3, i1, i2

\* The first write is sent over two transports.
Carries == (w1 :> i1) @@ (w2 :> i1) @@ (w3 :> i2)
Transports == Permutations({w1, w2})

\* Both properties are about the ids that are not exposed, and an id stays
\* exposed: once all of them are, no later state can violate either.  The old
\* core that timed out is followed until it resumes.
SomeHidden == exposed # Ids \/ \E c \in Cores : core[c] = "timedout"
=============================================================================
