--------------------------- MODULE MCGrantWriter ----------------------------
EXTENDS GrantWriter, TLC

CONSTANTS h1, h2, t1, t2, t3, k1, k2

\* Two threads of one host share a batch; a third, of the other host, wants
\* what one of them wants.
Homes == (t1 :> h1) @@ (t2 :> h1) @@ (t3 :> h2)
Wants == (t1 :> k1) @@ (t2 :> k2) @@ (t3 :> k2)
=============================================================================
