--------------------------- MODULE MCApprovalHub ----------------------------
EXTENDS ApprovalHub, TLC

CONSTANT k1

\* All requests are for the same grant.
Same == [r \in Requests |-> k1]
=============================================================================
