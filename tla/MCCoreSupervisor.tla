-------------------------- MODULE MCCoreSupervisor ---------------------------
EXTENDS CoreSupervisor, TLC
CONSTANTS c1, c2, c3, s1, s2
=============================================================================
