------------------------------ MODULE MCRoutes -------------------------------
EXTENDS Routes, TLC

CONSTANTS lan, wifi, ppp, g1, g2, s1, c1, c2

Interchangeable == Permutations({lan, wifi}) \cup Permutations(Gateways)
=============================================================================
