------------------------------- MODULE MCVpnd -------------------------------
(* Instances of Vpnd for TLC.  Runs and clients are interchangeable; their *)
(* symmetry is used where no liveness is checked.                          *)
EXTENDS Vpnd, TLC

Interchangeable == Permutations(Runs) \cup Permutations(Clients)
=============================================================================
