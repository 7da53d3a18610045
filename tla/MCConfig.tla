------------------------------- MODULE MCConfig -------------------------------
(* Instances of Config for TLC.  Commands, and pins, are alike.            *)
EXTENDS Config, TLC

Interchangeable == Permutations(Commands) \cup Permutations(Pins)
=============================================================================
