--------------------------- MODULE MCPortForwarding ---------------------------
(* Instances of PortForwarding for TLC. *)
EXTENDS PortForwarding, TLC
Symmetry == Permutations(Terminals) \cup Permutations(Clusters) \cup Permutations(Pids)
===============================================================================
