--------------------------- MODULE MCDeployTimeouts ---------------------------
(* Instances of DeployTimeouts for TLC. *)
EXTENDS DeployTimeouts
===============================================================================
