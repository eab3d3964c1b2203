---------------------------- MODULE MCKubectlCalls ----------------------------
(* Instances of KubectlCalls for TLC. *)
EXTENDS KubectlCalls
===============================================================================
