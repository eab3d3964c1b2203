------------------------- MODULE MCOperatorLifecycle -------------------------
(***************************************************************************)
(* OperatorLifecycle on small instances.                                   *)
(***************************************************************************)
EXTENDS OperatorLifecycle
=============================================================================
