------------------------ MODULE MCComponentLifecycle -------------------------
(***************************************************************************)
(* ComponentLifecycle on small instances.                                  *)
(***************************************************************************)
EXTENDS ComponentLifecycle
=============================================================================
