------------------------- MODULE ReconcilerHandover --------------------------
(***************************************************************************)
(* What roxie promises about the operators it installs, whatever order of  *)
(* installs, upgrades, mode switches, removals and interrupted commands    *)
(* led there: a kind of custom resource never has two reconcilers, and a   *)
(* new reconciler starts only when the old one is gone.                    *)
(***************************************************************************)
CONSTANTS
  Kinds,       \* the kinds of custom resources
  Operators    \* the operators that may run

VARIABLE reconcilers   \* the operators reconciling each kind

Init == reconcilers = [k \in Kinds |-> {}]

\* An operator that reconciles the kinds K starts.
Acquire(K, o) ==
  /\ \A k \in K : reconcilers[k] = {}
  /\ reconcilers' = [k \in Kinds |-> IF k \in K THEN {o} ELSE reconcilers[k]]

\* An operator that reconciles the kinds K disappears.
Release(K) ==
  reconcilers' = [k \in Kinds |-> IF k \in K THEN {} ELSE reconcilers[k]]

Next == \E K \in SUBSET Kinds : Release(K) \/ \E o \in Operators : Acquire(K, o)

Spec == Init /\ [][Next]_reconcilers
=============================================================================
