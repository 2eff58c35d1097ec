---------------------------- MODULE AtomicReplace ----------------------------
(***************************************************************************)
(* What an update promises the user: there is one installed version, and   *)
(* the only thing that ever happens to it is that a newer one replaces it, *)
(* in one step.                                                            *)
(***************************************************************************)
EXTENDS Naturals

VARIABLE installed

Init == installed \in Nat

Replace == installed' \in Nat /\ installed' > installed

Spec == Init /\ [][Replace]_installed
=============================================================================
