------------------------------ MODULE MCPickUp ------------------------------
(* PickUp on few knobs and parameters.                                      *)
EXTENDS PickUp, TLC

(* Knobs are interchangeable, and so are parameters: no step compares them. *)
Symmetry == Permutations(Controllers) \cup Permutations(Paths)
=============================================================================
