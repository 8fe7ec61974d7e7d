-------------------------- MODULE MCTemplateUpdate --------------------------
(* Small instances of TemplateUpdate for TLC. *)
EXTENDS TemplateUpdate, TLC

Symmetry == Permutations(Capture)
=============================================================================
