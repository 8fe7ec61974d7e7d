--------------------------- MODULE MCPrintStorage ---------------------------
(* PrintStorage on model values. *)
EXTENDS PrintStorage, TLC

\* Users, fingers and templates are interchangeable.
Interchangeable == Permutations(User) \cup Permutations(Finger) \cup Permutations(Template)
=============================================================================
