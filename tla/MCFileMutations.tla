--------------------------- MODULE MCFileMutations ---------------------------
(* Small instances of FileMutations: calls, ids and contents are interchangeable. *)
EXTENDS FileMutations, TLC

Symmetry == Permutations(Call) \cup Permutations(Id) \cup Permutations(Content)
=============================================================================
