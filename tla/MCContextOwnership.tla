-------------------------- MODULE MCContextOwnership --------------------------
(****************************************************************************)
(* Model of ContextOwnership: two bindings, a worker, two operator requests,*)
(* two intents and a Task.  Three epochs let the Context leave a binding and*)
(* come back to it.  Bindings, requests and intents are interchangeable.    *)
(****************************************************************************)
EXTENDS ContextOwnership, TLC

Symmetry == Permutations(Binding) \cup Permutations(Console) \cup Permutations(Intent)
================================================================================
