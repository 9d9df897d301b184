---------------------------- MODULE MCWorkspacePool ----------------------------
(****************************************************************************)
(* An instance of WorkspacePool: one connection with two chats, another that*)
(* is confined to a Context directory, and two projects.                    *)
(****************************************************************************)
EXTENDS WorkspacePool, TLC

CONSTANTS a, b, p, q, c1, c2, c3

MCOwner == (c1 :> p) @@ (c2 :> p) @@ (c3 :> q)

MCSymmetry == Permutations({c1, c2})

\* Two handles are not combined with a Task, nor with the last of the troubles.
MCBound == minted = MaxHandles => task = NoTask /\ foreign + faults < MaxTroubles

MCJail == (p :> NoRoot) @@ (q :> b)

=============================================================================
