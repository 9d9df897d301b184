---------------------------- MODULE ExclusiveWriter ----------------------------
(***************************************************************************)
(* What the durable Task lease promises to the rest of the runtime: tenures*)
(* of single sessions over one Task, numbered upwards, in which only the   *)
(* current session writes, and writes from outside only between tenures.   *)
(* TaskLease, the protocol over the task_leases row, implements it.        *)
(***************************************************************************)
EXTENDS Naturals

CONSTANTS Session,      \* identities a tenure can be granted to
          NoSession     \* nobody holds the Task

VARIABLES owner,        \* the session whose tenure it is
          tenure,       \* number of tenures granted so far
          stamp         \* tenure during or after which the Task was last written

vars == <<owner, tenure, stamp>>

Init == owner = NoSession /\ tenure = 0 /\ stamp = 0

Grant(s) ==
  /\ owner = NoSession
  /\ owner' = s
  /\ tenure' = tenure + 1
  /\ UNCHANGED stamp

\* A tenure ends by release or by the passing of time, whatever its session does.
Lapse ==
  /\ owner' = NoSession
  /\ UNCHANGED <<tenure, stamp>>

Commit(s) ==
  /\ owner = s
  /\ stamp' = tenure
  /\ UNCHANGED <<owner, tenure>>

\* An operation without a lease (cancel, append, reconcile) writes between tenures.
CommitOutside ==
  /\ owner = NoSession
  /\ stamp' = tenure
  /\ UNCHANGED <<owner, tenure>>

Next ==
  \/ \E s \in Session : Grant(s) \/ Commit(s)
  \/ Lapse
  \/ CommitOutside

Spec == Init /\ [][Next]_vars
================================================================================
