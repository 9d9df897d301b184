------------------------------- MODULE TaskLease -------------------------------
(***************************************************************************)
(* The durable execution lease of one Task: the task_leases row, the       *)
(* runners that compete for it (withTaskExecutionLease), their heartbeat,  *)
(* and the fence every guarded Task write passes (assertTaskLeaseWrite).   *)
(* A runner is one invocation slot of any process that shares the database;*)
(* leases of different Tasks are independent rows.                         *)
(*                                                                         *)
(* Time is kept relative to now: `remaining` is expires_at - now, never    *)
(* below 0, so "expires_at <= now" is remaining = 0 and a Tick is the wall *)
(* clock moving.  A missing row is a released row of version 0.            *)
(***************************************************************************)
EXTENDS Integers

CONSTANTS Runner,       \* invocation slots of withTaskExecutionLease
          Owner,        \* ownerId values; a caller may pass the same one twice
          Token,        \* randomUUID values
          NoToken,      \* no token: the row does not exist yet
          TTL,          \* lease duration in ticks
          MaxVersion    \* bound on the acquisitions explored

ASSUME RunnerAssumption == Runner # {} /\ Owner # {}
ASSUME TokenAssumption == NoToken \notin Token
ASSUME TTLAssumption == TTL \in Nat \ {0}
ASSUME MaxVersionAssumption == MaxVersion \in Nat \ {0}

VARIABLES lease,        \* the task_leases row
          used,         \* tokens drawn so far: a UUID is never drawn twice
          phase,        \* control state of each runner
          held,         \* the TaskLeaseContext of each runner
          stamp         \* row version at the last guarded Task write

leaseVars == <<lease, used, phase, held, stamp>>

LeaseRow == [owner : Owner, token : Token \cup {NoToken}, version : Nat,
             remaining : 0..TTL, released : BOOLEAN]

TaskLeaseContext == [owner : Owner, token : Token \cup {NoToken},
                     version : Nat, lost : BOOLEAN]

SomeOwner == CHOOSE o \in Owner : TRUE

\* A runner without a lease: nothing in its AsyncLocalStorage that could match.
NoLease == [owner |-> SomeOwner, token |-> NoToken, version |-> 0, lost |-> TRUE]

LeaseTypeOK ==
  /\ lease \in LeaseRow
  /\ used \subseteq Token
  /\ phase \in [Runner -> {"idle", "inserted", "running"}]
  /\ held \in [Runner -> TaskLeaseContext]
  /\ stamp \in Nat

LeaseInit ==
  /\ lease = [owner |-> SomeOwner, token |-> NoToken, version |-> 0,
              remaining |-> 0, released |-> TRUE]
  /\ used = {}
  /\ phase = [p \in Runner |-> "idle"]
  /\ held = [p \in Runner |-> NoLease]
  /\ stamp = 0

--------------------------------------------------------------------------------
\* The conditions of the SQL statements.

\* released_at IS NULL AND expires_at > now
Live == ~lease.released /\ lease.remaining > 0

\* owner_id = ? AND lease_token = ? AND version = ?
Matches(p) ==
  /\ lease.token # NoToken
  /\ lease.owner = held[p].owner
  /\ lease.token = held[p].token
  /\ lease.version = held[p].version

\* The fence of assertTaskLeaseWrite for a writer with a lease context.
CanWrite(p) ==
  /\ phase[p] = "running"
  /\ ~held[p].lost
  /\ Matches(p)
  /\ Live

--------------------------------------------------------------------------------
\* INSERT ... ON CONFLICT DO UPDATE ... WHERE expired OR released.
AcquireTaskLease(p) ==
  /\ phase[p] = "idle"
  /\ lease.version < MaxVersion
  /\ ~Live
  /\ \E o \in Owner, t \in Token \ used :
       /\ lease' = [owner |-> o, token |-> t, version |-> lease.version + 1,
                    remaining |-> TTL, released |-> FALSE]
       /\ used' = used \cup {t}
       /\ held' = [held EXCEPT ![p] = [owner |-> o, token |-> t,
                                       version |-> 0, lost |-> FALSE]]
  /\ phase' = [phase EXCEPT ![p] = "inserted"]
  /\ UNCHANGED stamp

\* SELECT version is a statement of its own: another process may have taken the
\* row over in between, and then the version read is the successor's.
ReadVersion(p) ==
  /\ phase[p] = "inserted"
  /\ held' = [held EXCEPT ![p].version = lease.version]
  /\ phase' = [phase EXCEPT ![p] = "running"]
  /\ UNCHANGED <<lease, used, stamp>>

\* Mutant: the heartbeat forgets "AND expires_at > now".
RenewTaskLease_Revives(p) ==
  /\ phase[p] = "running"
  /\ ~held[p].lost
  /\ Matches(p) /\ ~lease.released
  /\ lease' = [lease EXCEPT !.remaining = TTL]
  /\ UNCHANGED <<used, phase, held, stamp>>

\* Mutant: the heartbeat renews whatever row the Task has.
RenewTaskLease_AnyRow(p) ==
  /\ phase[p] = "running"
  /\ ~held[p].lost
  /\ Live
  /\ lease' = [lease EXCEPT !.remaining = TTL]
  /\ UNCHANGED <<used, phase, held, stamp>>

\* The heartbeat: renews the exact unexpired lease, or marks the context lost.
RenewTaskLease(p) ==
  /\ phase[p] = "running"
  /\ ~held[p].lost
  /\ \/ /\ Matches(p) /\ Live
        /\ lease' = [lease EXCEPT !.remaining = TTL]
        /\ UNCHANGED held
     \/ /\ ~(Matches(p) /\ Live)
        /\ held' = [held EXCEPT ![p].lost = TRUE]
        /\ UNCHANGED lease
  /\ UNCHANGED <<used, phase, stamp>>

\* The database call of the heartbeat throws: the context is given up.
RenewFails(p) ==
  /\ phase[p] = "running"
  /\ ~held[p].lost
  /\ held' = [held EXCEPT ![p].lost = TRUE]
  /\ UNCHANGED <<lease, used, phase, stamp>>

\* Mutant: the fence trusts the context and does not look at the row.
GuardedWrite_TrustsContext(p) ==
  /\ phase[p] = "running"
  /\ ~held[p].lost
  /\ stamp' = held[p].version
  /\ UNCHANGED <<lease, used, phase, held>>

\* A Task write inside the lease context; refused ("task_lease_fenced") writes
\* change nothing and end in ReleaseTaskLease.
GuardedWrite(p) ==
  /\ CanWrite(p)
  /\ stamp' = lease.version
  /\ UNCHANGED <<lease, used, phase, held>>

\* A Task write with no lease context; refused ("task_lease_conflict") while live.
UnleasedWrite ==
  /\ ~Live
  /\ stamp' = lease.version
  /\ UNCHANGED <<lease, used, phase, held>>

\* The finally block: the heartbeat stops and the exact row is released.
ReleaseTaskLease(p) ==
  /\ phase[p] = "running"
  /\ lease' = IF Matches(p) /\ ~lease.released
                THEN [lease EXCEPT !.released = TRUE, !.remaining = 0]
                ELSE lease
  /\ phase' = [phase EXCEPT ![p] = "idle"]
  /\ held' = [held EXCEPT ![p] = NoLease]
  /\ UNCHANGED <<used, stamp>>

\* The process of a runner dies: its context is gone, the row stays.
RunnerCrash(p) ==
  /\ phase[p] # "idle"
  /\ phase' = [phase EXCEPT ![p] = "idle"]
  /\ held' = [held EXCEPT ![p] = NoLease]
  /\ UNCHANGED <<lease, used, stamp>>

\* The wall clock moves towards the expiry of the row.
Tick ==
  /\ lease.remaining > 0
  /\ lease' = [lease EXCEPT !.remaining = @ - 1]
  /\ UNCHANGED <<used, phase, held, stamp>>

RunnerStep(p) ==
  \/ AcquireTaskLease(p) \/ ReadVersion(p)
  \/ RenewTaskLease(p) \/ RenewFails(p)
  \/ GuardedWrite(p) \/ ReleaseTaskLease(p) \/ RunnerCrash(p)

LeaseNext ==
  \/ \E p \in Runner : RunnerStep(p)
  \/ UnleasedWrite
  \/ Tick

LeaseSpec == LeaseInit /\ [][LeaseNext]_leaseVars

\* Only time is assumed to pass: no runner needs to acquire, renew or return.
FairLeaseSpec == LeaseSpec /\ WF_leaseVars(Tick)

--------------------------------------------------------------------------------
\* Single writer (assertTaskLeaseWrite): of all runners, including two that pass
\* the same ownerId and one that read a successor's version, at most one holds a
\* context the fence lets through.
SingleWriter ==
  \A p, q \in Runner : CanWrite(p) /\ CanWrite(q) => p = q

\* A fenced runner stays fenced (renewTaskLease, "does not revive an expired/
\* foreign/stale token"): once a runner's context fails the fence, that context
\* never passes it again, however the row, the clock and the heartbeats go on.
FencedStaysFenced ==
  [][\A p \in Runner :
       phase[p] = "running" /\ ~CanWrite(p) => ~CanWrite(p)']_leaseVars

\* Nobody else takes a holder's authority away (releaseTaskLease, acquireTaskLease):
\* a runner that can write loses that only by time, by its own heartbeat giving
\* up, by its own release or by its own crash.
OnlyOwnLoss ==
  [][\A p \in Runner :
       CanWrite(p) /\ ~CanWrite(p)'
         => (lease'.remaining = 0 /\ ~lease'.released) \/ held'[p].lost]_leaseVars

\* The row implements the promise of ExclusiveWriter, a session being the token
\* of an acquisition: tenures never overlap, their numbers grow, and every Task
\* write is made by the current tenure or between tenures.
Promise == INSTANCE ExclusiveWriter WITH
  Session <- Token, NoSession <- NoToken,
  owner <- IF Live THEN lease.token ELSE NoToken,
  tenure <- lease.version, stamp <- stamp

ImplementsPromise == Promise!Spec

\* A Task is not locked for ever by a runner that died (acquireTaskLease after
\* expiry): a live row no runner's context belongs to stops being live.
OrphanedLeaseLapses ==
  (Live /\ \A p \in Runner : held[p].token # lease.token) ~> ~Live
================================================================================
