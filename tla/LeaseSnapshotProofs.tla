------------------------- MODULE LeaseSnapshotProofs -------------------------
(***************************************************************************)
(* Proofs about the two records that tie a Task to a moment: the lease it  *)
(* runs under and the Git snapshot it can go back to.                      *)
(*                                                                         *)
(* The invariant of TaskLease adds to the types that a token is in at most *)
(* one runner's hands and was drawn before it appears anywhere.  The one   *)
(* of GitSnapshot says what a capture and a rollback in flight know of the *)
(* repository, as a function of who else has changed it.                   *)
(***************************************************************************)
EXTENDS TaskLease, GitSnapshot, TLAPS

-----------------------------------------------------------------------------
(* The lease, for every set of runners, owners and tokens and every TTL. *)


\* Every token in the row or in a context was drawn by some acquisition.
TokensDrawn ==
  /\ lease.token \in used \cup {NoToken}
  /\ \A p \in Runner : held[p].token \in used \cup {NoToken}

\* A context with a token belongs to a runner that is between acquire and release.
IdleHasNoToken ==
  \A p \in Runner : phase[p] = "idle" => held[p] = NoLease

\* Two runners never hold the same token.
TokensDistinct ==
  \A p, q \in Runner :
    held[p].token # NoToken /\ held[p].token = held[q].token => p = q

LeaseInv == LeaseTypeOK /\ TokensDrawn /\ IdleHasNoToken /\ TokensDistinct

\* There is an owner to start with.
LEMMA SomeOwnerType == SomeOwner \in Owner
  BY RunnerAssumption DEF SomeOwner

\* The empty context is a context.
LEMMA NoLeaseType == NoLease \in TaskLeaseContext
  BY SomeOwnerType DEF NoLease, TaskLeaseContext

\* The initial state satisfies the inductive invariant.
LEMMA LeaseInvInit == LeaseInit => LeaseInv
<1> SUFFICES ASSUME LeaseInit PROVE LeaseInv
  OBVIOUS
<1>1. LeaseTypeOK
  BY SomeOwnerType, NoLeaseType, TTLAssumption DEF LeaseInit, LeaseTypeOK, LeaseRow
<1>2. TokensDrawn /\ IdleHasNoToken /\ TokensDistinct
  BY DEF LeaseInit, TokensDrawn, IdleHasNoToken, TokensDistinct, NoLease
<1>3. QED
  BY <1>1, <1>2 DEF LeaseInv

\* Every step preserves the inductive invariant.
LEMMA LeaseInvStep == LeaseInv /\ [LeaseNext]_leaseVars => LeaseInv'
<1> SUFFICES ASSUME LeaseInv, [LeaseNext]_leaseVars PROVE LeaseInv'
  OBVIOUS
<1> USE NoLeaseType, TTLAssumption, TokenAssumption DEF LeaseInv
<1>1. ASSUME NEW p \in Runner, AcquireTaskLease(p) PROVE LeaseInv'
  <2>1. PICK o \in Owner, t \in Token \ used :
          /\ lease' = [owner |-> o, token |-> t, version |-> lease.version + 1,
                     remaining |-> TTL, released |-> FALSE]
          /\ used' = used \cup {t}
          /\ held' = [held EXCEPT ![p] = [owner |-> o, token |-> t,
                                          version |-> 0, lost |-> FALSE]]
    BY <1>1, Zenon DEF AcquireTaskLease
  <2>2. phase' = [phase EXCEPT ![p] = "inserted"] /\ stamp' = stamp
    BY <1>1 DEF AcquireTaskLease
  <2>3. LeaseTypeOK'
    BY <2>1, <2>2 DEF LeaseTypeOK, LeaseRow, TaskLeaseContext
  <2>4. TokensDrawn'
    BY <2>1 DEF TokensDrawn, LeaseTypeOK
  <2>5. IdleHasNoToken'
    BY <2>1, <2>2 DEF IdleHasNoToken, LeaseTypeOK
  <2>6. TokensDistinct'
    BY <2>1 DEF TokensDistinct, TokensDrawn, LeaseTypeOK
  <2>7. QED
    BY <2>3, <2>4, <2>5, <2>6
<1>2. ASSUME NEW p \in Runner, ReadVersion(p) PROVE LeaseInv'
  <2>1. LeaseTypeOK'
    BY <1>2 DEF ReadVersion, LeaseTypeOK, LeaseRow, TaskLeaseContext
  <2>2. \A q \in Runner : held'[q].token = held[q].token
    BY <1>2 DEF ReadVersion, LeaseTypeOK, TaskLeaseContext
  <2>3. TokensDrawn' /\ TokensDistinct'
    BY <1>2, <2>2 DEF ReadVersion, TokensDrawn, TokensDistinct
  <2>4. IdleHasNoToken'
    BY <1>2 DEF ReadVersion, IdleHasNoToken, LeaseTypeOK
  <2>5. QED
    BY <2>1, <2>3, <2>4
<1>3. ASSUME NEW p \in Runner, RenewTaskLease(p) \/ RenewFails(p) PROVE LeaseInv'
  <2>1. phase' = phase /\ phase[p] = "running" /\ used' = used /\ stamp' = stamp
    BY <1>3 DEF RenewTaskLease, RenewFails
  <2>2. CASE lease' = [lease EXCEPT !.remaining = TTL] /\ held' = held
    <3>1. LeaseTypeOK' /\ lease'.token = lease.token
      BY <2>1, <2>2 DEF LeaseTypeOK, LeaseRow
    <3>2. QED
      BY <2>1, <2>2, <3>1 DEF TokensDrawn, TokensDistinct, IdleHasNoToken
  <2>3. CASE lease' = lease /\ held' = [held EXCEPT ![p].lost = TRUE]
    <3>1. held' \in [Runner -> TaskLeaseContext]
      BY <2>3, Zenon DEF LeaseTypeOK, TaskLeaseContext
    <3>2. \A q \in Runner : held'[q].token = held[q].token /\ (q # p => held'[q] = held[q])
      BY <2>3 DEF LeaseTypeOK, TaskLeaseContext
    <3>3. LeaseTypeOK'
      BY <2>1, <2>3, <3>1 DEF LeaseTypeOK
    <3>4. QED
      BY <2>1, <2>3, <3>2, <3>3 DEF TokensDrawn, TokensDistinct, IdleHasNoToken
  <2>4. QED
    BY <1>3, <2>2, <2>3 DEF RenewTaskLease, RenewFails
<1>4. ASSUME NEW p \in Runner, ReleaseTaskLease(p) \/ RunnerCrash(p) PROVE LeaseInv'
  <2>1. lease' = lease \/ lease' = [lease EXCEPT !.released = TRUE, !.remaining = 0]
    BY <1>4 DEF ReleaseTaskLease, RunnerCrash
  <2>2. lease' \in LeaseRow /\ lease'.token = lease.token
    <3>1. CASE lease' = lease
      BY <3>1 DEF LeaseTypeOK
    <3>2. CASE lease' = [lease EXCEPT !.released = TRUE, !.remaining = 0]
      <4>1. lease' = [owner |-> lease.owner, token |-> lease.token, version |-> lease.version,
                    remaining |-> 0, released |-> TRUE]
        BY <3>2, Zenon DEF LeaseTypeOK, LeaseRow
      <4>2. QED
        BY <4>1 DEF LeaseTypeOK, LeaseRow
    <3>3. QED
      BY <2>1, <3>1, <3>2
  <2>3. /\ held' = [held EXCEPT ![p] = NoLease]
        /\ phase' = [phase EXCEPT ![p] = "idle"]
        /\ used' = used /\ stamp' = stamp
    BY <1>4 DEF ReleaseTaskLease, RunnerCrash
  <2>4. LeaseTypeOK'
    BY <2>2, <2>3 DEF LeaseTypeOK
  <2>5. NoLease.token = NoToken
    BY DEF NoLease
  <2>6. QED
    BY <2>2, <2>3, <2>4, <2>5 DEF TokensDrawn, TokensDistinct, IdleHasNoToken, LeaseTypeOK
<1>5. ASSUME NEW p \in Runner, GuardedWrite(p) PROVE LeaseInv'
  BY <1>5 DEF GuardedWrite, LeaseTypeOK, LeaseRow, TokensDrawn, TokensDistinct, IdleHasNoToken
<1>6. CASE UnleasedWrite
  BY <1>6 DEF UnleasedWrite, LeaseTypeOK, LeaseRow, TokensDrawn, TokensDistinct, IdleHasNoToken
<1>7. CASE Tick
  <2>1. LeaseTypeOK'
    BY <1>7 DEF Tick, LeaseTypeOK, LeaseRow
  <2>2. lease'.token = lease.token
    BY <1>7 DEF Tick, LeaseTypeOK, LeaseRow
  <2>3. QED
    BY <1>7, <2>1, <2>2 DEF Tick, TokensDrawn, TokensDistinct, IdleHasNoToken
<1>8. CASE UNCHANGED leaseVars
  BY <1>8 DEF leaseVars, LeaseTypeOK, TokensDrawn, TokensDistinct, IdleHasNoToken
<1>9. QED
  BY <1>1, <1>2, <1>3, <1>4, <1>5, <1>6, <1>7, <1>8 DEF LeaseNext, RunnerStep

\* The inductive invariant holds: drawn tokens are those of the row or of contexts,
\* and no two contexts share one.
THEOREM LeaseInvariant == LeaseSpec => []LeaseInv
  BY LeaseInvInit, LeaseInvStep, PTL DEF LeaseSpec

\* Type correctness of the lease row and of the runners' contexts.
THEOREM LeaseTypeCorrect == LeaseSpec => []LeaseTypeOK
  BY LeaseInvariant, PTL DEF LeaseInv

\* The fence of assertTaskLeaseWrite lets at most one runner through, whatever
\* owner ids the callers pass.
THEOREM SingleWriterTheorem == LeaseSpec => []SingleWriter
<1>1. LeaseInv => SingleWriter
  BY Zenon DEF LeaseInv, TokensDistinct, SingleWriter, CanWrite, Matches
<1>2. QED
  BY <1>1, LeaseInvariant, PTL

\* What a step can do to a row another runner's context belongs to: nothing but
\* let time pass, because a runner only touches the row of its own token.
LEMMA OthersLeaveRow ==
  ASSUME LeaseInv, NEW p \in Runner, NEW q \in Runner, p # q, CanWrite(p),
         RunnerStep(q)
  PROVE  lease' = lease /\ held'[p] = held[p] /\ phase'[p] = phase[p]
<1> USE DEF LeaseInv
<1>1. ~Matches(q) /\ Live
  BY DEF CanWrite, Matches, TokensDistinct
<1>2. ~AcquireTaskLease(q)
  BY <1>1 DEF AcquireTaskLease
<1>3. CASE ReadVersion(q)
  BY <1>3 DEF ReadVersion, LeaseTypeOK
<1>4. CASE RenewTaskLease(q)
  BY <1>1, <1>4 DEF RenewTaskLease, LeaseTypeOK
<1>5. CASE RenewFails(q) \/ GuardedWrite(q)
  BY <1>5 DEF RenewFails, GuardedWrite, LeaseTypeOK
<1>6. CASE ReleaseTaskLease(q)
  BY <1>1, <1>6 DEF ReleaseTaskLease, LeaseTypeOK
<1>7. CASE RunnerCrash(q)
  BY <1>7 DEF RunnerCrash, LeaseTypeOK
<1>8. QED
  BY <1>2, <1>3, <1>4, <1>5, <1>6, <1>7 DEF RunnerStep

\* Only time or the runner itself ends its authority.
THEOREM OnlyOwnLossTheorem == LeaseSpec => OnlyOwnLoss
<1>1. ASSUME LeaseInv, [LeaseNext]_leaseVars, NEW p \in Runner, CanWrite(p), ~CanWrite(p)'
      PROVE  (lease'.remaining = 0 /\ ~lease'.released) \/ held'[p].lost
  <2> USE <1>1 DEF LeaseInv
  <2>1. ASSUME NEW q \in Runner, q # p, RunnerStep(q) PROVE FALSE
    <3>1. lease' = lease /\ held'[p] = held[p] /\ phase'[p] = phase[p]
      BY <2>1, OthersLeaveRow
    <3>2. QED
      BY <3>1 DEF CanWrite, Matches, Live
  <2>2. ASSUME RunnerStep(p) PROVE held'[p].lost
    <3>1. ~AcquireTaskLease(p) /\ ~ReadVersion(p)
      BY DEF CanWrite, AcquireTaskLease, ReadVersion
    <3>2. ~RenewTaskLease(p)
      <4>1. SUFFICES ASSUME RenewTaskLease(p) PROVE FALSE
        OBVIOUS
      <4>2. lease' = [lease EXCEPT !.remaining = TTL] /\ held' = held /\ phase' = phase
        BY <4>1 DEF RenewTaskLease, CanWrite
      <4>3. QED
        BY <4>2, TTLAssumption DEF CanWrite, Matches, Live, LeaseTypeOK, LeaseRow
    <3>3. ~GuardedWrite(p)
      BY DEF GuardedWrite, CanWrite, Matches, Live
    <3>4. CASE RenewFails(p)
      BY <3>4 DEF RenewFails, LeaseTypeOK, TaskLeaseContext
    <3>5. CASE ReleaseTaskLease(p) \/ RunnerCrash(p)
      BY <3>5 DEF ReleaseTaskLease, RunnerCrash, LeaseTypeOK, NoLease
    <3>6. QED
      BY <2>2, <3>1, <3>2, <3>3, <3>4, <3>5 DEF RunnerStep
  <2>3. CASE Tick
    BY <2>3 DEF Tick, CanWrite, Matches, Live, LeaseTypeOK, LeaseRow
  <2>4. ~UnleasedWrite
    BY DEF UnleasedWrite, CanWrite
  <2>5. ~UNCHANGED leaseVars
    BY DEF leaseVars, CanWrite, Matches, Live
  <2>6. QED
    BY <2>1, <2>2, <2>3, <2>4, <2>5 DEF LeaseNext
<1>2. LeaseInv /\ [LeaseNext]_leaseVars
        => [\A p \in Runner : CanWrite(p) /\ ~CanWrite(p)'
              => (lease'.remaining = 0 /\ ~lease'.released) \/ held'[p].lost]_leaseVars
  BY <1>1
<1>3. QED
  BY <1>2, LeaseInvariant, PTL DEF LeaseSpec, OnlyOwnLoss

\* A context that fails the fence never passes it again: the heartbeat cannot
\* revive it, and a new acquisition draws a token that is not its own.
THEOREM FencedStaysFencedTheorem == LeaseSpec => FencedStaysFenced
<1>1. ASSUME LeaseInv, [LeaseNext]_leaseVars, NEW p \in Runner,
             phase[p] = "running", ~CanWrite(p), CanWrite(p)'
      PROVE  FALSE
  <2> USE <1>1 DEF LeaseInv
  <2>1. phase'[p] = "running" /\ ~held'[p].lost /\ Matches(p)' /\ Live'
    BY DEF CanWrite
  <2>2. ASSUME NEW q \in Runner, AcquireTaskLease(q) PROVE FALSE
    <3>1. q # p /\ held'[p] = held[p]
      BY <2>2 DEF AcquireTaskLease, LeaseTypeOK
    <3>2. lease'.token \notin used /\ lease'.token # NoToken
      BY <2>2, TokenAssumption DEF AcquireTaskLease
    <3>3. QED
      BY <2>1, <3>1, <3>2 DEF Matches, TokensDrawn
  <2>3. ASSUME NEW q \in Runner, ReadVersion(q) PROVE FALSE
    <3>1. q # p /\ held'[p] = held[p] /\ lease' = lease
      BY <2>3 DEF ReadVersion, LeaseTypeOK
    <3>2. QED
      BY <2>1, <3>1 DEF CanWrite, Matches, Live
  <2>4. ASSUME NEW q \in Runner, RenewTaskLease(q) PROVE FALSE
    <3>1. CASE q = p
      <4>1. ~(Matches(p) /\ Live)
        BY <2>4, <3>1 DEF RenewTaskLease, CanWrite
      <4>2. held' = [held EXCEPT ![p].lost = TRUE]
        BY <2>4, <3>1, <4>1 DEF RenewTaskLease
      <4>3. QED
        BY <2>1, <4>2 DEF LeaseTypeOK, TaskLeaseContext
    <3>2. CASE q # p
      <4>1. held'[p] = held[p]
        BY <2>4, <3>2 DEF RenewTaskLease, LeaseTypeOK
      <4>2. CASE lease' = lease
        BY <2>1, <4>1, <4>2 DEF CanWrite, Matches, Live
      <4>3. CASE Matches(q) /\ lease' = [lease EXCEPT !.remaining = TTL]
        <5>1. lease'.token = lease.token
          BY <4>3 DEF LeaseTypeOK, LeaseRow
        <5>2. QED
          BY <2>1, <3>2, <4>1, <4>3, <5>1 DEF Matches, TokensDistinct
      <4>4. QED
        BY <2>4, <4>2, <4>3 DEF RenewTaskLease
    <3>3. QED
      BY <3>1, <3>2
  <2>5. ASSUME NEW q \in Runner, RenewFails(q) PROVE FALSE
    <3>1. q # p
      BY <2>1, <2>5 DEF RenewFails, LeaseTypeOK, TaskLeaseContext
    <3>2. held'[p] = held[p] /\ lease' = lease
      BY <2>5, <3>1 DEF RenewFails, LeaseTypeOK
    <3>3. QED
      BY <2>1, <3>2 DEF CanWrite, Matches, Live
  <2>6. ASSUME NEW q \in Runner, ReleaseTaskLease(q) \/ RunnerCrash(q) PROVE FALSE
    <3>1. q # p /\ held'[p] = held[p]
      BY <2>1, <2>6 DEF ReleaseTaskLease, RunnerCrash, LeaseTypeOK
    <3>2. lease' = lease \/ lease' = [lease EXCEPT !.released = TRUE, !.remaining = 0]
      BY <2>6 DEF ReleaseTaskLease, RunnerCrash
    <3>3. CASE lease' = lease
      BY <2>1, <3>1, <3>3 DEF CanWrite, Matches, Live
    <3>4. CASE lease' = [lease EXCEPT !.released = TRUE, !.remaining = 0]
      BY <2>1, <3>4 DEF Live, LeaseTypeOK, LeaseRow
    <3>5. QED
      BY <3>2, <3>3, <3>4
  <2>7. CASE Tick
    BY <2>1, <2>7 DEF Tick, CanWrite, Matches, Live, LeaseTypeOK, LeaseRow
  <2>8. ASSUME NEW q \in Runner, GuardedWrite(q) PROVE FALSE
    BY <2>1, <2>8 DEF GuardedWrite, CanWrite, Matches, Live
  <2>9. CASE UnleasedWrite \/ UNCHANGED leaseVars
    BY <2>1, <2>9 DEF UnleasedWrite, leaseVars, CanWrite, Matches, Live
  <2>10. QED
    BY <2>2, <2>3, <2>4, <2>5, <2>6, <2>7, <2>8, <2>9 DEF LeaseNext, RunnerStep
<1>2. LeaseInv /\ [LeaseNext]_leaseVars
        => [\A p \in Runner : phase[p] = "running" /\ ~CanWrite(p) => ~CanWrite(p)']_leaseVars
  BY <1>1
<1>3. QED
  BY <1>2, LeaseInvariant, PTL DEF LeaseSpec, FencedStaysFenced

\* The row of task_leases implements tenures of a single session: acquisition
\* grants one, expiry and release end it, every write belongs to it or falls
\* between two of them.
THEOREM ImplementsPromiseTheorem == LeaseSpec => ImplementsPromise
<1> DEFINE session == IF Live THEN lease.token ELSE NoToken
<1>1. LeaseInit => Promise!Init
  BY DEF LeaseInit, Promise!Init, Live
<1>2. ASSUME LeaseInv, [LeaseNext]_leaseVars PROVE [Promise!Next]_(Promise!vars)
  <2> USE <1>2 DEF LeaseInv
  <2>1. ASSUME NEW p \in Runner, AcquireTaskLease(p)
        PROVE  \E s \in Token : Promise!Grant(s)
    <3>1. session = NoToken /\ stamp' = stamp
      BY <2>1 DEF AcquireTaskLease
    <3>2. lease'.token \in Token /\ Live' /\ lease'.version = lease.version + 1
      BY <2>1, TTLAssumption DEF AcquireTaskLease, Live
    <3>3. QED
      BY <3>1, <3>2 DEF Promise!Grant
  <2>2. ASSUME NEW p \in Runner, ReadVersion(p) \/ RenewFails(p)
        PROVE  UNCHANGED Promise!vars
    BY <2>2 DEF ReadVersion, RenewFails, Promise!vars, Live
  <2>3. ASSUME NEW p \in Runner, RenewTaskLease(p) PROVE UNCHANGED Promise!vars
    <3>1. stamp' = stamp
      BY <2>3 DEF RenewTaskLease
    <3>2. CASE lease' = lease
      BY <3>1, <3>2 DEF Promise!vars, Live
    <3>3. CASE Live /\ lease' = [lease EXCEPT !.remaining = TTL]
      BY <3>1, <3>3, TTLAssumption DEF Promise!vars, Live, LeaseTypeOK, LeaseRow
    <3>4. QED
      BY <2>3, <3>2, <3>3 DEF RenewTaskLease
  <2>4. ASSUME NEW p \in Runner, GuardedWrite(p)
        PROVE  \E s \in Token : Promise!Commit(s)
    <3>1. Live /\ lease.token \in Token
      BY <2>4 DEF GuardedWrite, CanWrite, Matches, LeaseTypeOK, LeaseRow
    <3>2. QED
      BY <2>4, <3>1 DEF GuardedWrite, Promise!Commit, Live
  <2>5. CASE UnleasedWrite
    BY <2>5 DEF UnleasedWrite, Promise!CommitOutside, Promise!Next, Live
  <2>6. ASSUME NEW p \in Runner, ReleaseTaskLease(p) \/ RunnerCrash(p)
        PROVE  Promise!Lapse \/ UNCHANGED Promise!vars
    <3>1. stamp' = stamp
      BY <2>6 DEF ReleaseTaskLease, RunnerCrash
    <3>2. CASE lease' = lease
      BY <3>1, <3>2 DEF Promise!vars, Live
    <3>3. CASE lease' = [lease EXCEPT !.released = TRUE, !.remaining = 0]
      <4>1. ~Live' /\ lease'.version = lease.version
        BY <3>3 DEF Live, LeaseTypeOK, LeaseRow
      <4>2. QED
        BY <3>1, <4>1 DEF Promise!Lapse
    <3>4. QED
      BY <2>6, <3>2, <3>3 DEF ReleaseTaskLease, RunnerCrash
  <2>7. CASE Tick
    <3>1. lease'.token = lease.token /\ lease'.version = lease.version /\ stamp' = stamp
      BY <2>7 DEF Tick, LeaseTypeOK, LeaseRow
    <3>2. CASE Live'
      <4>1. Live
        BY <2>7, <3>2 DEF Tick, Live, LeaseTypeOK, LeaseRow
      <4>2. QED
        BY <3>1, <3>2, <4>1 DEF Promise!vars
    <3>3. CASE ~Live'
      BY <3>1, <3>3 DEF Promise!Lapse, Promise!Next
    <3>4. QED
      BY <3>2, <3>3
  <2>8. CASE UNCHANGED leaseVars
    BY <2>8 DEF leaseVars, Promise!vars, Live
  <2>9. QED
    BY <2>1, <2>2, <2>3, <2>4, <2>5, <2>6, <2>7, <2>8
    DEF LeaseNext, RunnerStep, Promise!Next
<1>3. QED
  BY <1>1, <1>2, LeaseInvariant, PTL DEF LeaseSpec, ImplementsPromise, Promise!Spec

-----------------------------------------------------------------------------
(***************************************************************************)
(* Snapshots of a repository.                                              *)
(***************************************************************************)
Dirt == {"staged", "edited", "untracked", "nested"}
CheckedOut == Branches \cup {Detached}
View == [head : Nat, branch : CheckedOut, dirt : SUBSET Dirt]

Capturing == {"root", "head", "branch", "status"}
Verifying == {"clean", "verifyHead", "verifyBranch", "verifyStatus"}
BranchChecked == {"target", "status", "reset"} \cup Verifying
Found == {"root", "branch"} \cup BranchChecked

\* One or two rows, each with a status; what else they hold is not restricted.
StepRows(rs) ==
    /\ \E S : rs \in Seq(S)
    /\ Len(rs) \in {1, 2}
    /\ \A i \in 1..Len(rs) : "status" \in DOMAIN rs[i]

SnapshotTypes ==
    /\ repo \in Repo
    /\ capture \in [pc : {"idle"} \cup Capturing, head : Nat, branch : CheckedOut]
    /\ rollback = [pc |-> rollback.pc, id |-> rollback.id, snap |-> rollback.snap,
                   headOk |-> rollback.headOk, branchOk |-> rollback.branchOk]
    /\ rollback.pc \in Resting \cup {"find"} \cup Found
    /\ seen \in [disturbed : BOOLEAN, quiet : {<<>>} \cup [{NewId} -> View],
                 during : Nat, resetOn : CheckedOut \cup {"none"}]
    /\ StepRows(steps)

Busy(i) == steps[i].status \in {"running", "outcome_unknown"}

\* A capture and a rollback are never in flight together, and once a capture
\* that nobody disturbed has stored its row no other capture starts.
OneAtATime ==
    /\ capture.pc # "idle" => Busy(1) /\ rollback.pc \in Resting
    /\ rollback.pc \notin Resting => Len(steps) = 2 /\ Busy(2)
    /\ seen.quiet # <<>> => /\ steps[1].status \in {"completed", "outcome_unknown"}
                            /\ capture.pc = "idle"

\* What a capture has read is still so while nobody disturbs it, and the row of
\* an undisturbed one says what was there.
CaptureKnows ==
    /\ seen.quiet # <<>> => /\ NewId \in DOMAIN rows
                            /\ rows[NewId].head = seen.quiet[NewId].head
                            /\ rows[NewId].branch = seen.quiet[NewId].branch
                            /\ seen.quiet[NewId].dirt = {}
    /\ ~seen.disturbed =>
         /\ capture.pc \in {"branch", "status"} => capture.head = HeadOf(repo)
         /\ capture.pc = "status" => capture.branch = repo.branch

\* What a rollback has checked is still so while nobody interferes; after one
\* interference the branch reset is the snapshot's or the one checked out now.
RollbackKnows ==
    /\ rollback.pc \in Found /\ seen.quiet # <<>> /\ rollback.id = <<[text |-> NewId]>>
         => rollback.snap = rows[NewId]
    /\ seen.during = 0 =>
         /\ rollback.pc \in BranchChecked => repo.branch = rollback.snap.branch
         /\ rollback.pc \in Verifying => HeadOf(repo) = rollback.snap.head
    /\ rollback.pc \in Verifying \ {"verifyStatus"} =>
         \/ seen.resetOn = rollback.snap.branch
         \/ seen.during >= 1 /\ (seen.during <= 1 => repo.branch = seen.resetOn)
    /\ rollback.pc = "verifyStatus" /\ rollback.branchOk /\ rollback.snap.branch # Detached
         => seen.resetOn = rollback.snap.branch \/ seen.during >= 2

SnapshotInvariant == SnapshotTypes /\ OneAtATime /\ CaptureKnows /\ RollbackKnows

\* HEAD names a commit or none.
LEMMA HeadIsNat == ASSUME NEW r \in Repo PROVE HeadOf(r) \in Nat
BY DEF Repo, HeadOf

\* There is a first row.
LEMMA FirstRow == ASSUME StepRows(steps) PROVE 1 \in 1..Len(steps)
BY DEF StepRows

\* A function on 1..n is a sequence of length n.
LEMMA RowsOfFunction ==
    ASSUME NEW n \in Nat, NEW f, f = [i \in 1..n |-> f[i]]
    PROVE  f \in Seq({f[i] : i \in 1..n}) /\ Len(f) = n
BY SMT

\* An answer changes the status of its own step, and only while it runs.
LEMMA SettleRows ==
    ASSUME StepRows(steps), NEW i \in 1..Len(steps), NEW status, NEW output, NEW error
    PROVE  /\ StepRows(Settle(i, status, output, error))
           /\ Len(Settle(i, status, output, error)) = Len(steps)
           /\ \A j \in 1..Len(steps) :
                Settle(i, status, output, error)[j].status =
                  IF j = i /\ steps[j].status = "running" THEN status ELSE steps[j].status
<1> DEFINE t == [steps EXCEPT ![i].status = status, ![i].output = output, ![i].error = error]
<1>1. CASE steps[i].status # "running"
  BY <1>1 DEF Settle, StepRows
<1>2. CASE steps[i].status = "running"
  <2>1. PICK S : steps \in Seq(S)
    BY DEF StepRows
  <2>2. Len(steps) \in Nat /\ DOMAIN t = 1..Len(steps)
    BY <2>1, SMT
  <2>6. t = [j \in DOMAIN t |-> t[j]]
    BY Zenon
  <2>3. t \in Seq({t[j] : j \in 1..Len(steps)}) /\ Len(t) = Len(steps)
    BY <2>2, <2>6, RowsOfFunction
  <2>4. \A j \in 1..Len(steps) :
          /\ "status" \in DOMAIN t[j]
          /\ t[j].status = IF j = i THEN status ELSE steps[j].status
    BY <2>1, SMT DEF StepRows
  <2>5. Settle(i, status, output, error) = t
    BY <1>2 DEF Settle
  <2> HIDE DEF t
  <2>7. StepRows(t)
    BY <2>3, <2>4 DEF StepRows
  <2> QED BY <1>2, <2>3, <2>4, <2>5, <2>7
<1> QED BY <1>1, <1>2

\* A deadline or a crash leaves a running step with an unknown outcome.
LEMMA UnheardRows ==
    ASSUME StepRows(steps)
    PROVE  /\ StepRows(Unheard) /\ Len(Unheard) = Len(steps)
           /\ \A j \in 1..Len(steps) :
                Unheard[j].status = IF steps[j].status = "running" THEN "outcome_unknown"
                                    ELSE steps[j].status
<1>1. PICK S : steps \in Seq(S)
  BY DEF StepRows
<1>2. Len(steps) \in Nat /\ Unheard = [j \in 1..Len(steps) |-> Unheard[j]]
  BY <1>1, SMT DEF Unheard
<1>3. Unheard \in Seq({Unheard[j] : j \in 1..Len(steps)}) /\ Len(Unheard) = Len(steps)
  BY <1>2, RowsOfFunction
<1>4. \A j \in 1..Len(steps) :
        /\ "status" \in DOMAIN Unheard[j]
        /\ Unheard[j].status = IF steps[j].status = "running" THEN "outcome_unknown"
                               ELSE steps[j].status
  BY SMT DEF Unheard, StepRows
<1> QED BY <1>3, <1>4 DEF StepRows

\* The invariant holds in every initial state.
LEMMA SnapshotInvariantInit == SnapshotInit => SnapshotInvariant
<1> SUFFICES ASSUME SnapshotInit PROVE SnapshotInvariant
  OBVIOUS
<1>1. StepRows(steps) /\ steps[1].status = "pending" /\ Len(steps) = 1
  <2> DEFINE row == PlannedStep("step1", [cwd |-> Text("here")])
  <2>1. "status" \in DOMAIN row /\ row.status = "pending"
    BY DEF PlannedStep
  <2> HIDE DEF row
  <2>2. steps = <<row>>
    BY DEF SnapshotInit, row
  <2>3. steps \in Seq({row}) /\ Len(steps) = 1 /\ steps[1] = row
    BY <2>2
  <2> QED BY <2>1, <2>3 DEF StepRows
<1>2. SnapshotTypes
  <2>1. repo \in Repo
    BY RepoAssumption DEF SnapshotInit
  <2>2. capture \in [pc : {"idle"} \cup Capturing, head : Nat, branch : CheckedOut]
    BY DEF SnapshotInit, NoCapture, CheckedOut
  <2>3. /\ rollback = [pc |-> rollback.pc, id |-> rollback.id, snap |-> rollback.snap,
                       headOk |-> rollback.headOk, branchOk |-> rollback.branchOk]
        /\ rollback.pc \in Resting
    BY DEF SnapshotInit, NoRollback, Resting
  <2>4. seen \in [disturbed : BOOLEAN, quiet : {<<>>} \cup [{NewId} -> View],
                  during : Nat, resetOn : CheckedOut \cup {"none"}]
    BY DEF SnapshotInit
  <2> QED BY <1>1, <2>1, <2>2, <2>3, <2>4 DEF SnapshotTypes
<1>3. capture.pc = "idle" /\ rollback.pc = "idle" /\ seen.quiet = <<>>
  BY DEF SnapshotInit, NoCapture, NoRollback
<1> QED BY <1>2, <1>3 DEF SnapshotInvariant, OneAtATime, CaptureKnows, RollbackKnows, Resting,
        Found, BranchChecked, Verifying

\* A change by somebody else, whatever it is, keeps the invariant.
LEMMA MovesKeep ==
    ASSUME SnapshotInvariant, NEW r \in Repo, Moves(r)
    PROVE  SnapshotInvariant'
<1> USE DEF SnapshotInvariant
<1>1. /\ rows' = rows /\ capture' = capture /\ rollback' = rollback /\ steps' = steps
      /\ repo' \in Repo
  BY DEF Moves
<1>2. /\ seen' \in [disturbed : BOOLEAN, quiet : {<<>>} \cup [{NewId} -> View],
                    during : Nat, resetOn : CheckedOut \cup {"none"}]
      /\ seen'.quiet = seen.quiet /\ seen'.resetOn = seen.resetOn
      /\ ~seen'.disturbed => ~seen.disturbed /\ capture.pc = "idle"
      /\ rollback.pc \notin Resting => seen'.during = seen.during + 1
  <2> DEFINE d == seen.disturbed \/ capture.pc # "idle"
             n == IF rollback.pc \in Resting THEN seen.during ELSE seen.during + 1
  <2>1. seen' = [seen EXCEPT !.disturbed = d, !.during = n]
    BY DEF Moves
  <2>2. d \in BOOLEAN /\ n \in Nat
    BY DEF SnapshotTypes
  <2>3. ~d => ~seen.disturbed /\ capture.pc = "idle"
    OBVIOUS
  <2>4. rollback.pc \notin Resting => n = seen.during + 1
    OBVIOUS
  <2> HIDE DEF d, n
  <2> QED BY <2>1, <2>2, <2>3, <2>4 DEF SnapshotTypes
<1>3. SnapshotTypes'
  BY <1>1, <1>2 DEF SnapshotTypes
<1>4. OneAtATime'
  BY <1>1, <1>2 DEF OneAtATime, Busy
<1>5. CaptureKnows'
  BY <1>1, <1>2 DEF CaptureKnows
<1>6. RollbackKnows'
  <2>1. CASE rollback.pc \in Resting
    BY <1>1, <2>1 DEF RollbackKnows, Resting, Found, BranchChecked, Verifying
  <2>2. CASE rollback.pc \notin Resting
    <3>1. seen'.during = seen.during + 1 /\ seen.during \in Nat
      BY <1>2, <2>2 DEF SnapshotTypes
    <3> QED BY <1>1, <1>2, <3>1 DEF RollbackKnows
  <2> QED BY <2>1, <2>2
<1> QED BY <1>3, <1>4, <1>5, <1>6

\* Every Git tool and every outside change leaves a repository, so that it is
\* one of those changes.
LEMMA OthersKeep ==
    ASSUME SnapshotInvariant, GitTool \/ Outside
    PROVE  SnapshotInvariant'
<1>1. repo \in Repo /\ HeadOf(repo) \in Nat
  BY HeadIsNat DEF SnapshotInvariant, SnapshotTypes
<1> SUFFICES \E r \in Repo : Moves(r)
  BY MovesKeep
<1>2. CASE gitCommit
  <2> DEFINE c == repo.next
             moved == [repo EXCEPT !.dirt = @ \ {"staged"}, !.objects = @ \cup {c}, !.next = c + 1]
             r == IF repo.branch = Detached THEN [moved EXCEPT !.at = c]
                  ELSE [moved EXCEPT !.tips[repo.branch] = c]
  <2>1. c \in Nat
    BY <1>1 DEF Repo
  <2>2. moved \in Repo /\ moved.branch = repo.branch
    <3> DEFINE dirt == repo.dirt \ {"staged"}
               objects == repo.objects \cup {c}
               next == c + 1
    <3>1. dirt \in SUBSET Dirt /\ objects \in SUBSET Nat /\ next \in Nat
      BY <1>1, <2>1 DEF Repo, Dirt
    <3>2. moved = [repo EXCEPT !.dirt = dirt, !.objects = objects, !.next = next]
      OBVIOUS
    <3> HIDE DEF dirt, objects, next, moved
    <3> QED BY <1>1, <3>1, <3>2 DEF Repo, Dirt
  <2>3. r \in Repo
    BY <2>1, <2>2, RepoAssumption DEF Repo
  <2>4. Moves(r)
    BY <1>2 DEF gitCommit, runGit
  <2> QED BY <2>3, <2>4
<1>3. ASSUME NEW b \in Branches, gitBranch(b) PROVE \E r \in Repo : Moves(r)
  <2>1. [repo EXCEPT !.tips[b] = HeadOf(repo)] \in Repo
    BY <1>1 DEF Repo
  <2> QED BY <1>3, <2>1 DEF gitBranch, runGit
<1>4. ASSUME NEW b \in Branches PROVE NewRepo(b) \in Repo
  BY <1>1 DEF Repo, NewRepo
<1>5. ASSUME NEW b \in Branches, gitInit(b) PROVE \E r \in Repo : Moves(r)
  BY <1>4, <1>5 DEF gitInit, runGit
<1>6. ASSUME NEW b \in Branches, NEW create \in BOOLEAN, gitCheckout(b, create)
      PROVE  \E r \in Repo : Moves(r)
  <2> DEFINE tip == IF create THEN HeadOf(repo) ELSE repo.tips[b]
             r == [repo EXCEPT !.branch = b, !.tips[b] = IF create THEN HeadOf(repo) ELSE @]
  <2>1. tip \in Nat
    BY <1>1 DEF Repo
  <2>2. r \in Repo
    BY <1>1 DEF Repo
  <2>3. Moves(r)
    BY <1>6 DEF gitCheckout, runGit
  <2> QED BY <2>2, <2>3
<1>7. ASSUME NEW kind \in {"edited", "untracked"}, gitAdd(kind) PROVE \E r \in Repo : Moves(r)
  <2>1. [repo EXCEPT !.dirt = (@ \ {kind}) \cup {"staged"}] \in Repo
    BY <1>1 DEF Repo
  <2> QED BY <1>7, <2>1 DEF gitAdd, runGit
<1>8. CASE gitClone
  <2>1. ASSUME NEW b \in Branches
        PROVE  [NewRepo(b) EXCEPT !.tips[b] = repo.next, !.objects = {repo.next},
                                  !.next = @ + 1] \in Repo
    <3>1. repo.next \in Nat
      BY <1>1 DEF Repo
    <3>2. NewRepo(b) \in Repo /\ NewRepo(b).next = repo.next
      BY <1>1, <1>4 DEF Repo, NewRepo
    <3> DEFINE new == NewRepo(b)
               tips == [new.tips EXCEPT ![b] = repo.next]
               objects == {repo.next}
               next == new.next + 1
    <3>3. tips \in [Branches -> Nat] /\ objects \in SUBSET Nat /\ next \in Nat
      BY <3>1, <3>2 DEF Repo
    <3> HIDE DEF tips, objects, next
    <3>4. [new EXCEPT !.tips = tips, !.objects = objects, !.next = next] \in Repo
      BY <3>2, <3>3 DEF Repo
    <3> QED BY <3>4 DEF tips, objects, next
  <2>2. [repo EXCEPT !.dirt = @ \cup {"nested"}] \in Repo
    BY <1>1 DEF Repo
  <2> QED BY <1>8, <2>1, <2>2 DEF gitClone, runGit
<1>9. CASE Outside
  <2>1. \A kind \in {"edited", "untracked"} : [repo EXCEPT !.dirt = @ \cup {kind}] \in Repo
    BY <1>1 DEF Repo
  <2>2. [repo EXCEPT !.branch = Detached, !.at = HeadOf(repo)] \in Repo
    BY <1>1 DEF Repo
  <2>3. [root |-> "absent", branch |-> Detached, tips |-> [b \in Branches |-> 0], at |-> 0,
         dirt |-> {}, objects |-> {}, next |-> repo.next] \in Repo
    BY <1>1 DEF Repo
  <2> QED BY <1>9, <2>1, <2>2, <2>3 DEF Outside
<1> QED BY <1>2, <1>3, <1>5, <1>6, <1>7, <1>8, <1>9 DEF GitTool

\* The steps after an attempt of step i, and after one that resolves its arguments.
Attempted(i) == [steps EXCEPT ![i].status = "running", ![i].attempts = @ + 1]
Resolved(i, arguments, declared) ==
    [steps EXCEPT ![i].arguments = arguments, ![i].templateArguments = declared,
                  ![i].status = "running", ![i].attempts = @ + 1]

\* An attempt changes its own step only, which then runs.
LEMMA AttemptRows ==
    ASSUME StepRows(steps), NEW i \in 1..Len(steps)
    PROVE  /\ StepRows(Attempted(i)) /\ Len(Attempted(i)) = Len(steps)
           /\ \A j \in 1..Len(steps) :
                Attempted(i)[j].status = IF j = i THEN "running" ELSE steps[j].status
<1> DEFINE t == Attempted(i)
<1>1. PICK S : steps \in Seq(S)
  BY DEF StepRows
<1>2. Len(steps) \in Nat /\ DOMAIN t = 1..Len(steps)
  BY <1>1, SMT DEF Attempted
<1>3. t = [j \in DOMAIN t |-> t[j]]
  BY Zenon DEF Attempted
<1>4. \A j \in 1..Len(steps) :
        /\ "status" \in DOMAIN t[j]
        /\ t[j].status = IF j = i THEN "running" ELSE steps[j].status
  BY <1>1, SMT DEF Attempted, StepRows
<1> HIDE DEF t
<1>5. t \in Seq({t[j] : j \in 1..Len(steps)}) /\ Len(t) = Len(steps)
  BY <1>2, <1>3, RowsOfFunction
<1>6. StepRows(t)
  BY <1>4, <1>5 DEF StepRows
<1> QED BY <1>4, <1>5, <1>6 DEF t

\* So does one that resolves its arguments first.
LEMMA ResolvedRows ==
    ASSUME StepRows(steps), NEW i \in 1..Len(steps), NEW arguments, NEW declared
    PROVE  /\ StepRows(Resolved(i, arguments, declared)) /\ Len(Resolved(i, arguments, declared)) = Len(steps)
           /\ \A j \in 1..Len(steps) :
                Resolved(i, arguments, declared)[j].status = IF j = i THEN "running" ELSE steps[j].status
<1> DEFINE t == Resolved(i, arguments, declared)
<1>1. PICK S : steps \in Seq(S)
  BY DEF StepRows
<1>2. Len(steps) \in Nat /\ DOMAIN t = 1..Len(steps)
  BY <1>1, SMT DEF Resolved
<1>3. t = [j \in DOMAIN t |-> t[j]]
  BY Zenon DEF Resolved
<1>4. \A j \in 1..Len(steps) :
        /\ "status" \in DOMAIN t[j]
        /\ t[j].status = IF j = i THEN "running" ELSE steps[j].status
  BY <1>1, SMT DEF Resolved, StepRows
<1> HIDE DEF t
<1>5. t \in Seq({t[j] : j \in 1..Len(steps)}) /\ Len(t) = Len(steps)
  BY <1>2, <1>3, RowsOfFunction
<1>6. StepRows(t)
  BY <1>4, <1>5 DEF StepRows
<1> QED BY <1>4, <1>5, <1>6 DEF t

\* A capture that ends without a row keeps the invariant.
LEMMA CaptureEndKeeps ==
    ASSUME SnapshotInvariant, capture.pc # "idle",
           NEW status \in {"completed", "failed"}, NEW output, NEW error,
           Ends(status, output, error), UNCHANGED <<rows, repo, rollback, seen>>
    PROVE  SnapshotInvariant'
<1> USE DEF SnapshotInvariant
<1>1. /\ rows' = rows /\ rollback' = rollback /\ repo' = repo /\ seen' = seen
      /\ capture' = NoCapture /\ steps' = Settle(1, status, output, error)
  BY DEF Ends
<1>2. /\ StepRows(steps) /\ 1 \in 1..Len(steps) /\ rollback.pc \in Resting
      /\ seen.quiet = <<>>
  BY FirstRow DEF SnapshotTypes, OneAtATime
<1>3. StepRows(steps')
  BY <1>1, <1>2, SettleRows
<1>4. capture' \in [pc : {"idle"} \cup Capturing, head : Nat, branch : CheckedOut] /\ capture'.pc = "idle"
  BY <1>1 DEF NoCapture, CheckedOut
<1>5. SnapshotTypes'
  BY <1>1, <1>3, <1>4 DEF SnapshotTypes
<1> QED BY <1>1, <1>2, <1>4, <1>5 DEF OneAtATime, CaptureKnows, RollbackKnows, Resting, Found,
        BranchChecked, Verifying

\* A capture that goes on keeps the invariant, if what it reads is what is there.
LEMMA CaptureGoesKeeps ==
    ASSUME SnapshotInvariant, capture.pc # "idle",
           NEW next \in [pc : Capturing, head : Nat, branch : CheckedOut],
           next.pc \in {"branch", "status"} /\ ~seen.disturbed => next.head = HeadOf(repo),
           next.pc = "status" /\ ~seen.disturbed => next.branch = repo.branch,
           Goes(next), UNCHANGED <<repo, rollback, seen>>
    PROVE  SnapshotInvariant'
<1> USE DEF SnapshotInvariant
<1>1. /\ rows' = rows /\ rollback' = rollback /\ repo' = repo /\ seen' = seen
      /\ capture' = next /\ steps' = steps
  BY DEF Goes
<1>2. next.pc # "idle" /\ next \in [pc : {"idle"} \cup Capturing, head : Nat, branch : CheckedOut]
  BY DEF Capturing
<1>3. seen.quiet = <<>>
  BY DEF OneAtATime
<1>4. SnapshotTypes'
  BY <1>1, <1>2 DEF SnapshotTypes
<1> QED BY <1>1, <1>2, <1>3, <1>4 DEF OneAtATime, Busy, CaptureKnows, RollbackKnows

\* Every step of a capture keeps the invariant.
LEMMA CaptureKeeps ==
    ASSUME SnapshotInvariant, captureTaskSnapshot
    PROVE  SnapshotInvariant'
<1> USE DEF SnapshotInvariant
<1>1. CASE CaptureStarts
  <2>1. /\ rows' = rows /\ rollback' = rollback /\ repo' = repo /\ capture.pc = "idle"
        /\ steps' = Attempted(1)
        /\ capture' = [NoCapture EXCEPT !.pc = "root"]
        /\ seen' = [seen EXCEPT !.disturbed = FALSE]
        /\ steps[1].status \in {"pending", "failed"}
        /\ \A j \in 1..Len(steps) : ~Busy(j)
    BY <1>1 DEF CaptureStarts, MayRun, Busy, Attempted
  <2>2. StepRows(steps) /\ 1 \in 1..Len(steps)
    BY FirstRow DEF SnapshotTypes
  <2>3. StepRows(steps') /\ Len(steps') = Len(steps) /\ steps'[1].status = "running"
    <3>1. /\ StepRows(steps') /\ Len(steps') = Len(steps)
          /\ \A j \in 1..Len(steps) :
               steps'[j].status = IF j = 1 THEN "running" ELSE steps[j].status
      BY <2>1, <2>2, AttemptRows
    <3> QED BY <2>2, <3>1
  <2>4. rollback.pc \in Resting /\ seen.quiet = <<>>
    <3>1. 2 \in 1..Len(steps) => ~Busy(2)
      BY <2>1
    <3> QED BY <2>1, <3>1 DEF OneAtATime
  <2>5. /\ capture' \in [pc : {"idle"} \cup Capturing, head : Nat, branch : CheckedOut]
        /\ capture'.pc = "root"
    BY <2>1 DEF NoCapture, CheckedOut, Capturing
  <2>6. /\ seen' \in [disturbed : BOOLEAN, quiet : {<<>>} \cup [{NewId} -> View],
                      during : Nat, resetOn : CheckedOut \cup {"none"}]
        /\ seen'.quiet = <<>>
    BY <2>1, <2>4 DEF SnapshotTypes
  <2>7. SnapshotTypes'
    BY <2>1, <2>3, <2>5, <2>6 DEF SnapshotTypes
  <2> QED BY <2>1, <2>3, <2>4, <2>5, <2>6, <2>7 DEF OneAtATime, Busy, CaptureKnows, RollbackKnows,
          Resting, Found, BranchChecked, Verifying
<1>2. capture \in [pc : {"idle"} \cup Capturing, head : Nat, branch : CheckedOut] /\ repo \in Repo
  BY DEF SnapshotTypes
<1>3. CASE ReadRoot
  <2>1. capture.pc = "root" /\ UNCHANGED <<repo, rollback, seen>>
    BY <1>3 DEF ReadRoot, CaptureAt
  <2>2. CASE Refuses("NOT_A_GIT_REPOSITORY") \/ Throws("GIT_REPOSITORY_ROOT_REQUIRED")
    BY <2>1, <2>2, CaptureEndKeeps DEF Refuses, Throws
  <2>3. CASE Goes([capture EXCEPT !.pc = "head"])
    <3>1. /\ [capture EXCEPT !.pc = "head"] \in [pc : Capturing, head : Nat, branch : CheckedOut]
          /\ [capture EXCEPT !.pc = "head"].pc = "head"
      BY <1>2 DEF Capturing
    <3> QED BY <2>1, <2>3, <3>1, CaptureGoesKeeps
  <2> QED BY <1>3, <2>2, <2>3 DEF ReadRoot
<1>4. CASE ReadHead
  <2>1. capture.pc = "head" /\ UNCHANGED <<repo, rollback, seen>>
    BY <1>4 DEF ReadHead, CaptureAt
  <2> DEFINE next == [capture EXCEPT !.pc = "branch", !.head = HeadOf(repo)]
  <2>2. CASE Refuses("GIT_NO_INITIAL_COMMIT")
    BY <2>1, <2>2, CaptureEndKeeps DEF Refuses
  <2>3. CASE Goes(next)
    <3>1. /\ next \in [pc : Capturing, head : Nat, branch : CheckedOut]
          /\ next.pc = "branch" /\ next.head = HeadOf(repo)
      BY <1>2, HeadIsNat DEF Capturing
    <3> HIDE DEF next
    <3> QED BY <2>1, <2>3, <3>1, CaptureGoesKeeps
  <2> QED BY <1>4, <2>2, <2>3 DEF ReadHead
<1>5. CASE ReadBranch
  <2>1. capture.pc = "branch" /\ UNCHANGED <<repo, rollback, seen>>
    BY <1>5 DEF ReadBranch, CaptureAt
  <2> DEFINE next == [capture EXCEPT !.pc = "status", !.branch = repo.branch]
  <2>2. CASE Throws("GIT_BRANCH_UNVERIFIED")
    BY <2>1, <2>2, CaptureEndKeeps DEF Throws
  <2>3. CASE Goes(next)
    <3>1. /\ next \in [pc : Capturing, head : Nat, branch : CheckedOut]
          /\ next.pc = "status" /\ next.head = capture.head /\ next.branch = repo.branch
      BY <1>2 DEF Capturing, Repo, CheckedOut
    <3>2. ~seen.disturbed => next.head = HeadOf(repo)
      BY <2>1, <3>1 DEF CaptureKnows
    <3> HIDE DEF next
    <3> QED BY <2>1, <2>3, <3>1, <3>2, CaptureGoesKeeps
  <2> QED BY <1>5, <2>2, <2>3 DEF ReadBranch
<1>6. CASE ReadStatus
  <2>1. capture.pc = "status" /\ UNCHANGED <<repo, rollback>>
    BY <1>6 DEF ReadStatus, CaptureAt
  <2>2. CASE /\ Throws("GIT_STATUS_UNVERIFIED") \/ Refuses("GIT_DIRTY_SNAPSHOT_UNSUPPORTED")
             /\ UNCHANGED seen
    BY <2>1, <2>2, CaptureEndKeeps DEF Refuses, Throws
  <2> DEFINE snap == [path |-> "__task_snapshot__", cwd |-> "here",
                      kind |-> "clean_git_snapshot",
                      head |-> capture.head, branch |-> capture.branch]
             output == [object |-> [snapshotId |-> Text(NewId), clean |-> [boolean |-> TRUE]]]
  <2>3. CASE /\ Clean /\ storeTaskGitSnapshot(NewId, snap)
             /\ Ends("completed", output, Undefined)
             /\ seen' = IF seen.disturbed THEN seen
                        ELSE [seen EXCEPT !.quiet = [i \in {NewId} |-> Visible(repo)]]
    <3>1. /\ rollback' = rollback /\ repo' = repo /\ capture' = NoCapture
          /\ steps' = Settle(1, "completed", output, Undefined)
      BY <2>1, <2>3 DEF Ends
    <3>2. /\ StepRows(steps) /\ 1 \in 1..Len(steps) /\ rollback.pc \in Resting
          /\ Busy(1) /\ seen.quiet = <<>>
      BY <2>1, FirstRow DEF SnapshotTypes, OneAtATime
    <3>3. StepRows(steps') /\ steps'[1].status \in {"completed", "outcome_unknown"}
      BY <3>1, <3>2, SettleRows DEF Busy
    <3>4. capture' \in [pc : {"idle"} \cup Capturing, head : Nat, branch : CheckedOut] /\ capture'.pc = "idle"
      BY <3>1 DEF NoCapture, CheckedOut
    <3>5. NewId \in DOMAIN rows' /\ rows'[NewId] = snap
      BY <2>3 DEF storeTaskGitSnapshot
    <3>6. snap.head = capture.head /\ snap.branch = capture.branch
      OBVIOUS
    <3> DEFINE view == [i \in {NewId} |-> Visible(repo)]
    <3>7. /\ view \in [{NewId} -> View] /\ view[NewId].head = HeadOf(repo)
          /\ view[NewId].branch = repo.branch /\ view[NewId].dirt = repo.dirt
      BY <1>2, HeadIsNat DEF Visible, View, Repo, CheckedOut, Dirt
    <3>8. ~seen.disturbed => seen' = [seen EXCEPT !.quiet = view]
      BY <2>3
    <3>9. seen.disturbed => seen' = seen
      BY <2>3
    <3> HIDE DEF view, snap
    <3>10. /\ seen' \in [disturbed : BOOLEAN, quiet : {<<>>} \cup [{NewId} -> View],
                         during : Nat, resetOn : CheckedOut \cup {"none"}]
           /\ seen'.quiet # <<>> => ~seen.disturbed /\ seen'.quiet = view
      BY <3>2, <3>7, <3>8, <3>9 DEF SnapshotTypes
    <3>11. SnapshotTypes'
      BY <3>1, <3>3, <3>4, <3>10, <1>2 DEF SnapshotTypes
    <3>12. OneAtATime'
      BY <3>1, <3>2, <3>3, <3>4 DEF OneAtATime
    <3>13. CaptureKnows'
      <4>1. ~seen.disturbed => capture.head = HeadOf(repo) /\ capture.branch = repo.branch
        BY <2>1 DEF CaptureKnows
      <4>2. repo.dirt = {}
        BY <2>3 DEF Clean
      <4> QED BY <3>4, <3>5, <3>6, <3>7, <3>10, <4>1, <4>2 DEF CaptureKnows
    <3> QED BY <3>1, <3>2, <3>11, <3>12, <3>13 DEF RollbackKnows, Resting, Found, BranchChecked,
            Verifying
  <2> QED BY <1>6, <2>2, <2>3 DEF ReadStatus
<1> QED BY <1>1, <1>3, <1>4, <1>5, <1>6 DEF captureTaskSnapshot

\* What appending makes.
LEMMA AppendedRow ==
    ASSUME NEW T, NEW s \in Seq(T), NEW e \in T
    PROVE  /\ Append(s, e) \in Seq(T) /\ Len(Append(s, e)) = Len(s) + 1
           /\ \A i \in 1..Len(s) : Append(s, e)[i] = s[i]
           /\ Append(s, e)[Len(s) + 1] = e
OBVIOUS

\* Appending the second step keeps the invariant.
LEMMA AppendKeeps ==
    ASSUME SnapshotInvariant, AppendStep
    PROVE  SnapshotInvariant'
<1> USE DEF SnapshotInvariant
<1>1. PICK d \in Declared :
        steps' = Append(steps, PlannedStep("step2", [cwd |-> Text("here"), snapshotId |-> d]))
  BY DEF AppendStep
<1> DEFINE row == PlannedStep("step2", [cwd |-> Text("here"), snapshotId |-> d])
<1>2. "status" \in DOMAIN row
  BY DEF PlannedStep
<1> HIDE DEF row
<1>3. /\ UNCHANGED <<repo, rows, capture, rollback, seen>>
      /\ Len(steps) = 1 /\ steps[1].status \in {"completed", "failed"}
      /\ steps' = Append(steps, row)
  BY <1>1 DEF AppendStep, row
<1>4. StepRows(steps)
  BY DEF SnapshotTypes
<1>5. PICK S : steps \in Seq(S)
  BY <1>4 DEF StepRows
<1>6. /\ steps' \in Seq(S \cup {row}) /\ Len(steps') = 2
      /\ steps'[1] = steps[1] /\ steps'[2] = row
  <2> DEFINE T == S \cup {row}
  <2>1. steps \in Seq(T) /\ row \in T
    BY <1>5
  <2> HIDE DEF T
  <2>2. steps' \in Seq(T) /\ Len(steps') = 2 /\ steps'[1] = steps[1] /\ steps'[2] = row
    <3>1. /\ steps' \in Seq(T) /\ Len(steps') = Len(steps) + 1
          /\ \A i \in 1..Len(steps) : steps'[i] = steps[i]
          /\ steps'[Len(steps) + 1] = row
      <4>1. /\ Append(steps, row) \in Seq(T) /\ Len(Append(steps, row)) = Len(steps) + 1
            /\ \A i \in 1..Len(steps) : Append(steps, row)[i] = steps[i]
            /\ Append(steps, row)[Len(steps) + 1] = row
        BY <2>1, AppendedRow
      <4>2. steps' = Append(steps, row)
        BY <1>3
      <4> HIDE <1>1, <1>3
      <4> QED BY <4>1, <4>2, Zenon
    <3>2. 1 \in 1..Len(steps) /\ Len(steps) + 1 = 2
      BY <1>3
    <3> QED BY <3>1, <3>2, Zenon
  <2> QED BY <2>2 DEF T
<1>7. \A i \in 1..Len(steps') : "status" \in DOMAIN steps'[i]
  <2>1. "status" \in DOMAIN steps[1]
    BY <1>4, FirstRow DEF StepRows
  <2>2. \A i \in 1..2 : i = 1 \/ i = 2
    OBVIOUS
  <2> QED BY <1>2, <1>6, <2>1, <2>2
<1>8. StepRows(steps')
  BY <1>6, <1>7 DEF StepRows
<1>9. SnapshotTypes'
  BY <1>3, <1>8 DEF SnapshotTypes
<1>10. OneAtATime'
  BY <1>3, <1>6 DEF OneAtATime, Busy
<1> QED BY <1>3, <1>9, <1>10 DEF CaptureKnows, RollbackKnows

\* An attempt of step 2 keeps the invariant, whatever its arguments.
LEMMA AnyStepTwoKeeps ==
    ASSUME SnapshotInvariant, AnyStepTwo
    PROVE  SnapshotInvariant'
<1> USE DEF SnapshotInvariant
<1>1. StepTwoReady
  BY DEF AnyStepTwo, StepTwoRuns, StepTwoUnresolved
<1>2. StepRows(steps)
  BY DEF SnapshotTypes
<1>3. /\ 2 \in 1..Len(steps) /\ Len(steps) = 2 /\ rollback.pc \in Resting /\ ~Busy(1)
      /\ steps[2].status \in {"pending", "failed"}
  <2>1. 2 <= Len(steps) /\ Len(steps) \in {1, 2}
    BY <1>1, <1>2 DEF StepTwoReady, MayRun, StepRows
  <2>2. 1 \in 1..Len(steps)
    BY <1>2, FirstRow
  <2> QED BY <1>1, <2>1, <2>2 DEF StepTwoReady, MayRun, Busy
<1>4. capture.pc = "idle"
  BY <1>3 DEF OneAtATime
<1>5. CASE StepTwoUnresolved
  <2> DEFINE t == [steps EXCEPT ![2].status = "failed", ![2].error = Text("missing")]
  <2>1. UNCHANGED <<repo, rows, capture, rollback, seen>> /\ steps' = t
    BY <1>5 DEF StepTwoUnresolved
  <2>2. PICK S : steps \in Seq(S)
    BY <1>2 DEF StepRows
  <2>3. Len(steps) \in Nat /\ DOMAIN t = 1..Len(steps)
    BY <2>2, SMT
  <2>4. t = [j \in DOMAIN t |-> t[j]]
    BY Zenon
  <2>5. t \in Seq({t[j] : j \in 1..Len(steps)}) /\ Len(t) = Len(steps)
    <3>1. t = [j \in 1..Len(steps) |-> t[j]]
      BY <2>3, <2>4, Zenon
    <3> QED BY <2>3, <3>1, RowsOfFunction, Zenon
  <2>6. /\ \A j \in 1..Len(steps) : "status" \in DOMAIN t[j]
        /\ t[1] = steps[1]
    BY <1>2, <2>2, SMT DEF StepRows
  <2> HIDE DEF t
  <2>7. StepRows(t)
    BY <1>2, <2>5, <2>6 DEF StepRows
  <2>8. SnapshotTypes'
    BY <2>1, <2>7 DEF SnapshotTypes
  <2>9. OneAtATime'
    BY <1>3, <1>4, <2>1, <2>6 DEF OneAtATime
  <2> QED BY <2>1, <2>8, <2>9 DEF CaptureKnows, RollbackKnows
<1>6. ASSUME NEW arguments, NEW declared, StepTwoRuns(arguments, declared)
      PROVE  SnapshotInvariant'
  <2> DEFINE id == arguments.object.snapshotId
             chosen == IF IsString(id) THEN id.string ELSE <<>>
  <2>1. /\ UNCHANGED <<repo, rows, capture>>
        /\ steps' = Resolved(2, arguments, declared)
        /\ rollback' = [NoRollback EXCEPT !.pc = "find", !.id = chosen]
        /\ seen' = [seen EXCEPT !.during = 0, !.resetOn = "none"]
    BY <1>6 DEF StepTwoRuns, Resolved
  <2> HIDE DEF chosen
  <2>2. /\ StepRows(steps') /\ Len(steps') = Len(steps)
        /\ steps'[2].status = "running" /\ steps'[1].status = steps[1].status
    <3>1. 1 \in 1..Len(steps)
      BY <1>2, FirstRow
    <3>2. /\ StepRows(steps') /\ Len(steps') = Len(steps)
          /\ \A j \in 1..Len(steps) :
               steps'[j].status = IF j = 2 THEN "running" ELSE steps[j].status
      BY <1>2, <1>3, <2>1, ResolvedRows
    <3> QED BY <1>3, <3>1, <3>2
  <2>3. /\ rollback' = [pc |-> "find", id |-> chosen, snap |-> NoSnap, headOk |-> FALSE,
                        branchOk |-> FALSE]
    BY <2>1 DEF NoRollback
  <2>4. /\ seen' \in [disturbed : BOOLEAN, quiet : {<<>>} \cup [{NewId} -> View],
                      during : Nat, resetOn : CheckedOut \cup {"none"}]
        /\ seen'.quiet = seen.quiet /\ seen'.disturbed = seen.disturbed
    BY <2>1 DEF SnapshotTypes
  <2>5. SnapshotTypes'
    BY <2>1, <2>2, <2>3, <2>4 DEF SnapshotTypes
  <2>6. OneAtATime'
    BY <1>3, <1>4, <2>1, <2>2, <2>3, <2>4 DEF OneAtATime, Busy
  <2>7. CaptureKnows'
    BY <2>1, <2>4 DEF CaptureKnows
  <2> QED BY <2>3, <2>5, <2>6, <2>7 DEF RollbackKnows, Found, BranchChecked, Verifying
<1> QED BY <1>5, <1>6 DEF AnyStepTwo

\* A rollback that throws keeps the invariant, whatever it has done to the
\* repository.
LEMMA RollbackThrowKeeps ==
    ASSUME SnapshotInvariant, rollback.pc \notin Resting, NEW error, RollbackThrows(error),
           UNCHANGED <<rows, capture>>, repo' \in Repo,
           seen' = seen \/ seen' = [seen EXCEPT !.resetOn = repo.branch]
    PROVE  SnapshotInvariant'
<1> USE DEF SnapshotInvariant
<1>1. /\ capture.pc = "idle" /\ Len(steps) = 2 /\ StepRows(steps) /\ Busy(2)
  BY DEF OneAtATime, SnapshotTypes
<1>2. 2 \in 1..Len(steps) /\ 1 \in 1..Len(steps)
  BY <1>1
<1>3. steps' = Settle(2, "failed", Undefined, Text(error)) /\ rollback' = [rollback EXCEPT !.pc = "threw"]
  BY DEF RollbackThrows
<1>4. /\ StepRows(steps') /\ Len(steps') = Len(steps)
      /\ steps'[1].status = steps[1].status
  BY <1>1, <1>2, <1>3, SettleRows
<1>5. /\ rollback' = [pc |-> "threw", id |-> rollback.id, snap |-> rollback.snap,
                      headOk |-> rollback.headOk, branchOk |-> rollback.branchOk]
  BY <1>3 DEF SnapshotTypes
<1>6. /\ seen' \in [disturbed : BOOLEAN, quiet : {<<>>} \cup [{NewId} -> View],
                    during : Nat, resetOn : CheckedOut \cup {"none"}]
      /\ seen'.quiet = seen.quiet
  BY DEF SnapshotTypes, Repo, CheckedOut
<1>7. SnapshotTypes'
  BY <1>4, <1>5, <1>6 DEF SnapshotTypes, Resting
<1>8. OneAtATime'
  BY <1>1, <1>4, <1>5, <1>6 DEF OneAtATime, Resting
<1>9. CaptureKnows'
  BY <1>1, <1>6 DEF CaptureKnows
<1> QED BY <1>5, <1>7, <1>8, <1>9 DEF RollbackKnows, Found, BranchChecked, Verifying

\* A rollback that goes on keeps the invariant, if what it has learnt is so.
LEMMA RollbackGoesKeeps ==
    ASSUME SnapshotInvariant, rollback.pc \notin Resting, NEW next, Continues(next),
           next.pc \in Found,
           next = [pc |-> next.pc, id |-> rollback.id, snap |-> next.snap,
                   headOk |-> next.headOk, branchOk |-> next.branchOk],
           UNCHANGED <<rows, capture>>, repo' \in Repo,
           seen' = seen \/ seen' = [seen EXCEPT !.resetOn = repo.branch],
           RollbackKnows'
    PROVE  SnapshotInvariant'
<1> USE DEF SnapshotInvariant
<1>1. /\ capture.pc = "idle" /\ rollback' = next /\ steps' = steps
  BY DEF OneAtATime, Continues
<1>2. /\ seen' \in [disturbed : BOOLEAN, quiet : {<<>>} \cup [{NewId} -> View],
                    during : Nat, resetOn : CheckedOut \cup {"none"}]
      /\ seen'.quiet = seen.quiet
  BY DEF SnapshotTypes, Repo, CheckedOut
<1>3. SnapshotTypes'
  BY <1>1, <1>2 DEF SnapshotTypes
<1>4. OneAtATime'
  BY <1>1, <1>2 DEF OneAtATime, Busy
<1>5. CaptureKnows'
  BY <1>1, <1>2 DEF CaptureKnows
<1> QED BY <1>3, <1>4, <1>5

\* A stored id finds its own row.
LEMMA FindsItsRow ==
    ASSUME NEW i \in DOMAIN rows
    PROVE  findTaskGitSnapshot(<<[text |-> i]>>) = rows[i]
<1>1. \A j : <<[text |-> i]>> = <<[text |-> j]>> => i = j
  <2> TAKE j
  <2> HAVE <<[text |-> i]>> = <<[text |-> j]>>
  <2>1. [text |-> i] = [text |-> j]
    OBVIOUS
  <2>2. [text |-> i].text = [text |-> j].text
    BY <2>1
  <2> QED BY <2>2
<1>2. (CHOOSE j \in DOMAIN rows : <<[text |-> i]>> = <<[text |-> j]>>) = i
  BY <1>1
<1> QED BY <1>2 DEF findTaskGitSnapshot

\* git reset --hard leaves a repository whose HEAD is the commit asked for.
LEMMA ResetMoves ==
    ASSUME repo \in Repo, NEW head \in Nat
    PROVE  /\ ResetTo(head) \in Repo /\ HeadOf(ResetTo(head)) = head
           /\ ResetTo(head).branch = repo.branch
<1> DEFINE dirt == repo.dirt \ {"staged", "edited"}
           kept == [repo EXCEPT !.dirt = dirt]
<1>1. kept \in Repo /\ kept.branch = repo.branch
  BY DEF Repo
<1>2. ResetTo(head) = IF repo.branch = Detached THEN [kept EXCEPT !.at = head]
                      ELSE [kept EXCEPT !.tips[repo.branch] = head]
  BY DEF ResetTo
<1> HIDE DEF kept
<1>3. CASE repo.branch = Detached
  BY <1>1, <1>2, <1>3 DEF Repo, HeadOf
<1>4. CASE repo.branch # Detached
  <2>1. repo.branch \in Branches
    BY <1>4 DEF Repo
  <2> QED BY <1>1, <1>2, <1>4, <2>1 DEF Repo, HeadOf
<1> QED BY <1>3, <1>4

\* git clean -fd leaves HEAD where it is.
LEMMA CleanKeepsHead ==
    ASSUME repo \in Repo
    PROVE  /\ CleanUntracked \in Repo /\ HeadOf(CleanUntracked) = HeadOf(repo)
           /\ CleanUntracked.branch = repo.branch
BY DEF Repo, CleanUntracked, HeadOf

\* The checks a rollback makes before it changes anything keep the invariant.
LEMMA RollbackChecksKeep ==
    ASSUME SnapshotInvariant,
           FindSnapshot \/ CheckRoot \/ CheckBranch \/ CheckTarget \/ CheckStatus
    PROVE  SnapshotInvariant'
<1> USE DEF SnapshotInvariant
<1>1. /\ UNCHANGED <<rows, capture, repo, seen>> /\ repo' \in Repo
      /\ rollback.pc \in {"find", "root", "branch", "target", "status"}
      /\ rollback.pc \notin Resting
  BY DEF FindSnapshot, CheckRoot, CheckBranch, CheckTarget, CheckStatus, RollbackAt,
         SnapshotTypes, Resting
<1>2. ASSUME NEW error, RollbackThrows(error) PROVE SnapshotInvariant'
  BY <1>1, <1>2, RollbackThrowKeeps
<1> SUFFICES ASSUME \A error : ~RollbackThrows(error) PROVE SnapshotInvariant'
  BY <1>2
<1>3. rollback = [pc |-> rollback.pc, id |-> rollback.id, snap |-> rollback.snap,
                  headOk |-> rollback.headOk, branchOk |-> rollback.branchOk]
  BY DEF SnapshotTypes
<1>5. ASSUME NEW pc \in {"root", "branch", "target", "status", "reset"}
      PROVE  [rollback EXCEPT !.pc = pc] =
               [pc |-> pc, id |-> rollback.id, snap |-> rollback.snap,
                headOk |-> rollback.headOk, branchOk |-> rollback.branchOk]
  BY <1>3 DEF SnapshotTypes
<1>6. ASSUME NEW pc \in {"root", "branch", "target", "status", "reset"}, NEW snap,
             Continues([pc |-> pc, id |-> rollback.id, snap |-> snap,
                        headOk |-> rollback.headOk, branchOk |-> rollback.branchOk]),
             seen.quiet # <<>> /\ rollback.id = <<[text |-> NewId]>> => snap = rows[NewId],
             pc \in BranchChecked /\ seen.during = 0 => repo.branch = snap.branch
      PROVE  SnapshotInvariant'
  <2> DEFINE next == [pc |-> pc, id |-> rollback.id, snap |-> snap,
                      headOk |-> rollback.headOk, branchOk |-> rollback.branchOk]
  <2>1. /\ next = [pc |-> next.pc, id |-> rollback.id, snap |-> next.snap,
                   headOk |-> next.headOk, branchOk |-> next.branchOk]
        /\ next.pc = pc /\ next.id = rollback.id /\ next.snap = snap
    OBVIOUS
  <2> HIDE DEF next
  <2>2. Continues(next)
    BY <1>6 DEF next
  <2>3. rollback' = next
    BY <2>2 DEF Continues
  <2>4. pc \in Found /\ pc \notin Verifying
    BY DEF Found, BranchChecked, Verifying
  <2>5. RollbackKnows'
    BY <1>1, <1>6, <2>1, <2>3, <2>4 DEF RollbackKnows, Verifying
  <2> QED BY <1>1, <2>1, <2>2, <2>4, <2>5, RollbackGoesKeeps
<1>7. rollback.pc \in Found /\ seen.quiet # <<>> /\ rollback.id = <<[text |-> NewId]>>
        => rollback.snap = rows[NewId]
  BY DEF RollbackKnows
<1>8. CASE FindSnapshot
  <2> DEFINE snap == findTaskGitSnapshot(rollback.id)
  <2>1. Continues([rollback EXCEPT !.pc = "root", !.snap = snap])
    BY <1>8 DEF FindSnapshot
  <2>2. seen.quiet # <<>> /\ rollback.id = <<[text |-> NewId]>> => snap = rows[NewId]
    BY FindsItsRow DEF CaptureKnows
  <2> HIDE DEF snap
  <2>3. "root" \notin BranchChecked
    BY DEF BranchChecked, Verifying
  <2>4. Continues([pc |-> "root", id |-> rollback.id, snap |-> snap,
                   headOk |-> rollback.headOk, branchOk |-> rollback.branchOk])
    <3> DEFINE moved == [rollback EXCEPT !.pc = "root"]
    <3>1. moved = [pc |-> "root", id |-> rollback.id, snap |-> rollback.snap,
                   headOk |-> rollback.headOk, branchOk |-> rollback.branchOk]
      BY <1>5
    <3>2. Continues([moved EXCEPT !.snap = snap])
      BY <2>1
    <3> HIDE DEF moved
    <3>3. [moved EXCEPT !.snap = snap] =
            [pc |-> "root", id |-> rollback.id, snap |-> snap,
             headOk |-> rollback.headOk, branchOk |-> rollback.branchOk]
      BY <3>1
    <3> QED BY <3>2, <3>3, Zenon
  <2> QED BY <1>6, <2>2, <2>3, <2>4
<1>9. CASE CheckRoot
  <2>1. rollback.pc \in Found /\ "branch" \notin BranchChecked
    BY <1>9 DEF CheckRoot, RollbackAt, Found, BranchChecked, Verifying
  <2>2. Continues([rollback EXCEPT !.pc = "branch"])
    BY <1>9 DEF CheckRoot
  <2> QED BY <1>5, <1>6, <1>7, <2>1, <2>2
<1>10. CASE CheckBranch
  <2>1. rollback.pc \in Found
    BY <1>10 DEF CheckBranch, RollbackAt, Found
  <2>2. Continues([rollback EXCEPT !.pc = "target"]) /\ repo.branch = rollback.snap.branch
    BY <1>10 DEF CheckBranch
  <2> QED BY <1>5, <1>6, <1>7, <2>1, <2>2
<1>11. seen.during = 0 /\ rollback.pc \in BranchChecked => repo.branch = rollback.snap.branch
  BY DEF RollbackKnows
<1>12. CASE CheckTarget
  <2>1. rollback.pc \in Found /\ rollback.pc \in BranchChecked
    BY <1>12 DEF CheckTarget, RollbackAt, Found, BranchChecked
  <2>2. Continues([rollback EXCEPT !.pc = "status"])
    BY <1>12 DEF CheckTarget
  <2> QED BY <1>5, <1>6, <1>7, <1>11, <2>1, <2>2
<1>13. CASE CheckStatus
  <2>1. rollback.pc \in Found /\ rollback.pc \in BranchChecked
    BY <1>13 DEF CheckStatus, RollbackAt, Found, BranchChecked
  <2>2. Continues([rollback EXCEPT !.pc = "reset"])
    BY <1>13 DEF CheckStatus
  <2> QED BY <1>5, <1>6, <1>7, <1>11, <2>1, <2>2
<1> QED BY <1>8, <1>9, <1>10, <1>12, <1>13


\* The steps that change the repository and verify the result keep it.
LEMMA RollbackEffectsKeep ==
    ASSUME SnapshotInvariant, Reset \/ GitClean \/ VerifyHead \/ VerifyBranch \/ VerifyStatus
    PROVE  SnapshotInvariant'
<1> USE DEF SnapshotInvariant
<1>1. /\ UNCHANGED <<rows, capture>> /\ repo \in Repo
      /\ rollback.pc \in {"reset"} \cup Verifying /\ rollback.pc \notin Resting
      /\ rollback.pc \in Found /\ rollback.pc \in BranchChecked
  BY DEF Reset, GitClean, VerifyHead, VerifyBranch, VerifyStatus, RollbackAt, SnapshotTypes,
         Resting, Verifying, Found, BranchChecked
<1>2. ASSUME NEW error, RollbackThrows(error), repo' \in Repo,
             seen' = seen \/ seen' = [seen EXCEPT !.resetOn = repo.branch]
      PROVE  SnapshotInvariant'
  BY <1>1, <1>2, RollbackThrowKeeps
<1>3. rollback = [pc |-> rollback.pc, id |-> rollback.id, snap |-> rollback.snap,
                  headOk |-> rollback.headOk, branchOk |-> rollback.branchOk]
  BY DEF SnapshotTypes
<1>4. /\ seen.quiet # <<>> /\ rollback.id = <<[text |-> NewId]>> => rollback.snap = rows[NewId]
      /\ seen.during = 0 => repo.branch = rollback.snap.branch
      /\ seen.during = 0 /\ rollback.pc \in Verifying => HeadOf(repo) = rollback.snap.head
      /\ seen.during \in Nat
  BY <1>1 DEF RollbackKnows, SnapshotTypes
<1>5. ASSUME NEW next, Continues(next), next.pc \in Verifying,
             next = [pc |-> next.pc, id |-> rollback.id, snap |-> rollback.snap,
                     headOk |-> next.headOk, branchOk |-> next.branchOk],
             repo' \in Repo, repo'.branch = repo.branch,
             seen.during = 0 => HeadOf(repo') = rollback.snap.head,
             seen' = seen \/ seen' = [seen EXCEPT !.resetOn = repo.branch],
             next.pc # "verifyStatus" =>
               \/ seen'.resetOn = rollback.snap.branch
               \/ seen.during >= 1 /\ (seen.during <= 1 => repo.branch = seen'.resetOn),
             next.pc = "verifyStatus" /\ next.branchOk /\ rollback.snap.branch # Detached
               => seen'.resetOn = rollback.snap.branch \/ seen.during >= 2
      PROVE  SnapshotInvariant'
  <2>1. rollback' = next /\ next.id = rollback.id /\ next.snap = rollback.snap
    BY <1>5 DEF Continues
  <2>2. seen'.during = seen.during /\ seen'.quiet = seen.quiet
    BY <1>5 DEF SnapshotTypes
  <2>3. next.pc \in Found
    BY <1>5 DEF Found, BranchChecked
  <2>4. RollbackKnows'
    BY <1>1, <1>4, <1>5, <2>1, <2>2 DEF RollbackKnows
  <2> QED BY <1>1, <1>5, <2>1, <2>3, <2>4, RollbackGoesKeeps
<1>6. CASE Reset
  <2>1. CASE /\ rollback.snap.head \in repo.objects /\ repo' = ResetTo(rollback.snap.head)
             /\ seen' = [seen EXCEPT !.resetOn = repo.branch]
    <3>1. rollback.snap.head \in Nat
      BY <1>1, <2>1 DEF Repo
    <3>2. repo' \in Repo /\ HeadOf(repo') = rollback.snap.head /\ repo'.branch = repo.branch
      BY <1>1, <2>1, <3>1, ResetMoves
    <3>3. seen'.resetOn = repo.branch
      BY <2>1 DEF SnapshotTypes
    <3>4. CASE \E error : RollbackThrows(error)
      BY <1>2, <2>1, <3>2, <3>4
    <3>5. CASE Continues([rollback EXCEPT !.pc = "clean"])
      <4> DEFINE next == [rollback EXCEPT !.pc = "clean"]
      <4>1. /\ next = [pc |-> next.pc, id |-> rollback.id, snap |-> rollback.snap,
                       headOk |-> next.headOk, branchOk |-> next.branchOk]
            /\ next.pc = "clean"
        BY <1>3
      <4> HIDE DEF next
      <4>2. Continues(next)
        BY <3>5 DEF next
      <4>3. "clean" \in Verifying /\ "clean" # "verifyStatus"
        BY DEF Verifying
      <4>4. \/ seen'.resetOn = rollback.snap.branch
            \/ seen.during >= 1 /\ (seen.during <= 1 => repo.branch = seen'.resetOn)
        BY <1>4, <3>3
      <4> QED BY <1>5, <2>1, <3>2, <4>1, <4>2, <4>3, <4>4
    <3> QED BY <1>6, <2>1, <3>4, <3>5 DEF Reset
  <2>2. CASE UNCHANGED <<repo, seen>> /\ RollbackThrows("git reset --hard failed")
    BY <1>1, <1>2, <2>2
  <2> QED BY <1>6, <2>1, <2>2 DEF Reset
<1>7. ASSUME NEW next, next.pc \in {"verifyHead", "verifyBranch"}, Continues(next), seen' = seen,
             next = [pc |-> next.pc, id |-> rollback.id, snap |-> rollback.snap,
                     headOk |-> next.headOk, branchOk |-> next.branchOk],
             rollback.pc \in {"clean", "verifyHead"},
             repo' \in Repo, HeadOf(repo') = HeadOf(repo), repo'.branch = repo.branch
      PROVE  SnapshotInvariant'
  <2>1. /\ next.pc \in Verifying /\ next.pc # "verifyStatus"
        /\ rollback.pc \in Verifying \ {"verifyStatus"}
    BY <1>7 DEF Verifying
  <2>2. \/ seen'.resetOn = rollback.snap.branch
        \/ seen.during >= 1 /\ (seen.during <= 1 => repo.branch = seen'.resetOn)
    BY <1>7, <2>1 DEF RollbackKnows
  <2>3. seen.during = 0 => HeadOf(repo') = rollback.snap.head
    BY <1>4, <1>7, <2>1
  <2> QED BY <1>5, <1>7, <2>1, <2>2, <2>3
<1>8. CASE GitClean
  <2>1. seen' = seen /\ rollback.pc = "clean"
    BY <1>8 DEF GitClean, RollbackAt
  <2>2. CASE repo' = CleanUntracked
    <3>1. repo' \in Repo /\ HeadOf(repo') = HeadOf(repo) /\ repo'.branch = repo.branch
      BY <1>1, <2>2, CleanKeepsHead
    <3>2. CASE \E error : RollbackThrows(error)
      BY <1>2, <2>1, <3>1, <3>2
    <3>3. CASE Continues([rollback EXCEPT !.pc = "verifyHead"])
      <4> DEFINE next == [rollback EXCEPT !.pc = "verifyHead"]
      <4>1. /\ next = [pc |-> next.pc, id |-> rollback.id, snap |-> rollback.snap,
                       headOk |-> next.headOk, branchOk |-> next.branchOk]
            /\ next.pc = "verifyHead"
        BY <1>3
      <4> HIDE DEF next
      <4>2. Continues(next)
        BY <3>3 DEF next
      <4> QED BY <1>7, <2>1, <3>1, <4>1, <4>2
    <3> QED BY <1>8, <2>2, <3>2, <3>3 DEF GitClean
  <2>3. CASE RollbackThrows("git clean -fd failed") /\ UNCHANGED repo
    BY <1>1, <1>2, <2>1, <2>3
  <2> QED BY <1>8, <2>2, <2>3 DEF GitClean
<1>9. CASE VerifyHead
  <2>1. seen' = seen /\ rollback.pc = "verifyHead" /\ repo' = repo
    BY <1>9 DEF VerifyHead, RollbackAt
  <2>2. PICK next : /\ Continues(next)
                    /\ \/ next = [rollback EXCEPT !.pc = "verifyBranch"]
                       \/ next = [rollback EXCEPT !.pc = "verifyBranch",
                                                  !.headOk = HeadOf(repo) = rollback.snap.head]
    BY <1>9 DEF VerifyHead
  <2>3. /\ next = [pc |-> next.pc, id |-> rollback.id, snap |-> rollback.snap,
                   headOk |-> next.headOk, branchOk |-> next.branchOk]
        /\ next.pc = "verifyBranch"
    BY <1>3, <2>2
  <2> QED BY <1>1, <1>7, <2>1, <2>2, <2>3
<1>10. CASE VerifyBranch
  <2>1. seen' = seen /\ rollback.pc = "verifyBranch" /\ repo' = repo
    BY <1>10 DEF VerifyBranch, RollbackAt
  <2>2. PICK observed \in {Detached, repo.branch} :
          Continues([rollback EXCEPT !.pc = "verifyStatus", !.branchOk = BranchMatches(observed)])
    BY <1>10 DEF VerifyBranch
  <2> DEFINE ok == observed = rollback.snap.branch
             next == [rollback EXCEPT !.pc = "verifyStatus", !.branchOk = ok]
  <2>3. Continues(next)
    BY <2>2 DEF BranchMatches
  <2>4. ok => observed = rollback.snap.branch
    OBVIOUS
  <2> HIDE DEF ok
  <2>5. /\ next = [pc |-> next.pc, id |-> rollback.id, snap |-> rollback.snap,
                   headOk |-> next.headOk, branchOk |-> next.branchOk]
        /\ next.pc = "verifyStatus" /\ next.branchOk = ok
    <3> DEFINE moved == [rollback EXCEPT !.pc = "verifyStatus"]
    <3>1. moved = [pc |-> "verifyStatus", id |-> rollback.id, snap |-> rollback.snap,
                   headOk |-> rollback.headOk, branchOk |-> rollback.branchOk]
      BY <1>3
    <3>2. next = [moved EXCEPT !.branchOk = ok]
      OBVIOUS
    <3> HIDE DEF moved
    <3>3. [moved EXCEPT !.branchOk = ok] =
            [pc |-> "verifyStatus", id |-> rollback.id, snap |-> rollback.snap,
             headOk |-> rollback.headOk, branchOk |-> ok]
      BY <3>1
    <3> HIDE DEF next
    <3> QED BY <3>2, <3>3
  <2> HIDE DEF next
  <2>6. rollback.pc \in Verifying \ {"verifyStatus"} /\ "verifyStatus" \in Verifying
    BY <2>1 DEF Verifying
  <2>7. \/ seen.resetOn = rollback.snap.branch
        \/ seen.during >= 1 /\ (seen.during <= 1 => repo.branch = seen.resetOn)
    BY <2>6 DEF RollbackKnows
  <2>8. next.branchOk /\ rollback.snap.branch # Detached
          => seen.resetOn = rollback.snap.branch \/ seen.during >= 2
    BY <1>4, <2>2, <2>4, <2>5, <2>7
  <2>9. seen.during = 0 => HeadOf(repo') = rollback.snap.head
    BY <1>4, <2>1, <2>6
  <2> QED BY <1>1, <1>5, <2>1, <2>3, <2>5, <2>6, <2>8, <2>9
<1>11. CASE VerifyStatus
  <2>1. seen' = seen /\ repo' = repo
    BY <1>11 DEF VerifyStatus
  <2>2. CASE RollbackThrows("GIT_ROLLBACK_VERIFICATION_FAILED")
    BY <1>1, <1>2, <2>1, <2>2
  <2> DEFINE output == [object |-> [clean |-> [boolean |-> TRUE]]]
  <2>3. CASE /\ rollback' = [rollback EXCEPT !.pc = "succeeded"]
             /\ steps' = Settle(2, "completed", output, Undefined)
    <3> HIDE DEF output
    <3>1. capture.pc = "idle" /\ Len(steps) = 2 /\ StepRows(steps)
      BY <1>1 DEF OneAtATime, SnapshotTypes
    <3>2. 2 \in 1..Len(steps) /\ 1 \in 1..Len(steps)
      BY <3>1
    <3>3. StepRows(steps') /\ Len(steps') = Len(steps) /\ steps'[1].status = steps[1].status
      BY <2>3, <3>1, <3>2, SettleRows
    <3>4. rollback' = [pc |-> "succeeded", id |-> rollback.id, snap |-> rollback.snap,
                       headOk |-> rollback.headOk, branchOk |-> rollback.branchOk]
      BY <1>3, <2>3
    <3>5. SnapshotTypes'
      BY <1>1, <2>1, <3>3, <3>4 DEF SnapshotTypes, Resting
    <3>6. OneAtATime'
      BY <1>1, <2>1, <3>1, <3>3, <3>4 DEF OneAtATime, Resting
    <3>7. CaptureKnows'
      BY <1>1, <2>1 DEF CaptureKnows
    <3> QED BY <3>4, <3>5, <3>6, <3>7 DEF RollbackKnows, Found, BranchChecked, Verifying
  <2> QED BY <1>11, <2>2, <2>3 DEF VerifyStatus
<1> QED BY <1>6, <1>8, <1>9, <1>10, <1>11

\* A deadline or a crash keeps the invariant.
LEMMA InterruptionKeeps ==
    ASSUME SnapshotInvariant, StepTimesOut \/ Crash
    PROVE  SnapshotInvariant'
<1> USE DEF SnapshotInvariant
<1>1. UNCHANGED <<repo, rows, seen>> /\ steps' = Unheard /\ StepRows(steps)
  BY DEF StepTimesOut, Crash, SnapshotTypes
<1>2. 1 \in 1..Len(steps)
  BY <1>1, FirstRow
<1>3. /\ StepRows(steps') /\ Len(steps') = Len(steps)
      /\ Busy(1) => Busy(1)'
      /\ steps[1].status \in {"completed", "outcome_unknown"} => steps'[1].status = steps[1].status
      /\ Len(steps) = 2 /\ Busy(2) => Busy(2)'
  BY <1>1, <1>2, UnheardRows DEF Busy
<1>4. CASE StepTimesOut
  <2>1. UNCHANGED <<capture, rollback>>
    BY <1>4 DEF StepTimesOut
  <2>2. SnapshotTypes'
    BY <1>1, <1>3, <2>1 DEF SnapshotTypes
  <2>3. OneAtATime'
    BY <1>1, <1>3, <2>1 DEF OneAtATime
  <2> QED BY <1>1, <2>1, <2>2, <2>3 DEF CaptureKnows, RollbackKnows
<1>5. CASE Crash
  <2>1. capture' = NoCapture /\ rollback' = NoRollback
    BY <1>5 DEF Crash
  <2>2. /\ capture' \in [pc : {"idle"} \cup Capturing, head : Nat, branch : CheckedOut]
        /\ capture'.pc = "idle" /\ rollback'.pc = "idle"
        /\ rollback' = [pc |-> rollback'.pc, id |-> rollback'.id, snap |-> rollback'.snap,
                        headOk |-> rollback'.headOk, branchOk |-> rollback'.branchOk]
    BY <2>1 DEF NoCapture, NoRollback, CheckedOut
  <2>3. SnapshotTypes'
    BY <1>1, <1>3, <2>2 DEF SnapshotTypes, Resting
  <2>4. OneAtATime'
    BY <1>1, <1>3, <2>2 DEF OneAtATime, Resting
  <2>5. CaptureKnows'
    BY <1>1, <2>2 DEF CaptureKnows
  <2> QED BY <2>2, <2>3, <2>4, <2>5 DEF RollbackKnows, Found, BranchChecked, Verifying
<1> QED BY <1>4, <1>5

\* Every step of the Task and of everybody else keeps the invariant.
LEMMA SnapshotStepKeeps ==
    SnapshotInvariant /\ [SnapshotStep \/ AnyStepTwo]_snapshotVars => SnapshotInvariant'
<1> SUFFICES ASSUME SnapshotInvariant, [SnapshotStep \/ AnyStepTwo]_snapshotVars
             PROVE  SnapshotInvariant'
  OBVIOUS
<1>1. CASE UNCHANGED snapshotVars
  BY <1>1 DEF snapshotVars, SnapshotInvariant, SnapshotTypes, OneAtATime, Busy, CaptureKnows,
     RollbackKnows
<1> QED BY <1>1, OthersKeep, CaptureKeeps, AppendKeeps, AnyStepTwoKeeps, RollbackChecksKeep,
        RollbackEffectsKeep, InterruptionKeeps DEF SnapshotStep, rollbackTaskSnapshot

\* Only the last verification reports success, and it has seen a clean worktree.
LEMMA SuccessIsVerified ==
    ASSUME SnapshotInvariant, [SnapshotStep \/ AnyStepTwo]_snapshotVars, RollbackSucceeds
    PROVE  rollback.pc = "verifyStatus" /\ rollback.branchOk /\ repo.dirt = {}
<1>1. rollback = [pc |-> rollback.pc, id |-> rollback.id, snap |-> rollback.snap,
                  headOk |-> rollback.headOk, branchOk |-> rollback.branchOk]
  BY DEF SnapshotInvariant, SnapshotTypes
<1>2. rollback' # rollback /\ rollback'.pc = "succeeded"
  BY DEF RollbackSucceeds
<1>3. \A error : ~RollbackThrows(error)
  BY <1>1, <1>2 DEF RollbackThrows
<1>4. ~(GitTool \/ Outside \/ captureTaskSnapshot \/ AppendStep \/ StepTimesOut)
  BY <1>2 DEF GitTool, gitCommit, gitBranch, gitInit, gitCheckout, gitAdd, gitClone, runGit, Moves,
     Outside, captureTaskSnapshot, CaptureStarts, ReadRoot, ReadHead, ReadBranch, ReadStatus,
     CaptureAt, AppendStep, StepTimesOut
<1>5. ~Crash /\ ~StepTwoUnresolved /\ \A arguments, declared : ~StepTwoRuns(arguments, declared)
  <2>1. ~Crash /\ ~StepTwoUnresolved
    BY <1>2 DEF Crash, StepTwoUnresolved, NoRollback
  <2>2. ASSUME NEW arguments, NEW declared, StepTwoRuns(arguments, declared) PROVE FALSE
    <3> DEFINE id == arguments.object.snapshotId
               chosen == IF IsString(id) THEN id.string ELSE <<>>
    <3>1. rollback' = [NoRollback EXCEPT !.pc = "find", !.id = chosen]
      BY <2>2 DEF StepTwoRuns
    <3> HIDE DEF chosen
    <3> QED BY <1>2, <3>1 DEF NoRollback
  <2> QED BY <2>1, <2>2
<1>6. ASSUME NEW next, Continues(next), next.pc # "succeeded" PROVE FALSE
  BY <1>2, <1>6 DEF Continues
<1>7. DOMAIN rollback = {"pc", "id", "snap", "headOk", "branchOk"}
  BY <1>1
<1>8. ASSUME NEW pc, NEW v, pc # "succeeded"
      PROVE  /\ ~Continues([rollback EXCEPT !.pc = pc])
             /\ ~Continues([rollback EXCEPT !.pc = pc, !.snap = v])
             /\ ~Continues([rollback EXCEPT !.pc = pc, !.headOk = v])
             /\ ~Continues([rollback EXCEPT !.pc = pc, !.branchOk = v])
  <2>1. [rollback EXCEPT !.pc = pc].pc = pc
    BY <1>7
  <2>2. [rollback EXCEPT !.pc = pc, !.snap = v].pc = pc
    BY <1>7
  <2>3. [rollback EXCEPT !.pc = pc, !.headOk = v].pc = pc
    BY <1>7
  <2>4. [rollback EXCEPT !.pc = pc, !.branchOk = v].pc = pc
    BY <1>7
  <2> QED BY <1>6, <1>8, <2>1, <2>2, <2>3, <2>4, Zenon
<1>9. VerifyStatus
  <2>1. ~FindSnapshot
    BY <1>3, <1>8 DEF FindSnapshot
  <2>2. ~CheckRoot /\ ~CheckBranch /\ ~CheckTarget /\ ~CheckStatus
    BY <1>3, <1>8 DEF CheckRoot, CheckBranch, CheckTarget, CheckStatus
  <2>3. ~Reset /\ ~GitClean
    BY <1>3, <1>8 DEF Reset, GitClean
  <2>4. ~VerifyHead /\ ~VerifyBranch
    BY <1>8 DEF VerifyHead, VerifyBranch
  <2>5. ~UNCHANGED snapshotVars
    BY <1>2 DEF snapshotVars
  <2> QED BY <1>4, <1>5, <2>1, <2>2, <2>3, <2>4, <2>5 DEF SnapshotStep, AnyStepTwo,
          rollbackTaskSnapshot
<1> QED BY <1>3, <1>9 DEF VerifyStatus, RollbackAt, Clean

\* A capture and a later rollback that nobody interferes with are a round trip:
\* the branch, its commit and the worktree are what the capture found, for any
\* repository, any rows already stored and any arguments of the second step.
THEOREM RoundTripRestoresTheorem == SnapshotSpec => RoundTripRestores
<1>1. SnapshotInvariant /\ [SnapshotStep \/ AnyStepTwo]_snapshotVars =>
        [\A i \in DOMAIN seen.quiet :
           RollbackSucceeds /\ seen.during = 0 /\ rollback.id = <<[text |-> i]>>
             => Visible(repo) = seen.quiet[i]]_snapshotVars
  <2> SUFFICES ASSUME SnapshotInvariant, [SnapshotStep \/ AnyStepTwo]_snapshotVars,
                      NEW i \in DOMAIN seen.quiet, RollbackSucceeds, seen.during = 0,
                      rollback.id = <<[text |-> i]>>
               PROVE  Visible(repo) = seen.quiet[i]
    OBVIOUS
  <2>1. rollback.pc = "verifyStatus" /\ repo.dirt = {}
    BY SuccessIsVerified
  <2>2. i = NewId /\ seen.quiet # <<>> /\ seen.quiet[i] \in View
    BY DEF SnapshotInvariant, SnapshotTypes
  <2>3. "verifyStatus" \in Found /\ "verifyStatus" \in BranchChecked /\ "verifyStatus" \in Verifying
    BY DEF Found, BranchChecked, Verifying
  <2>4. /\ HeadOf(repo) = rollback.snap.head /\ repo.branch = rollback.snap.branch
        /\ rollback.snap = rows[NewId]
    BY <2>1, <2>2, <2>3 DEF SnapshotInvariant, RollbackKnows
  <2>5. /\ HeadOf(repo) = seen.quiet[i].head /\ repo.branch = seen.quiet[i].branch
        /\ repo.dirt = seen.quiet[i].dirt
    BY <2>1, <2>2, <2>4 DEF SnapshotInvariant, CaptureKnows
  <2> QED BY <2>2, <2>5 DEF Visible, View
<1> QED BY <1>1, SnapshotInvariantInit, SnapshotStepKeeps, PTL DEF SnapshotSpec, RoundTripRestores

\* One change by another party during a rollback cannot make it report success
\* for a branch other than the snapshot's.
THEOREM OneMoveDetectedTheorem == SnapshotSpec => OneMoveDetected
<1>1. SnapshotInvariant /\ [SnapshotStep \/ AnyStepTwo]_snapshotVars =>
        [RollbackSucceeds /\ seen.during <= 1 /\ rollback.snap.branch # Detached
           => seen.resetOn = rollback.snap.branch]_snapshotVars
  <2> SUFFICES ASSUME SnapshotInvariant, [SnapshotStep \/ AnyStepTwo]_snapshotVars,
                      RollbackSucceeds, seen.during <= 1, rollback.snap.branch # Detached
               PROVE  seen.resetOn = rollback.snap.branch
    OBVIOUS
  <2>1. rollback.pc = "verifyStatus" /\ rollback.branchOk
    BY SuccessIsVerified
  <2>2. seen.resetOn = rollback.snap.branch \/ seen.during >= 2
    BY <2>1 DEF SnapshotInvariant, RollbackKnows
  <2>3. seen.during \in Nat
    BY DEF SnapshotInvariant, SnapshotTypes
  <2> QED BY <2>2, <2>3
<1> QED BY <1>1, SnapshotInvariantInit, SnapshotStepKeeps, PTL DEF SnapshotSpec, OneMoveDetected
=============================================================================
