--------------------------- MODULE ContextOwnership ---------------------------
(***************************************************************************)
(* Who owns a Context: its ownership_lease row, the workers that hold a    *)
(* copy of it, the owner-approved handoff that rebinds it, and the Tasks   *)
(* whose side effects are fenced by it.                                    *)
(*                                                                         *)
(* One Context.  SQLite makes each statement or transaction atomic; several*)
(* processes share the database, so their statements interleave.  A lease  *)
(* deadline is the Boolean "live": it is later than now.  A fencing token  *)
(* is a fresh UUID, modelled by the epoch it was minted for.  The Context  *)
(* row is ACTIVE outside a commit's own transaction, and nothing in the    *)
(* program changes its context_epoch.                                      *)
(***************************************************************************)
EXTENDS Integers, FiniteSets

CONSTANTS
  Binding,     \* context_binding rows of the Context
  Worker,      \* holders of a copy of the lease
  Console,     \* operator requests under /admin/transfer
  Intent,      \* handoff_intent ids
  Task,        \* ids of Tasks created under the Context
  MaxEpoch,    \* bound on the lease epoch
  None         \* no row, no copy

ASSUME MaxEpochAssumption == MaxEpoch \in Nat \ {0}
ASSUME FiniteIntents == IsFiniteSet(Intent)
ASSUME NoneAssumption ==
  /\ None \notin [owner : Binding, epoch : 1..MaxEpoch, token : 1..MaxEpoch]
  /\ None \notin [owner : Binding, epoch : 1..MaxEpoch, token : 1..MaxEpoch, live : BOOLEAN]

VARIABLES
  lease,       \* the ownership_lease row
  worker,      \* per worker: what it does and the lease copy it holds
  intents,     \* the handoff_intent rows
  console,     \* per operator request: what it has read and does next
  tasks        \* the ownership each Task recorded, and whether it took effect

vars == <<lease, worker, intents, console, tasks>>

Epoch == 1..MaxEpoch
Held == [owner : Binding, epoch : Epoch, token : Epoch]
LeaseRow == [owner : Binding, epoch : Epoch, token : Epoch, live : BOOLEAN]

Open == {"PREPARED", "APPROVED", "DRAINING"}
IntentState == Open \cup {"COMMITTED", "CANCELLED", "EXPIRED", "FAILED"}

TransferIntent == [state : IntentState, epoch : Epoch, binding : Binding, expired : BOOLEAN]

WorkerState == [pc : {"idle", "reading"}, held : Held \cup {None}]

\* An operator request between two of its statements, with what it has read.
Idle == [pc |-> "idle"]
Preparing == [pc : {"preparing"}, epoch : Epoch, binding : Binding]
Committing == [pc : {"committing"}, intent : Intent, binding : Binding]
Terminating == [pc : {"terminating"}, intent : Intent, next : {"FAILED", "CANCELLED"}]
ConsoleState == {Idle} \cup Preparing \cup Committing \cup Terminating

\* The ownership a Task recorded; born counts the transfers committed before it.
TaskOwnership == [binding : Binding, epoch : Epoch, born : 0..Cardinality(Intent), begun : BOOLEAN]

TypeOK ==
  /\ lease \in LeaseRow \cup {None}
  /\ worker \in [Worker -> WorkerState]
  /\ intents \in [Intent -> TransferIntent \cup {None}]
  /\ console \in [Console -> ConsoleState]
  /\ tasks \in [Task -> TaskOwnership \cup {None}]

HasLease == lease # None
Exists(i) == intents[i] # None
Committed == {i \in Intent : Exists(i) /\ intents[i].state = "COMMITTED"}

Init ==
  /\ lease = None
  /\ worker = [w \in Worker |-> [pc |-> "idle", held |-> None]]
  /\ intents = [i \in Intent |-> None]
  /\ console = [c \in Console |-> Idle]
  /\ tasks = [t \in Task |-> None]

-----------------------------------------------------------------------------
(* The lease adapter *)

\* acquireOwnershipLease's upsert: the first lease, or one past its deadline.
AcquireOwnershipLease(w, b) ==
  /\ worker[w].pc = "idle"
  /\ HasLease => ~lease.live /\ lease.epoch < MaxEpoch
  /\ LET e == IF HasLease THEN lease.epoch + 1 ELSE 1 IN
     lease' = [owner |-> b, epoch |-> e, token |-> e, live |-> TRUE]
  /\ worker' = [worker EXCEPT ![w].pc = "reading"]
  /\ UNCHANGED <<intents, console, tasks>>

\* advanceOwnershipEpoch: compare and swap on the epoch and binding of the copy,
\* whatever the deadline; the caller supplies the token, a new one or the old.
AdvanceOwnershipEpoch(w, token) ==
  LET h == worker[w].held IN
  /\ worker[w].pc = "idle" /\ h # None
  /\ HasLease /\ lease.owner = h.owner /\ lease.epoch = h.epoch
  /\ lease.epoch < MaxEpoch
  /\ lease' = [lease EXCEPT !.epoch = @ + 1, !.token = token, !.live = TRUE]
  /\ worker' = [worker EXCEPT ![w].pc = "reading"]
  /\ UNCHANGED <<intents, console, tasks>>

\* readLeaseOrThrow: a statement of its own, after the write above.  Whatever the
\* row holds by then is what the caller gets.
ReadLease(w) ==
  /\ worker[w].pc = "reading" /\ HasLease
  /\ worker' = [worker EXCEPT ![w] =
       [pc |-> "idle", held |-> [owner |-> lease.owner, epoch |-> lease.epoch,
                                 token |-> lease.token]]]
  /\ UNCHANGED <<lease, intents, console, tasks>>

\* releaseOwnershipLease: the deadline is set to now; the copy stays with the caller.
ReleaseOwnershipLease(w) ==
  LET h == worker[w].held IN
  /\ worker[w].pc = "idle" /\ h # None
  /\ HasLease /\ lease.owner = h.owner /\ lease.token = h.token /\ lease.live
  /\ lease' = [lease EXCEPT !.live = FALSE]
  /\ UNCHANGED <<worker, intents, console, tasks>>

\* Time passes the deadline.
LeaseLapses ==
  /\ HasLease /\ lease.live
  /\ lease' = [lease EXCEPT !.live = FALSE]
  /\ UNCHANGED <<worker, intents, console, tasks>>

CanWrite_NoEpoch(w) ==
  LET h == worker[w].held IN
  /\ h # None /\ HasLease
  /\ lease.owner = h.owner /\ lease.token = h.token /\ lease.live

\* assertOwnershipWrite lets the worker's side effect through.
CanWrite(w) ==
  LET h == worker[w].held IN
  /\ h # None /\ HasLease
  /\ lease.owner = h.owner /\ lease.epoch = h.epoch /\ lease.token = h.token /\ lease.live

\* transferContextOwnership: the row as it moves to another binding.
transferContextOwnership(b) ==
  [owner |-> b, epoch |-> lease.epoch + 1, token |-> lease.epoch + 1, live |-> TRUE]

-----------------------------------------------------------------------------
(* The handoff: prepare, approve, commit, cancel *)

hasOpenIntent == \E i \in Intent : Exists(i) /\ intents[i].state \in Open

\* prepareHandoff reads the lease and looks for an open intent ...
PrepareRead(c, b) ==
  /\ console[c] = Idle
  /\ HasLease /\ ~hasOpenIntent
  /\ console' = [console EXCEPT ![c] =
       [pc |-> "preparing", epoch |-> lease.epoch, binding |-> b]]
  /\ UNCHANGED <<lease, worker, intents, tasks>>

\* createTransferIntent: bound to the epoch and the binding that were read.
createTransferIntent(e, b) == [state |-> "PREPARED", epoch |-> e, binding |-> b, expired |-> FALSE]

insertIntent(i, intent) == intents' = [intents EXCEPT ![i] = intent]

\* ... and inserts the intent it has built from what it read.
InsertIntent(c, i) ==
  /\ console[c].pc = "preparing" /\ ~Exists(i)
  /\ insertIntent(i, createTransferIntent(console[c].epoch, console[c].binding))
  /\ console' = [console EXCEPT ![c] = Idle]
  /\ UNCHANGED <<lease, worker, tasks>>

\* approveIntent, one transaction: the owner's ticket matches and has not expired.
ApproveIntent(i) ==
  /\ Exists(i) /\ intents[i].state = "PREPARED" /\ ~intents[i].expired
  /\ intents' = [intents EXCEPT ![i].state = "APPROVED"]
  /\ UNCHANGED <<lease, worker, console, tasks>>

\* The intent's fifteen minutes are over.  Only approval looks at that.
IntentExpires(i) ==
  /\ Exists(i) /\ intents[i].state = "PREPARED" /\ ~intents[i].expired
  /\ intents' = [intents EXCEPT ![i].expired = TRUE]
  /\ UNCHANGED <<lease, worker, console, tasks>>

Current(i) == lease.epoch = intents[i].epoch /\ lease.owner = intents[i].binding

\* commitTransfer's pre-flight, outside its transaction: go on ...
CommitPreflight(c, i, b) ==
  /\ console[c] = Idle
  /\ Exists(i) /\ intents[i].state = "APPROVED" /\ HasLease /\ Current(i)
  /\ console' = [console EXCEPT ![c] = [pc |-> "committing", intent |-> i, binding |-> b]]
  /\ UNCHANGED <<lease, worker, intents, tasks>>

\* ... or fail the stale intent.
CommitStale(c, i) ==
  /\ console[c] = Idle
  /\ Exists(i) /\ intents[i].state = "APPROVED" /\ HasLease /\ ~Current(i)
  /\ console' = [console EXCEPT ![c] = [pc |-> "terminating", intent |-> i, next |-> "FAILED"]]
  /\ UNCHANGED <<lease, worker, intents, tasks>>

CommitTransfer_SameEpoch(c) ==
  LET i == console[c].intent  b == console[c].binding IN
  /\ console[c].pc = "committing"
  /\ intents[i].state = "APPROVED" /\ lease.owner # b
  /\ lease' = [lease EXCEPT !.owner = b, !.live = TRUE]
  /\ intents' = [intents EXCEPT ![i].state = "COMMITTED"]
  /\ console' = [console EXCEPT ![c] = Idle]
  /\ UNCHANGED <<worker, tasks>>

\* The transaction: the intent is still approved; the lease as it is by now moves
\* to the new binding with the next epoch; the Context is ACTIVE again.
CommitTransfer(c) ==
  LET i == console[c].intent  b == console[c].binding IN
  /\ console[c].pc = "committing"
  /\ Exists(i) /\ intents[i].state = "APPROVED"
  /\ HasLease /\ lease.owner # b /\ lease.epoch < MaxEpoch
  /\ lease' = transferContextOwnership(b)
  /\ intents' = [intents EXCEPT ![i].state = "COMMITTED"]
  /\ console' = [console EXCEPT ![c] = Idle]
  /\ UNCHANGED <<worker, tasks>>

\* The intent has moved, or the Context is the target's already: everything is
\* rolled back.
CommitAborts(c) ==
  LET i == console[c].intent  b == console[c].binding IN
  /\ console[c].pc = "committing"
  /\ intents[i].state # "APPROVED" \/ lease.owner = b
  /\ console' = [console EXCEPT ![c] = Idle]
  /\ UNCHANGED <<lease, worker, intents, tasks>>

\* cancelHandoff reads an intent that is not terminal ...
CancelRead(c, i) ==
  /\ console[c] = Idle
  /\ Exists(i) /\ intents[i].state \in Open
  /\ console' = [console EXCEPT ![c] = [pc |-> "terminating", intent |-> i, next |-> "CANCELLED"]]
  /\ UNCHANGED <<lease, worker, intents, tasks>>

\* ... and terminateIntent ends it, unless it is terminal by now.
TerminateIntent(c) ==
  LET i == console[c].intent IN
  /\ console[c].pc = "terminating"
  /\ intents' = IF Exists(i) /\ intents[i].state \in Open
                THEN [intents EXCEPT ![i].state = console[c].next] ELSE intents
  /\ console' = [console EXCEPT ![c] = Idle]
  /\ UNCHANGED <<lease, worker, tasks>>

\* The process dies between two statements of a request.
ConsoleCrash(c) ==
  /\ console[c] # Idle
  /\ console' = [console EXCEPT ![c] = Idle]
  /\ UNCHANGED <<lease, worker, intents, tasks>>

-----------------------------------------------------------------------------
(* Tasks *)

\* context_registry.context_epoch: inserted as 1, written by nobody.
RegistryEpoch == 1

\* A request of binding b, resolved to the Context, creates a Task: the epoch it
\* records is the one of the Context row.
CreateTask(t, b) ==
  /\ tasks[t] = None
  /\ tasks' = [tasks EXCEPT ![t] =
       [binding |-> b, epoch |-> RegistryEpoch, born |-> Cardinality(Committed), begun |-> FALSE]]
  /\ UNCHANGED <<lease, worker, intents, console>>

checkOwnershipFence_OwnerOnly(t) ==
  HasLease /\ lease.owner = tasks[t].binding /\ lease.live

\* checkOwnershipFence: the live lease is the one the Task recorded.
checkOwnershipFence(t) ==
  HasLease /\ lease.epoch = tasks[t].epoch /\ lease.owner = tasks[t].binding /\ lease.live

\* beginStepExecutionReceipt: the fence and the receipt are one transaction.
BeginEffect(t) ==
  /\ tasks[t] # None /\ ~tasks[t].begun /\ checkOwnershipFence(t)
  /\ tasks' = [tasks EXCEPT ![t].begun = TRUE]
  /\ UNCHANGED <<lease, worker, intents, console>>

Next ==
  \/ \E w \in Worker :
       \/ \E b \in Binding : AcquireOwnershipLease(w, b)
       \/ HasLease /\ \E token \in {lease.token, lease.epoch + 1} : AdvanceOwnershipEpoch(w, token)
       \/ ReadLease(w) \/ ReleaseOwnershipLease(w)
  \/ LeaseLapses
  \/ \E c \in Console :
       \/ \E b \in Binding : PrepareRead(c, b)
       \/ \E i \in Intent : InsertIntent(c, i) \/ CommitStale(c, i) \/ CancelRead(c, i)
       \/ \E i \in Intent, b \in Binding : CommitPreflight(c, i, b)
       \/ CommitTransfer(c) \/ CommitAborts(c) \/ TerminateIntent(c) \/ ConsoleCrash(c)
  \/ \E i \in Intent : ApproveIntent(i) \/ IntentExpires(i)
  \/ \E t \in Task : BeginEffect(t) \/ \E b \in Binding : CreateTask(t, b)

Spec == Init /\ [][Next]_vars

-----------------------------------------------------------------------------
(* Properties *)

\* An epoch names one owner: two workers whose copies carry the same epoch got
\* them from the same ownership, however leases were acquired, advanced, released
\* and transferred in between; so does the row.
EpochNamesOneOwner ==
  \A w \in Worker : worker[w].held # None =>
    /\ HasLease /\ worker[w].held.epoch <= lease.epoch
    /\ worker[w].held.epoch = lease.epoch => worker[w].held.owner = lease.owner
    /\ \A v \in Worker :
         worker[v].held # None /\ worker[v].held.epoch = worker[w].held.epoch
         => worker[v].held.owner = worker[w].held.owner

LeftBehind(w) == HasLease /\ worker[w].held # None /\ worker[w].held.epoch # lease.epoch

\* "a worker that lost the race cannot regain authority": a copy that the row has
\* left behind is never accepted again, also when its binding owns the Context anew.
FencedStaysFenced ==
  [][\A w \in Worker : LeftBehind(w) /\ worker'[w].held = worker[w].held => ~CanWrite(w)']_vars

\* A live lease changes hands only by a commit of an approved intent.
LiveLeaseMovesByCommit ==
  [][HasLease /\ lease.live /\ lease'.owner # lease.owner =>
       \E i \in Intent : /\ Exists(i) /\ intents[i].state = "APPROVED"
                         /\ intents'[i].state = "COMMITTED"]_vars

\* "every Task it created recorded the old epoch, so the fence refuses its next
\* side effect": no Task takes effect once a transfer has been committed after its
\* creation, even if the Context comes back to the binding that created it.
TransferFencesOldTasks ==
  [][\A t \in Task : tasks[t] # None /\ tasks'[t] # tasks[t] =>
       tasks[t].born = Cardinality(Committed)]_vars

\* "Terminal states are final": whatever approvals, commits and cancels race, an
\* intent that was committed, cancelled or failed stays so.
TerminalIntentsFinal ==
  [][\A i \in Intent : Exists(i) /\ intents[i].state \notin Open =>
       intents'[i] = intents[i]]_vars

====
