------------------------ MODULE ContextWorkspaceProofs ------------------------
(***************************************************************************)
(* Proofs about who owns a Context and which directory a call may touch.   *)
(*                                                                         *)
(* ContextOwnership, for any number of bindings, workers, operator         *)
(* requests, intents, Tasks and epochs.  The inductive invariant has three *)
(* parts: types; an epoch names one owner (copies never run ahead of the   *)
(* row, and agree with it and each other); and a committed transfer has    *)
(* moved the row past its first epoch, which is the one every Task records.*)
(*                                                                         *)
(* WorkspacePool, for any finite set of directories, any chats, principals,*)
(* caps and bounds.  The inductive invariant: types; the handle a chat     *)
(* holds is one for the project it asked for, whatever has become of the   *)
(* handle since; the scope of the call resolved last; and the pool inside  *)
(* the stored roots.                                                       *)
(***************************************************************************)
EXTENDS ContextOwnership, WorkspacePool, FiniteSetTheorems, TLAPS

\* The number of committed transfers is a natural number up to the number of intents.
LEMMA CommittedCount ==
  Cardinality(Committed) \in 0..Cardinality(Intent)
<1>1. Committed \subseteq Intent
  BY DEF Committed
<1>2. /\ IsFiniteSet(Committed)
      /\ Cardinality(Committed) <= Cardinality(Intent)
  BY <1>1, FiniteIntents, FS_Subset
<1>3. Cardinality(Committed) \in Nat /\ Cardinality(Intent) \in Nat
  BY <1>2, FiniteIntents, FS_CardinalityType
<1> QED  BY <1>2, <1>3

\* None is neither a lease row nor a copy of one, so a lease that exists has fields.
LEMMA LeaseFields ==
  ASSUME TypeOK, HasLease
  PROVE  lease \in LeaseRow /\ lease.owner \in Binding /\ lease.epoch \in Epoch
         /\ lease.token \in Epoch /\ lease.live \in BOOLEAN
BY DEF TypeOK, HasLease, LeaseRow

\* What an operator request between two statements carries.
LEMMA ConsoleFields ==
  ASSUME TypeOK, NEW c \in Console
  PROVE  /\ console[c].pc = "preparing" => console[c].epoch \in Epoch /\ console[c].binding \in Binding
         /\ console[c].pc = "committing" => console[c].intent \in Intent /\ console[c].binding \in Binding
         /\ console[c].pc = "terminating" =>
              console[c].intent \in Intent /\ console[c].next \in {"FAILED", "CANCELLED"}
BY DEF TypeOK, ConsoleState, Idle, Preparing, Committing, Terminating

-----------------------------------------------------------------------------
(* What one step does to the row and to the copies of it *)

\* The lease row a step leaves: the same, the first one, one with the next epoch,
\* or one of the same ownership.
RowMoves ==
  \/ lease' = lease
  \/ lease = None /\ lease' \in LeaseRow
  \/ HasLease /\ lease' \in LeaseRow /\ lease'.epoch = lease.epoch + 1
  \/ HasLease /\ lease' \in LeaseRow /\ lease'.epoch = lease.epoch /\ lease'.owner = lease.owner

\* A step keeps a worker's copy or takes it from the row it leaves alone.
CopyMoves(w) ==
  \/ worker'[w].held = worker[w].held
  \/ /\ HasLease /\ lease' = lease
     /\ worker'[w].held = [owner |-> lease.owner, epoch |-> lease.epoch, token |-> lease.token]

\* A lease of another binding replaces a live one only in a commit.
OwnerMoves ==
  HasLease /\ lease.live /\ lease'.owner # lease.owner =>
    \E i \in Intent : /\ Exists(i) /\ intents[i].state = "APPROVED"
                      /\ intents'[i].state = "COMMITTED"

\* Acquiring moves the row by one epoch, and only a row past its deadline.
LEMMA AcquireMoves ==
  ASSUME TypeOK, NEW w \in Worker, NEW b \in Binding, AcquireOwnershipLease(w, b)
  PROVE  RowMoves /\ OwnerMoves
<1> USE MaxEpochAssumption DEF Epoch
<1>1. CASE ~HasLease
  BY <1>1 DEF AcquireOwnershipLease, HasLease, LeaseRow, RowMoves, OwnerMoves
<1>2. CASE HasLease
  BY <1>2, LeaseFields DEF AcquireOwnershipLease, LeaseRow, RowMoves, OwnerMoves
<1> QED  BY <1>1, <1>2

\* Advancing moves the row by one epoch under the same binding.
LEMMA AdvanceMoves ==
  ASSUME TypeOK, HasLease, NEW w \in Worker, NEW token \in {lease.token, lease.epoch + 1},
         AdvanceOwnershipEpoch(w, token)
  PROVE  RowMoves /\ OwnerMoves
<1> USE MaxEpochAssumption DEF Epoch
<1>1. token \in Epoch /\ lease.epoch + 1 \in Epoch
  BY LeaseFields DEF AdvanceOwnershipEpoch
<1>2. lease' \in LeaseRow /\ lease'.epoch = lease.epoch + 1 /\ lease'.owner = lease.owner
  BY <1>1, LeaseFields, Zenon DEF AdvanceOwnershipEpoch, LeaseRow
<1> QED  BY <1>2 DEF RowMoves, OwnerMoves

\* Releasing a lease and letting it lapse keep its ownership.
LEMMA ReleaseMoves ==
  ASSUME TypeOK, LeaseLapses \/ \E w \in Worker : ReleaseOwnershipLease(w)
  PROVE  RowMoves /\ OwnerMoves
<1>1. HasLease /\ lease' = [lease EXCEPT !.live = FALSE]
  BY DEF LeaseLapses, ReleaseOwnershipLease
<1>2. lease' \in LeaseRow /\ lease'.epoch = lease.epoch /\ lease'.owner = lease.owner
  BY <1>1, LeaseFields, Zenon DEF LeaseRow
<1> QED  BY <1>1, <1>2 DEF RowMoves, OwnerMoves

\* A commit moves the row by one epoch, with an approved intent.
LEMMA CommitMoves ==
  ASSUME TypeOK, NEW c \in Console, CommitTransfer(c)
  PROVE  RowMoves /\ OwnerMoves
<1> USE MaxEpochAssumption DEF Epoch
<1>1. console[c].intent \in Intent /\ console[c].binding \in Binding
  BY ConsoleFields DEF CommitTransfer
<1>2. HasLease /\ lease' \in LeaseRow /\ lease'.epoch = lease.epoch + 1
  BY <1>1, LeaseFields DEF CommitTransfer, transferContextOwnership, LeaseRow
<1>3. LET i == console[c].intent IN
      Exists(i) /\ intents[i].state = "APPROVED" /\ intents'[i].state = "COMMITTED"
  BY <1>1 DEF CommitTransfer, TypeOK, Exists, TransferIntent
<1> QED  BY <1>1, <1>2, <1>3 DEF RowMoves, OwnerMoves

\* The steps of Next that leave the row alone.
LEMMA OtherMoves ==
  ASSUME UNCHANGED lease
  PROVE  RowMoves /\ OwnerMoves
BY DEF RowMoves, OwnerMoves

\* Every step of the specification moves the row and the copies in these ways.
LEMMA StepMoves ==
  ASSUME TypeOK, [Next]_vars
  PROVE  RowMoves /\ OwnerMoves /\ \A w \in Worker : CopyMoves(w)
<1>1. RowMoves /\ OwnerMoves
  <2>1. CASE \E w \in Worker, b \in Binding : AcquireOwnershipLease(w, b)
    BY <2>1, AcquireMoves
  <2>2. CASE HasLease /\ \E w \in Worker : \E token \in {lease.token, lease.epoch + 1} :
               AdvanceOwnershipEpoch(w, token)
    BY <2>2, AdvanceMoves
  <2>3. CASE LeaseLapses \/ \E w \in Worker : ReleaseOwnershipLease(w)
    BY <2>3, ReleaseMoves
  <2>4. CASE \E c \in Console : CommitTransfer(c)
    BY <2>4, CommitMoves
  <2>5. CASE UNCHANGED lease
    BY <2>5, OtherMoves
  <2> QED
    BY <2>1, <2>2, <2>3, <2>4, <2>5, Zenon DEF Next, vars, ReadLease, PrepareRead, InsertIntent, insertIntent, createTransferIntent,
       ApproveIntent, IntentExpires, CommitPreflight, CommitStale, CommitAborts, CancelRead,
       TerminateIntent, ConsoleCrash, CreateTask, BeginEffect
<1>2. ASSUME NEW w \in Worker PROVE CopyMoves(w)
  <2>1. CASE \E v \in Worker : ReadLease(v)
    BY <2>1 DEF ReadLease, CopyMoves, TypeOK, WorkerState
  <2>2. CASE \E v \in Worker : worker' = [worker EXCEPT ![v].pc = "reading"]
    BY <2>2 DEF CopyMoves, TypeOK, WorkerState
  <2>3. CASE UNCHANGED worker
    BY <2>3, SMTT(30) DEF CopyMoves
  <2> QED
    BY <2>1, <2>2, <2>3, Zenon DEF Next, vars, AcquireOwnershipLease, AdvanceOwnershipEpoch,
       ReleaseOwnershipLease, LeaseLapses, PrepareRead, InsertIntent, insertIntent, createTransferIntent, ApproveIntent, IntentExpires,
       CommitPreflight, CommitStale, CommitTransfer, CommitAborts, CancelRead, TerminateIntent,
       ConsoleCrash, CreateTask, BeginEffect
<1> QED  BY <1>1, <1>2

-----------------------------------------------------------------------------
(* Types *)

\* Each step keeps the workers' states typed.
LEMMA WorkerType ==
  ASSUME TypeOK, [Next]_vars
  PROVE  worker' \in [Worker -> WorkerState]
<1>1. CASE \E v \in Worker : ReadLease(v)
  <2>1. PICK v \in Worker : ReadLease(v)
    BY <1>1
  <2>2. [owner |-> lease.owner, epoch |-> lease.epoch, token |-> lease.token] \in Held
    BY <2>1, LeaseFields DEF ReadLease, Held
  <2> QED  BY <2>1, <2>2 DEF ReadLease, TypeOK, WorkerState
<1>2. CASE \E v \in Worker : worker' = [worker EXCEPT ![v].pc = "reading"]
  BY <1>2 DEF TypeOK, WorkerState
<1>3. CASE UNCHANGED worker
  BY <1>3 DEF TypeOK
<1> QED
  BY <1>1, <1>2, <1>3, Zenon DEF Next, vars, AcquireOwnershipLease, AdvanceOwnershipEpoch,
     ReleaseOwnershipLease, LeaseLapses, PrepareRead, InsertIntent, insertIntent, createTransferIntent, ApproveIntent, IntentExpires,
     CommitPreflight, CommitStale, CommitTransfer, CommitAborts, CancelRead, TerminateIntent,
     ConsoleCrash, CreateTask, BeginEffect

\* What one step does to an intent: nothing, insert it, or change an open one.
IntentMoves(i) ==
  \/ intents'[i] = intents[i]
  \/ ~Exists(i) /\ intents'[i] \in TransferIntent /\ intents'[i].state = "PREPARED"
  \/ /\ Exists(i) /\ intents[i].state \in Open /\ intents'[i] \in TransferIntent
     /\ intents'[i].state = "COMMITTED" => \E c \in Console : CommitTransfer(c)

\* Each step keeps the intents typed and moves each of them in these ways.
LEMMA IntentStep ==
  ASSUME TypeOK, [Next]_vars
  PROVE  /\ intents' \in [Intent -> TransferIntent \cup {None}]
         /\ \A i \in Intent : IntentMoves(i)
<1>1. CASE UNCHANGED intents
  BY <1>1 DEF TypeOK, IntentMoves
<1>2. ASSUME NEW c \in Console, NEW i \in Intent, InsertIntent(c, i)
      PROVE  intents' \in [Intent -> TransferIntent \cup {None}] /\ \A j \in Intent : IntentMoves(j)
  <2>1. [state |-> "PREPARED", epoch |-> console[c].epoch, binding |-> console[c].binding,
         expired |-> FALSE] \in TransferIntent
    BY <1>2, ConsoleFields DEF InsertIntent, insertIntent, createTransferIntent, TransferIntent, IntentState, Open
  <2> QED  BY <1>2, <2>1, Zenon DEF InsertIntent, insertIntent, createTransferIntent, TypeOK, IntentMoves
<1>3. ASSUME NEW i \in Intent, Exists(i), intents[i].state \in Open, NEW s \in IntentState,
             intents' = [intents EXCEPT ![i].state = s],
             s = "COMMITTED" => \E c \in Console : CommitTransfer(c)
      PROVE  intents' \in [Intent -> TransferIntent \cup {None}] /\ \A j \in Intent : IntentMoves(j)
  <2>1. intents[i] \in TransferIntent
    BY <1>3 DEF TypeOK, Exists
  <2>2. [intents[i] EXCEPT !.state = s] \in TransferIntent /\ [intents[i] EXCEPT !.state = s].state = s
    BY <2>1, <1>3 DEF TransferIntent
  <2> QED  BY <1>3, <2>2 DEF TypeOK, IntentMoves
<1>4. ASSUME NEW i \in Intent, IntentExpires(i)
      PROVE  intents' \in [Intent -> TransferIntent \cup {None}] /\ \A j \in Intent : IntentMoves(j)
  <2>1. intents[i] \in TransferIntent
    BY <1>4 DEF TypeOK, Exists, IntentExpires
  <2>2. /\ [intents[i] EXCEPT !.expired = TRUE] \in TransferIntent
        /\ [intents[i] EXCEPT !.expired = TRUE].state = intents[i].state
    BY <2>1, Zenon DEF TransferIntent
  <2> QED  BY <1>4, <2>2, Zenon DEF TypeOK, IntentMoves, IntentExpires, Open
<1>5. ASSUME NEW i \in Intent, ApproveIntent(i)
      PROVE  intents' \in [Intent -> TransferIntent \cup {None}] /\ \A j \in Intent : IntentMoves(j)
  <2>1. Exists(i) /\ intents[i].state \in Open /\ intents' = [intents EXCEPT ![i].state = "APPROVED"]
    BY <1>5 DEF ApproveIntent, Open
  <2>2. "APPROVED" \in IntentState /\ "APPROVED" # "COMMITTED"
    BY DEF IntentState, Open
  <2> QED  BY <1>3, <2>1, <2>2, Zenon
<1>6. ASSUME NEW c \in Console, CommitTransfer(c)
      PROVE  intents' \in [Intent -> TransferIntent \cup {None}] /\ \A j \in Intent : IntentMoves(j)
  <2>1. console[c].intent \in Intent
    BY <1>6, ConsoleFields DEF CommitTransfer
  <2> DEFINE i == console[c].intent
  <2>2. Exists(i) /\ intents[i].state \in Open /\ intents' = [intents EXCEPT ![i].state = "COMMITTED"]
    BY <1>6 DEF CommitTransfer, Open
  <2>3. "COMMITTED" \in IntentState /\ \E d \in Console : CommitTransfer(d)
    BY <1>6 DEF IntentState
  <2> QED  BY <1>3, <2>1, <2>2, <2>3, Zenon
<1>7. ASSUME NEW c \in Console, TerminateIntent(c)
      PROVE  intents' \in [Intent -> TransferIntent \cup {None}] /\ \A j \in Intent : IntentMoves(j)
  <2>1. console[c].intent \in Intent /\ console[c].next \in {"FAILED", "CANCELLED"}
    BY <1>7, ConsoleFields DEF TerminateIntent
  <2> DEFINE i == console[c].intent  s == console[c].next
  <2>2. CASE Exists(i) /\ intents[i].state \in Open
    <3>1. intents' = [intents EXCEPT ![i].state = s]
      BY <1>7, <2>2 DEF TerminateIntent
    <3>2. s \in IntentState /\ s # "COMMITTED"
      BY <2>1 DEF IntentState
    <3> QED  BY <1>3, <2>1, <2>2, <3>1, <3>2, Zenon
  <2>3. CASE ~(Exists(i) /\ intents[i].state \in Open)
    BY <1>1, <1>7, <2>3 DEF TerminateIntent
  <2> QED  BY <2>2, <2>3
<1> QED
  BY <1>1, <1>2, <1>4, <1>5, <1>6, <1>7 DEF Next, vars, AcquireOwnershipLease,
     AdvanceOwnershipEpoch, ReadLease, ReleaseOwnershipLease, LeaseLapses, PrepareRead,
     CommitPreflight, CommitStale, CommitAborts, CancelRead, ConsoleCrash, CreateTask, BeginEffect

\* Each step keeps the operator requests typed.
LEMMA ConsoleType ==
  ASSUME TypeOK, [Next]_vars
  PROVE  console' \in [Console -> ConsoleState]
<1>1. ASSUME NEW c \in Console, NEW s \in ConsoleState, console' = [console EXCEPT ![c] = s]
      PROVE  console' \in [Console -> ConsoleState]
  BY <1>1 DEF TypeOK
<1>2. Idle \in ConsoleState
  BY DEF ConsoleState
<1>3. ASSUME NEW c \in Console, NEW b \in Binding, PrepareRead(c, b)
      PROVE  console' \in [Console -> ConsoleState]
  <2>1. [pc |-> "preparing", epoch |-> lease.epoch, binding |-> b] \in ConsoleState
    BY <1>3, LeaseFields DEF PrepareRead, ConsoleState, Preparing
  <2> QED  BY <1>1, <1>3, <2>1, Zenon DEF PrepareRead
<1>4. ASSUME NEW c \in Console, NEW i \in Intent, NEW b \in Binding, CommitPreflight(c, i, b)
      PROVE  console' \in [Console -> ConsoleState]
  <2>1. [pc |-> "committing", intent |-> i, binding |-> b] \in ConsoleState
    BY DEF ConsoleState, Committing
  <2> QED  BY <1>1, <1>4, <2>1, Zenon DEF CommitPreflight
<1>5. ASSUME NEW c \in Console, NEW i \in Intent, CommitStale(c, i) \/ CancelRead(c, i)
      PROVE  console' \in [Console -> ConsoleState]
  <2>1. \A n \in {"FAILED", "CANCELLED"} :
          [pc |-> "terminating", intent |-> i, next |-> n] \in ConsoleState
    BY DEF ConsoleState, Terminating
  <2> QED  BY <1>1, <1>5, <2>1 DEF CommitStale, CancelRead
<1>6. CASE \E c \in Console : console' = [console EXCEPT ![c] = Idle]
  BY <1>1, <1>2, <1>6, Zenon
<1>7. CASE UNCHANGED console
  BY <1>7 DEF TypeOK
<1> QED
  BY <1>3, <1>4, <1>5, <1>6, <1>7, Zenon DEF Next, vars, AcquireOwnershipLease,
     AdvanceOwnershipEpoch, ReadLease, ReleaseOwnershipLease, LeaseLapses, InsertIntent, insertIntent, createTransferIntent,
     ApproveIntent, IntentExpires, CommitTransfer, CommitAborts, TerminateIntent, ConsoleCrash,
     CreateTask, BeginEffect

\* Each step keeps the Tasks' records typed, and creates them with the epoch of the
\* Context row and the number of transfers so far.
LEMMA TaskStep ==
  ASSUME TypeOK, [Next]_vars
  PROVE  /\ tasks' \in [Task -> TaskOwnership \cup {None}]
         /\ \A t \in Task :
              \/ tasks'[t] = tasks[t]
              \/ /\ tasks[t] = None /\ lease' = lease
                 /\ tasks'[t].epoch = RegistryEpoch /\ tasks'[t].born = Cardinality(Committed)
              \/ /\ tasks[t] # None /\ BeginEffect(t)
                 /\ tasks'[t].epoch = tasks[t].epoch /\ tasks'[t].born = tasks[t].born
<1>1. CASE UNCHANGED tasks
  BY <1>1 DEF TypeOK
<1>2. ASSUME NEW t \in Task, NEW b \in Binding, CreateTask(t, b)
      PROVE  /\ tasks' \in [Task -> TaskOwnership \cup {None}]
             /\ lease' = lease /\ tasks[t] = None
             /\ tasks'[t].epoch = RegistryEpoch /\ tasks'[t].born = Cardinality(Committed)
             /\ \A u \in Task \ {t} : tasks'[u] = tasks[u]
  <2>1. [binding |-> b, epoch |-> RegistryEpoch, born |-> Cardinality(Committed), begun |-> FALSE]
          \in TaskOwnership
    BY CommittedCount, MaxEpochAssumption DEF TaskOwnership, RegistryEpoch, Epoch
  <2> QED  BY <1>2, <2>1 DEF CreateTask, TypeOK
<1>3. ASSUME NEW t \in Task, BeginEffect(t)
      PROVE  /\ tasks' \in [Task -> TaskOwnership \cup {None}]
             /\ tasks[t] # None
             /\ tasks'[t].epoch = tasks[t].epoch /\ tasks'[t].born = tasks[t].born
             /\ \A u \in Task \ {t} : tasks'[u] = tasks[u]
  <2>1. tasks[t] \in TaskOwnership
    BY <1>3 DEF BeginEffect, TypeOK
  <2>2. /\ [tasks[t] EXCEPT !.begun = TRUE] \in TaskOwnership
        /\ [tasks[t] EXCEPT !.begun = TRUE].epoch = tasks[t].epoch
        /\ [tasks[t] EXCEPT !.begun = TRUE].born = tasks[t].born
    BY <2>1, Zenon DEF TaskOwnership
  <2> QED  BY <1>3, <2>2 DEF BeginEffect, TypeOK
<1> QED
  BY <1>1, <1>2, <1>3, Zenon DEF Next, vars, AcquireOwnershipLease, AdvanceOwnershipEpoch, ReadLease,
     ReleaseOwnershipLease, LeaseLapses, PrepareRead, InsertIntent, insertIntent, createTransferIntent, ApproveIntent, IntentExpires,
     CommitPreflight, CommitStale, CommitTransfer, CommitAborts, CancelRead, TerminateIntent,
     ConsoleCrash

-----------------------------------------------------------------------------
(* The invariant *)

\* A committed transfer has moved the row past its first epoch; every Task records
\* that first epoch.
PastFirstEpoch ==
  /\ Committed # {} => HasLease /\ lease.epoch > 1
  /\ \A t \in Task : tasks[t] # None =>
       /\ tasks[t].epoch = RegistryEpoch
       /\ tasks[t].born # 0 => HasLease /\ lease.epoch > 1

IInv == TypeOK /\ EpochNamesOneOwner /\ PastFirstEpoch

\* The initial state satisfies the invariant.
LEMMA InitIInv == Init => IInv
<1> SUFFICES ASSUME Init PROVE IInv
  OBVIOUS
<1>1. TypeOK
  BY DEF Init, TypeOK, WorkerState, ConsoleState
<1>2. EpochNamesOneOwner /\ PastFirstEpoch
  BY DEF Init, EpochNamesOneOwner, PastFirstEpoch, Committed, Exists
<1> QED  BY <1>1, <1>2 DEF IInv

\* Each step keeps the types.
LEMMA TypeStep == TypeOK /\ [Next]_vars => TypeOK'
<1> SUFFICES ASSUME TypeOK, [Next]_vars PROVE TypeOK'
  OBVIOUS
<1>1. lease' \in LeaseRow \cup {None}
  BY StepMoves DEF RowMoves, TypeOK
<1> QED  BY <1>1, WorkerType, IntentStep, ConsoleType, TaskStep DEF TypeOK

\* Each step keeps an epoch naming one owner: copies only come from the row, and
\* the row changes its owner only together with its epoch.
LEMMA EpochStep ==
  ASSUME TypeOK, EpochNamesOneOwner, [Next]_vars
  PROVE  EpochNamesOneOwner'
<1> USE DEF HasLease, Epoch
<1>1. RowMoves /\ \A w \in Worker : CopyMoves(w)
  BY StepMoves
<1>2. ASSUME NEW w \in Worker, worker[w].held # None
      PROVE  worker[w].held \in Held /\ worker[w].held.epoch \in Int
  BY <1>2 DEF TypeOK, WorkerState, Held
<1>3. CASE lease' = lease
  <2>1. ASSUME NEW w \in Worker, worker'[w].held # None
        PROVE  /\ lease # None /\ worker'[w].held.epoch \in Int /\ worker'[w].held.epoch <= lease.epoch
               /\ worker'[w].held.epoch = lease.epoch => worker'[w].held.owner = lease.owner
               /\ worker'[w].held = worker[w].held \/ worker'[w].held.epoch = lease.epoch
    BY <1>1, <1>2, <2>1, LeaseFields DEF CopyMoves, EpochNamesOneOwner
  <2>2. ASSUME NEW w \in Worker, worker'[w].held # None, NEW v \in Worker, worker'[v].held # None,
               worker'[v].held.epoch = worker'[w].held.epoch
        PROVE  worker'[v].held.owner = worker'[w].held.owner
    <3>1. CASE worker'[w].held.epoch = lease.epoch
      BY <2>1, <2>2, <3>1
    <3>2. CASE worker'[w].held.epoch # lease.epoch
      BY <2>1, <2>2, <3>2 DEF EpochNamesOneOwner
    <3> QED  BY <3>1, <3>2
  <2> QED  BY <2>1, <2>2, <1>3 DEF EpochNamesOneOwner
<1>4. CASE lease' # lease
  <2>1. \A w \in Worker : worker'[w].held = worker[w].held
    BY <1>1, <1>4 DEF CopyMoves
  <2>2. CASE lease = None
    BY <2>1, <2>2 DEF EpochNamesOneOwner
  <2>3. CASE lease # None
    <3>1. lease.epoch \in Int /\ lease' # None
      BY <2>3, <1>1, <1>4, LeaseFields, NoneAssumption DEF RowMoves, LeaseRow
    <3>2. \/ lease'.epoch = lease.epoch + 1
          \/ lease'.epoch = lease.epoch /\ lease'.owner = lease.owner
      BY <2>3, <1>1, <1>4 DEF RowMoves
    <3> QED  BY <2>1, <2>3, <3>1, <3>2, <1>2 DEF EpochNamesOneOwner
  <2> QED  BY <2>2, <2>3
<1> QED  BY <1>3, <1>4

\* Each step keeps a committed transfer past the first epoch.
LEMMA PastFirstStep ==
  ASSUME TypeOK, PastFirstEpoch, [Next]_vars
  PROVE  PastFirstEpoch'
<1> USE DEF HasLease, Epoch
<1>1. ASSUME lease # None, lease.epoch > 1
      PROVE  lease' # None /\ lease'.epoch > 1
  BY <1>1, StepMoves, LeaseFields, NoneAssumption DEF RowMoves, LeaseRow
<1>2. ASSUME NEW c \in Console, CommitTransfer(c)
      PROVE  lease' # None /\ lease'.epoch > 1
  <2>1. lease # None /\ lease.epoch \in Epoch
    BY <1>2, LeaseFields DEF CommitTransfer
  <2>2. lease' = transferContextOwnership(console[c].binding)
    BY <1>2 DEF CommitTransfer
  <2>3. lease'.epoch > 1
    BY <2>1, <2>2 DEF transferContextOwnership
  <2>4. lease' # None
    BY <2>1, <2>2, <2>3, TypeStep, StepMoves, <1>2, NoneAssumption DEF RowMoves, LeaseRow
  <2> QED  BY <2>3, <2>4
<1>3. Committed' # {} => lease' # None /\ lease'.epoch > 1
  <2>1. SUFFICES ASSUME NEW i \in Intent, (Exists(i))', (intents[i].state = "COMMITTED")'
                 PROVE  lease' # None /\ lease'.epoch > 1
    BY DEF Committed
  <2>2. CASE intents'[i] = intents[i]
    BY <2>1, <2>2, <1>1 DEF PastFirstEpoch, Committed, Exists
  <2>3. CASE intents'[i] # intents[i]
    BY <2>1, <2>3, <1>2, IntentStep DEF IntentMoves
  <2> QED  BY <2>2, <2>3
<1>4. ASSUME NEW t \in Task, tasks'[t] # None
      PROVE  /\ tasks'[t].epoch = RegistryEpoch
             /\ tasks'[t].born # 0 => lease' # None /\ lease'.epoch > 1
  <2>1. Cardinality(Committed) # 0 => Committed # {}
    BY FS_EmptySet
  <2> QED  BY <1>1, <1>4, <2>1, TaskStep DEF PastFirstEpoch
<1> QED  BY <1>3, <1>4 DEF PastFirstEpoch, RegistryEpoch

\* The invariant is inductive.
LEMMA StepIInv == IInv /\ [Next]_vars => IInv'
BY TypeStep, EpochStep, PastFirstStep DEF IInv

\* Every reachable state satisfies the invariant.
THEOREM Invariance == Spec => []IInv
BY InitIInv, StepIInv, PTL DEF Spec

\* Types.
THEOREM TypeCorrect == Spec => []TypeOK
BY Invariance, PTL DEF IInv

\* An epoch of the lease names one owner, among all copies and the row.
THEOREM EpochNamesOneOwnerTheorem == Spec => []EpochNamesOneOwner
BY Invariance, PTL DEF IInv

\* A copy of the lease that the row has left behind is never accepted again by
\* assertOwnershipWrite.
THEOREM FencedStaysFencedTheorem == Spec => FencedStaysFenced
<1>1. ASSUME IInv, [Next]_vars, NEW w \in Worker, LeftBehind(w),
             worker'[w].held = worker[w].held
      PROVE  ~CanWrite(w)'
  <2>1. TypeOK /\ RowMoves
    BY <1>1, StepMoves DEF IInv
  <2>2. worker[w].held.epoch \in Int /\ lease.epoch \in Int
    BY <1>1, <2>1, LeaseFields DEF LeftBehind, TypeOK, WorkerState, Held, Epoch
  <2>3. worker[w].held.epoch < lease.epoch
    BY <1>1, <2>2 DEF LeftBehind, IInv, EpochNamesOneOwner
  <2>4. HasLease' => lease'.epoch >= lease.epoch
    BY <2>1, <2>2, <1>1 DEF LeftBehind, RowMoves, HasLease
  <2> QED  BY <1>1, <2>2, <2>3, <2>4, TypeStep, <2>1 DEF LeftBehind, CanWrite, HasLease, TypeOK, LeaseRow, Epoch
<1>2. IInv /\ [Next]_vars =>
        [\A w \in Worker : LeftBehind(w) /\ worker'[w].held = worker[w].held => ~CanWrite(w)']_vars
  BY <1>1
<1> QED  BY <1>2, Invariance, PTL DEF Spec, FencedStaysFenced

\* A live lease changes hands only by the commit of an approved intent.
THEOREM LiveLeaseMovesByCommitTheorem == Spec => LiveLeaseMovesByCommit
<1>1. TypeOK /\ [Next]_vars =>
        [HasLease /\ lease.live /\ lease'.owner # lease.owner =>
           \E i \in Intent : /\ Exists(i) /\ intents[i].state = "APPROVED"
                             /\ intents'[i].state = "COMMITTED"]_vars
  BY StepMoves DEF OwnerMoves
<1> QED  BY <1>1, TypeCorrect, PTL DEF Spec, LiveLeaseMovesByCommit

\* An intent that was committed, cancelled or failed stays so.
THEOREM TerminalIntentsFinalTheorem == Spec => TerminalIntentsFinal
<1>1. TypeOK /\ [Next]_vars =>
        [\A i \in Intent : Exists(i) /\ intents[i].state \notin Open => intents'[i] = intents[i]]_vars
  BY IntentStep DEF IntentMoves
<1> QED  BY <1>1, TypeCorrect, PTL DEF Spec, TerminalIntentsFinal

\* No Task takes effect once a transfer has been committed after its creation.
THEOREM TransferFencesOldTasksTheorem == Spec => TransferFencesOldTasks
<1>1. ASSUME IInv, [Next]_vars, NEW t \in Task, tasks[t] # None, tasks'[t] # tasks[t]
      PROVE  tasks[t].born = Cardinality(Committed)
  <2>1. BeginEffect(t)
    BY <1>1, TaskStep DEF IInv
  <2>2. HasLease /\ lease.epoch = 1
    BY <1>1, <2>1 DEF BeginEffect, checkOwnershipFence, IInv, PastFirstEpoch, RegistryEpoch
  <2>3. Committed = {} /\ tasks[t].born = 0
    BY <1>1, <2>2 DEF IInv, PastFirstEpoch
  <2> QED  BY <2>3, FS_EmptySet
<1>2. IInv /\ [Next]_vars =>
        [\A t \in Task : tasks[t] # None /\ tasks'[t] # tasks[t] =>
           tasks[t].born = Cardinality(Committed)]_vars
  BY <1>1
<1> QED  BY <1>2, Invariance, PTL DEF Spec, TransferFencesOldTasks

-----------------------------------------------------------------------------
(* WorkspacePool: what a call may touch *)

\* A selection that counts is a project that exists, or none.
LEMMA UsableRoot ==
  ASSUME NEW r
  PROVE  Usable(r) \in ExistingProjects \cup {NoRoot}
BY DEF Usable

\* The selection a principal's context has, or would get.
LEMMA ActiveRootType ==
  ASSUME PoolTypeOK, NEW p \in Principal
  PROVE  ActiveRootOf(p) \in Root \cup {NoRoot, "absent"} /\ getWorkspaceRoot(p) \in Root \cup {NoRoot}
<1>1. ExistingProjects \subseteq Root /\ session[p] \in Root \cup {NoRoot, "absent"}
  BY DEF PoolTypeOK, ExistingProjects
<1>2. QED BY <1>1, UsableRoot DEF ActiveRootOf, getWorkspaceRoot

\* Entering a context keeps the contexts well-formed.
LEMMA EnterContextType ==
  ASSUME PoolTypeOK, NEW c \in Chat, NEW r \in Root \cup {NoRoot, "absent"}, EnterContext(c, r)
  PROVE  session' \in [Principal -> Root \cup {NoRoot, "absent"}]
BY ChatAssumption DEF PoolTypeOK, EnterContext

\* What the only member of a finite set is.
LEMMA OnlyMemberIn ==
  ASSUME NEW S \in SUBSET Root, Cardinality(S) = 1
  PROVE  OnlyMember(S) \in S
<1>1. S # {}
  BY FS_EmptySet
<1>2. QED BY <1>1 DEF OnlyMember

\* A handle store after prune: the same handles, of the same principals and roots.
LEMMA PruneEntries ==
  ASSUME PoolTypeOK
  PROVE  /\ prune(entries) \in [1..minted -> Entry]
         /\ \A h \in 1..minted : prune(entries)[h].root = entries[h].root
<1>1. DOMAIN entries = 1..minted /\ entries \in [1..minted -> Entry]
  BY DEF PoolTypeOK
<1>2. \A h \in 1..minted :
         /\ [entries[h] EXCEPT !.state = "deleted"] \in Entry
         /\ [entries[h] EXCEPT !.state = "deleted"].root = entries[h].root
  BY <1>1 DEF Entry
<1>3. QED BY <1>1, <1>2 DEF prune

\* Handles are only added, and every one keeps its project.
Keeps ==
  /\ minted' \in minted..MaxHandles
  /\ entries' \in [1..minted' -> Entry]
  /\ \A h \in 1..minted : entries'[h].root = entries[h].root

\* mint returns a handle for the root it was asked for, and keeps the others.
LEMMA MintKeeps ==
  ASSUME PoolTypeOK, NEW p \in Principal, NEW r \in Root, NEW h \in Handle, mint(p, r, h)
  PROVE  Keeps /\ h \in 1..minted' /\ entries'[h].root = r
<1>1. minted \in Nat /\ MaxHandles \in Nat /\ minted <= MaxHandles
  BY LimitAssumption DEF PoolTypeOK
<1>2. CASE h \in EntriesFor(p, r) /\ entries' = prune(entries) /\ minted' = minted
  <2>1. h \in 1..minted /\ entries[h].root = r
    BY <1>2 DEF EntriesFor, LiveEntries
  <2>2. QED BY <1>1, <1>2, <2>1, PruneEntries DEF Keeps
<1>3. CASE /\ h = minted + 1 /\ minted' = h
           /\ entries' = [i \in 1..h |-> IF i = h THEN [owner |-> p, root |-> r, state |-> "live"]
                                         ELSE prune(entries)[i]]
  <2>1. [owner |-> p, root |-> r, state |-> "live"] \in Entry
        /\ [owner |-> p, root |-> r, state |-> "live"].root = r
    BY DEF Entry
  <2>2. h \in 1..MaxHandles /\ 1..minted \subseteq 1..h /\ h \notin 1..minted
        /\ \A i \in 1..h : i = h \/ i \in 1..minted
    BY <1>1, <1>3 DEF Handle
  <2>3. \A i \in 1..minted : entries'[i] = prune(entries)[i]
    BY <1>3, <2>2
  <2>4. entries'[h].root = r /\ h \in 1..h
    BY <1>1, <1>3, <2>1, <2>2
  <2>5. entries' \in [1..h -> Entry]
    BY <1>3, <2>1, <2>2, PruneEntries
  <2>6. QED BY <1>1, <1>3, <2>2, <2>3, <2>4, <2>5, PruneEntries DEF Keeps
<1>4. QED BY <1>2, <1>3 DEF mint

\* The handle each chat holds is one for the project it asked for.
HandlesNameProjects == \A c \in Chat : held[c] # 0 => entries[held[c]].root = opened[c]

\* What every step leaves of the handles.
HandlesWell ==
  /\ Keeps
  /\ held' \in [Chat -> 0..minted'] /\ opened' \in [Chat -> Root \cup {NoRoot}]
  /\ HandlesNameProjects'

\* Chats that get nothing keep what they have.
LEMMA HeldKept ==
  ASSUME PoolTypeOK, HandlesNameProjects, Keeps, UNCHANGED <<held, opened>>
  PROVE  HandlesWell
<1>1. minted \in Nat /\ minted' \in Nat /\ minted <= minted' /\ held \in [Chat -> 0..minted]
  BY LimitAssumption DEF PoolTypeOK, Keeps
<1>2. \A c \in Chat : held[c] \in 0..minted' /\ (held[c] # 0 => held[c] \in 1..minted)
  BY <1>1
<1>3. held' \in [Chat -> 0..minted'] /\ opened' \in [Chat -> Root \cup {NoRoot}]
  BY <1>1, <1>2 DEF PoolTypeOK
<1>4. HandlesNameProjects'
  BY <1>2 DEF HandlesNameProjects, Keeps
<1>5. QED BY <1>3, <1>4 DEF HandlesWell

\* A chat that is given a handle gets one for the project it names.
LEMMA HeldGiven ==
  ASSUME PoolTypeOK, HandlesNameProjects, Keeps, NEW c \in Chat, NEW r \in Root, NEW h \in 1..minted',
         entries'[h].root = r, Gives(c, h, r)
  PROVE  HandlesWell
<1>1. minted \in Nat /\ minted' \in Nat /\ minted <= minted' /\ held \in [Chat -> 0..minted]
      /\ opened \in [Chat -> Root \cup {NoRoot}]
  BY LimitAssumption DEF PoolTypeOK, Keeps
<1>2. \A d \in Chat : held[d] \in 0..minted' /\ (held[d] # 0 => held[d] \in 1..minted)
  BY <1>1
<1>3. held'[c] = h /\ opened'[c] = r
      /\ \A d \in Chat \ {c} : held'[d] = held[d] /\ opened'[d] = opened[d]
  BY <1>1 DEF Gives
<1>4. h \in 0..minted'
  BY <1>1
<1>5. held' \in [Chat -> 0..minted'] /\ opened' \in [Chat -> Root \cup {NoRoot}]
  BY <1>1, <1>2, <1>4 DEF Gives
<1>6. HandlesNameProjects'
  <2> SUFFICES ASSUME NEW d \in Chat, held'[d] # 0 PROVE entries'[held'[d]].root = opened'[d]
    BY DEF HandlesNameProjects
  <2>1. CASE d = c
    BY <1>3, <2>1
  <2>2. CASE d # c
    BY <1>2, <1>3, <2>2 DEF HandlesNameProjects, Keeps
  <2>3. QED BY <2>1, <2>2
<1>7. QED BY <1>5, <1>6 DEF HandlesWell

\* A handle that only changes its state keeps its project.
LEMMA StateKeeps ==
  ASSUME PoolTypeOK, NEW h \in 1..minted, NEW st \in {"expired", "deleted"},
         entries' = [entries EXCEPT ![h].state = st], minted' = minted
  PROVE  Keeps
<1>1. minted \in Nat /\ MaxHandles \in Nat /\ minted <= MaxHandles /\ entries \in [1..minted -> Entry]
  BY LimitAssumption DEF PoolTypeOK
<1>2. [entries[h] EXCEPT !.state = st] \in Entry /\ [entries[h] EXCEPT !.state = st].root = entries[h].root
  BY <1>1 DEF Entry
<1>3. entries' \in [1..minted -> Entry] /\ \A i \in 1..minted : entries'[i].root = entries[i].root
  BY <1>1, <1>2
<1>4. QED BY <1>1, <1>3 DEF Keeps

\* Every step leaves the handles well.
LEMMA HandlesStep ==
  ASSUME PoolTypeOK, HandlesNameProjects, [PoolNext]_poolVars
  PROVE  HandlesWell
<1>1. minted \in Nat /\ MaxHandles \in Nat /\ minted <= MaxHandles /\ entries \in [1..minted -> Entry]
      /\ held \in [Chat -> 0..minted]
  BY LimitAssumption DEF PoolTypeOK
<1>2. ASSUME UNCHANGED handles PROVE HandlesWell
  <2>1. minted' = minted /\ entries' = entries /\ held' = held /\ opened' = opened
    BY <1>2 DEF handles
  <2>2. Keeps
    BY <1>1, <2>1 DEF Keeps
  <2>3. QED BY <2>1, <2>2, HeldKept
<1>3. ASSUME NEW c \in Chat, NEW r \in Root, NEW h \in Handle, mint(Owner[c], r, h), Gives(c, h, r)
      PROVE  HandlesWell
  <2>1. Owner[c] \in Principal
    BY ChatAssumption
  <2>2. QED BY <1>3, <2>1, MintKeeps, HeldGiven
<1>4. ASSUME NEW c \in Chat, NEW r \in Root, NEW h \in Handle, mint(Owner[c], r, h), UNCHANGED <<held, opened>>
      PROVE  HandlesWell
  <2>1. Owner[c] \in Principal
    BY ChatAssumption
  <2>2. QED BY <1>4, <2>1, MintKeeps, HeldKept
<1>5. ASSUME NEW h \in 1..minted, NEW st \in {"expired", "deleted"},
             entries' = [entries EXCEPT ![h].state = st], UNCHANGED <<minted, held, opened>>
      PROVE  HandlesWell
  BY <1>5, StateKeeps, HeldKept, Zenon
<1>6. ASSUME NEW c \in Chat, setWorkspaceHandle(c) PROVE HandlesWell
  <2>1. selecting.root \in Root
    BY <1>6 DEF setWorkspaceHandle, PoolTypeOK
  <2>2. CASE entries' = prune(entries) /\ UNCHANGED <<minted, held, opened>>
    <3>1. Keeps
      BY <1>1, <2>2, PruneEntries DEF Keeps
    <3>2. QED BY <2>2, <3>1, HeldKept
  <2>3. CASE \E h \in Handle : mint(Owner[c], selecting.root, h) /\ Gives(c, h, selecting.root)
    BY <1>3, <2>1, <2>3
  <2>4. QED BY <1>6, <2>2, <2>3 DEF setWorkspaceHandle
<1>7. ASSUME NEW c \in Chat, callWithHandle(c) PROVE HandlesWell
  <2>1. UNCHANGED <<minted, held, opened>> /\ held[c] \in 1..minted
    BY <1>1, <1>7 DEF callWithHandle
  <2>2. entries' = entries \/ entries' = resolveFails(held[c])
    BY <1>7, Zenon DEF callWithHandle
  <2>3. CASE entries' = entries
    BY <1>2, <2>1, <2>3 DEF handles
  <2>4. CASE entries' = resolveFails(held[c])
    BY <1>5, <2>1, <2>4, Zenon DEF resolveFails
  <2>5. QED BY <2>2, <2>3, <2>4
<1>8. ASSUME NEW c \in Chat, closeProject(c) PROVE HandlesWell
  <2>1. UNCHANGED <<minted, held, opened>> /\ held[c] \in 1..minted
        /\ entries' = [entries EXCEPT ![held[c]].state = "deleted"]
    BY <1>1, <1>8 DEF closeProject, closeHandle
  <2>2. QED BY <1>5, <2>1, Zenon
<1>9. ASSUME NEW h \in Handle, HandleExpires(h) PROVE HandlesWell
  <2>1. UNCHANGED <<minted, held, opened>> /\ h \in 1..minted
        /\ entries' = [entries EXCEPT ![h].state = "expired"]
    BY <1>9 DEF HandleExpires, LiveEntries
  <2>2. QED BY <1>5, <2>1, Zenon
<1>10. ASSUME Restart PROVE HandlesWell
  <2>1. \A h \in 1..minted :
           /\ [entries[h] EXCEPT !.state = "deleted"] \in Entry
           /\ [entries[h] EXCEPT !.state = "deleted"].root = entries[h].root
    BY <1>1 DEF Entry
  <2>2. /\ entries' = [h \in 1..minted |-> [entries[h] EXCEPT !.state = "deleted"]]
        /\ UNCHANGED <<minted, held, opened>>
    BY <1>10 DEF Restart
  <2>3. entries' \in [1..minted -> Entry] /\ \A h \in 1..minted : entries'[h].root = entries[h].root
    BY <2>1, <2>2, Zenon
  <2>4. Keeps
    BY <1>1, <2>2, <2>3 DEF Keeps
  <2>5. QED BY <2>2, <2>4, HeldKept
<1>11. ASSUME NEW c \in Chat, NEW r \in Root, openProject(c, r) PROVE HandlesWell
  BY <1>3, <1>11 DEF openProject
<1>12. ASSUME NEW c \in Chat, NEW r \in Root, OpenUndelivered(c, r) PROVE HandlesWell
  BY <1>4, <1>12 DEF OpenUndelivered
<1>13. ASSUME initWorkspaceRoots \/ InitFails \/ UNCHANGED poolVars PROVE HandlesWell
  <2>1. UNCHANGED handles
    BY <1>13, Zenon DEF initWorkspaceRoots, InitFails, poolVars, handles
  <2>2. QED BY <1>2, <2>1
<1>14. ASSUME NEW c \in Chat, callUntargeted(c) \/ taskCreate(c) \/ runTaskStep(c) PROVE HandlesWell
  BY <1>2, <1>14, Zenon DEF callUntargeted, taskCreate, runTaskStep
<1>15. ASSUME NEW c \in Chat, NEW r \in Root, setActiveWorkspace(c, r) \/ removeWorkspaceRoot(c, r)
       PROVE  HandlesWell
  BY <1>2, <1>15, Zenon DEF setActiveWorkspace, removeWorkspaceRoot
<1>16. ASSUME NEW c \in Chat, NEW r \in Root, NEW s \in Root \cup {NoRoot}, addWorkspaceRoots(c, r, s)
       PROVE  HandlesWell
  BY <1>2, <1>16, Zenon DEF addWorkspaceRoots
<1>17. ASSUME NEW r \in Root, OtherProcess(r) \/ DirectoryChanges(r) PROVE HandlesWell
  BY <1>2, <1>17, Zenon DEF OtherProcess, DirectoryChanges
<1>18. ASSUME NEW p \in Principal, ContextExpires(p) PROVE HandlesWell
  BY <1>2, <1>18, Zenon DEF ContextExpires
<1>19. QED
  BY <1>6, <1>7, <1>8, <1>9, <1>10, <1>11, <1>12, <1>13, <1>14, <1>15, <1>16, <1>17, <1>18, Zenon
     DEF PoolNext

\* The roots a step leaves: known directories, and a pool that grows by what is
\* stored and shrinks with it.
RootsWell ==
  /\ persisted' \subseteq Root /\ disk' \subseteq Root /\ workspaceRoots' \subseteq Root
  /\ initialized' \in BOOLEAN /\ activeWorkspace' \in Root \cup {NoRoot}
  /\ PoolWithinStore => PoolWithinStore'

\* Every step leaves the roots well.
LEMMA RootsStep ==
  ASSUME PoolTypeOK, [PoolNext]_poolVars
  PROVE  RootsWell
<1> USE DEF RootsWell, PoolWithinStore, PoolTypeOK
<1>1. \A c \in Chat : JailOf(c) \in Root \cup {NoRoot}
  BY ChatAssumption DEF JailOf
<1>2. foreign \in Nat
  BY LimitAssumption
<1>3. ASSUME UNCHANGED <<roots, disk, foreign>> PROVE RootsWell
  BY <1>3 DEF roots
<1>4. ASSUME initWorkspaceRoots PROVE RootsWell
  <2>1. persisted' \subseteq Root /\ workspaceRoots' = persisted' /\ disk' = disk /\ initialized' = TRUE
    BY <1>4, RootAssumption DEF initWorkspaceRoots
  <2>2. activeWorkspace' \in Root \cup {NoRoot}
    BY <1>4, <2>1, OnlyMemberIn DEF initWorkspaceRoots
  <2>3. QED BY <2>1, <2>2
<1>5. ASSUME InitFails PROVE RootsWell
  BY <1>5, RootAssumption DEF InitFails
<1>6. ASSUME Restart PROVE RootsWell
  BY <1>6, Zenon DEF Restart
<1>7. ASSUME NEW c \in Chat, callWithHandle(c) \/ callUntargeted(c) PROVE RootsWell
  <2>1. UNCHANGED <<roots, foreign>>
    BY <1>7, Zenon DEF callWithHandle, callUntargeted
  <2>2. disk' = disk \/ (JailOf(c) # NoRoot /\ disk' = disk \cup {JailOf(c)})
    BY <1>7, Zenon DEF callWithHandle, callUntargeted, MakesJail
  <2>3. disk' \subseteq Root
    BY <1>1, <2>2
  <2>4. QED BY <2>1, <2>3 DEF roots
<1>8. ASSUME NEW c \in Chat, closeProject(c) \/ setWorkspaceHandle(c) \/ taskCreate(c) \/ runTaskStep(c)
      PROVE  RootsWell
  <2>1. UNCHANGED <<roots, disk, foreign>>
    BY <1>8, Zenon DEF closeProject, setWorkspaceHandle, taskCreate, runTaskStep, counters
  <2>2. QED BY <1>3, <2>1
<1>9. ASSUME NEW c \in Chat, NEW r \in Root,
             openProject(c, r) \/ OpenUndelivered(c, r) \/ setActiveWorkspace(c, r)
      PROVE  RootsWell
  <2>1. UNCHANGED <<roots, disk, foreign>>
    BY <1>9, Zenon DEF openProject, OpenUndelivered, setActiveWorkspace, counters
  <2>2. QED BY <1>3, <2>1
<1>10. ASSUME NEW c \in Chat, NEW r \in Root, removeWorkspaceRoot(c, r) PROVE RootsWell
  BY <1>10 DEF removeWorkspaceRoot
<1>11. ASSUME NEW c \in Chat, NEW r \in Root, NEW s \in Root \cup {NoRoot}, addWorkspaceRoots(c, r, s)
       PROVE  RootsWell
  BY <1>11 DEF addWorkspaceRoots
<1>12. ASSUME NEW r \in Root, OtherProcess(r) PROVE RootsWell
  BY <1>2, <1>12 DEF OtherProcess
<1>13. ASSUME NEW r \in Root, DirectoryChanges(r) PROVE RootsWell
  BY <1>13 DEF DirectoryChanges, roots
<1>14. ASSUME NEW h \in Handle, HandleExpires(h) PROVE RootsWell
  BY <1>3, <1>14, Zenon DEF HandleExpires, counters
<1>15. ASSUME NEW p \in Principal, ContextExpires(p) PROVE RootsWell
  BY <1>3, <1>15, Zenon DEF ContextExpires, counters
<1>16. ASSUME UNCHANGED poolVars PROVE RootsWell
  BY <1>3, <1>16, Zenon DEF poolVars, roots
<1>17. QED
  BY <1>4, <1>5, <1>6, <1>7, <1>8, <1>9, <1>10, <1>11, <1>12, <1>13, <1>14, <1>15, <1>16, Zenon
     DEF PoolNext

\* Every step keeps the contexts and the counters well-formed.
LEMMA ContextsStep ==
  ASSUME PoolTypeOK, [PoolNext]_poolVars
  PROVE  /\ session' \in [Principal -> Root \cup {NoRoot, "absent"}]
         /\ changes' \in 0..MaxChanges /\ foreign' \in 0..MaxTroubles /\ faults' \in 0..MaxTroubles
<1> DEFINE Selections == [Principal -> Root \cup {NoRoot, "absent"}]
           Counted == /\ changes' \in 0..MaxChanges
                      /\ foreign' \in 0..MaxTroubles /\ faults' \in 0..MaxTroubles
<1>1. session \in Selections /\ \A c \in Chat : Owner[c] \in Principal
  BY ChatAssumption DEF PoolTypeOK
<1>2. /\ changes \in Nat /\ foreign \in Nat /\ faults \in Nat /\ MaxChanges \in Nat /\ MaxTroubles \in Nat
      /\ changes <= MaxChanges /\ foreign <= MaxTroubles /\ faults <= MaxTroubles
  BY LimitAssumption DEF PoolTypeOK
<1>3. ASSUME NEW c \in Chat, NEW r \in Root,
             EnterContext(c, ActiveRootOf(Owner[c])) \/ EnterContext(c, FirstSelection(c, r))
               \/ EnterContext(c, r)
      PROVE  session' \in Selections
  <2>1. ActiveRootOf(Owner[c]) \in Root \cup {NoRoot, "absent"}
    BY <1>1, ActiveRootType
  <2>2. FirstSelection(c, r) \in Root \cup {NoRoot, "absent"}
    BY <2>1 DEF FirstSelection
  <2>3. QED BY <1>3, <2>1, <2>2, EnterContextType
<1>4. ASSUME NEW c \in Chat, EnterContext(c, ActiveRootOf(Owner[c])) PROVE session' \in Selections
  <2>1. ActiveRootOf(Owner[c]) \in Root \cup {NoRoot, "absent"}
    BY <1>1, ActiveRootType
  <2>2. QED BY <1>4, <2>1, EnterContextType
<1>5. ASSUME UNCHANGED counters PROVE Counted
  BY <1>2, <1>5 DEF counters
<1>6. ASSUME MoreTrouble, faults' = faults + 1, UNCHANGED <<changes, foreign>> PROVE Counted
  BY <1>2, <1>6 DEF MoreTrouble
<1>7. ASSUME changes < MaxChanges, changes' = changes + 1, UNCHANGED <<foreign, faults>> PROVE Counted
  BY <1>2, <1>7
<1>8. ASSUME initWorkspaceRoots \/ UNCHANGED poolVars PROVE session' \in Selections /\ Counted
  <2>1. UNCHANGED <<session, counters>>
    BY <1>8, Zenon DEF initWorkspaceRoots, poolVars, counters
  <2>2. QED BY <1>1, <1>5, <2>1
<1>9. ASSUME InitFails \/ Restart PROVE session' \in Selections /\ Counted
  <2>1. Counted
    BY <1>6, <1>9, Zenon DEF InitFails, Restart
  <2>2. session' \in Selections
    BY <1>1, <1>9 DEF InitFails, Restart
  <2>3. QED BY <2>1, <2>2
<1>10. ASSUME NEW c \in Chat, callWithHandle(c) \/ callUntargeted(c) PROVE session' \in Selections /\ Counted
  <2>1. session' \in Selections
    BY <1>4, <1>10, Zenon DEF callWithHandle, callUntargeted
  <2>2. UNCHANGED <<changes, foreign>> /\ (faults' = faults \/ (MoreTrouble /\ faults' = faults + 1))
    BY <1>10, Zenon DEF callWithHandle, callUntargeted, MakesJail, JailLost
  <2>3. Counted
    BY <1>5, <1>6, <2>2 DEF counters
  <2>4. QED BY <2>1, <2>3
<1>11. ASSUME NEW c \in Chat, closeProject(c) \/ runTaskStep(c) PROVE session' \in Selections /\ Counted
  BY <1>4, <1>5, <1>11, Zenon DEF closeProject, runTaskStep
<1>12. ASSUME NEW c \in Chat, setWorkspaceHandle(c) \/ taskCreate(c) PROVE session' \in Selections /\ Counted
  <2>1. UNCHANGED <<session, counters>>
    BY <1>12, Zenon DEF setWorkspaceHandle, taskCreate
  <2>2. QED BY <1>1, <1>5, <2>1
<1>13. ASSUME NEW c \in Chat, NEW r \in Root, openProject(c, r) \/ setActiveWorkspace(c, r)
       PROVE  session' \in Selections /\ Counted
  BY <1>3, <1>5, <1>13, Zenon DEF openProject, setActiveWorkspace
<1>14. ASSUME NEW c \in Chat, NEW r \in Root, OpenUndelivered(c, r) PROVE session' \in Selections /\ Counted
  BY <1>4, <1>6, <1>14, Zenon DEF OpenUndelivered
<1>15. ASSUME NEW c \in Chat, NEW r \in Root, removeWorkspaceRoot(c, r) PROVE session' \in Selections /\ Counted
  BY <1>4, <1>7, <1>15, Zenon DEF removeWorkspaceRoot, MayChangePool
<1>16. ASSUME NEW c \in Chat, NEW r \in Root, NEW s \in Root \cup {NoRoot}, addWorkspaceRoots(c, r, s)
       PROVE  session' \in Selections /\ Counted
  <2>1. Counted
    BY <1>7, <1>16, Zenon DEF addWorkspaceRoots, MayChangePool
  <2>2. EnterContext(c, IF s \in Root \ disk THEN ActiveRootOf(Owner[c]) ELSE FirstSelection(c, r))
    BY <1>16, Zenon DEF addWorkspaceRoots
  <2>3. EnterContext(c, ActiveRootOf(Owner[c])) \/ EnterContext(c, FirstSelection(c, r))
    BY <2>2
  <2>4. QED BY <1>3, <2>1, <2>3
<1>17. ASSUME NEW r \in Root, OtherProcess(r) PROVE session' \in Selections /\ Counted
  BY <1>1, <1>2, <1>17 DEF OtherProcess, MoreTrouble
<1>18. ASSUME NEW r \in Root, DirectoryChanges(r) PROVE session' \in Selections /\ Counted
  BY <1>1, <1>2, <1>18 DEF DirectoryChanges, MoreTrouble
<1>19. ASSUME NEW h \in Handle, HandleExpires(h) PROVE session' \in Selections /\ Counted
  BY <1>1, <1>5, <1>19 DEF HandleExpires
<1>20. ASSUME NEW p \in Principal, ContextExpires(p) PROVE session' \in Selections /\ Counted
  BY <1>1, <1>5, <1>20 DEF ContextExpires
<1>21. session' \in Selections /\ Counted
  <2> HIDE DEF Selections, Counted
  <2>1. QED
    BY <1>8, <1>9, <1>10, <1>11, <1>12, <1>13, <1>14, <1>15, <1>16, <1>17, <1>18, <1>19, <1>20, Zenon
       DEF PoolNext
<1>22. QED BY <1>21

\* Every step keeps the pending selection and the Task well-formed.
LEMMA WorkStep ==
  ASSUME PoolTypeOK, [PoolNext]_poolVars
  PROVE  /\ selecting' \in {NoSelect} \cup [chat : Chat, root : Root]
         /\ task' \in {NoTask} \cup [owner : Principal, root : Root \cup {NoRoot}]
<1> DEFINE Well == /\ selecting' \in {NoSelect} \cup [chat : Chat, root : Root]
                   /\ task' \in {NoTask} \cup [owner : Principal, root : Root \cup {NoRoot}]
<1>1. ASSUME UNCHANGED task, selecting' = selecting \/ selecting' = NoSelect PROVE Well
  BY <1>1 DEF PoolTypeOK
<1>2. ASSUME NEW c \in Chat, NEW r \in Root, setActiveWorkspace(c, r) PROVE Well
  BY <1>2 DEF PoolTypeOK, setActiveWorkspace
<1>3. ASSUME NEW c \in Chat, taskCreate(c) PROVE Well
  <2>1. last.root \in Root \cup {NoRoot}
    BY <1>3 DEF PoolTypeOK, taskCreate, Scope
  <2>2. Owner[c] \in Principal
    BY ChatAssumption
  <2>3. QED BY <1>3, <2>1, <2>2 DEF PoolTypeOK, taskCreate
<1>4. ASSUME initWorkspaceRoots \/ InitFails \/ Restart \/ UNCHANGED poolVars PROVE Well
  <2>1. UNCHANGED task /\ (selecting' = selecting \/ selecting' = NoSelect)
    BY <1>4, Zenon DEF initWorkspaceRoots, InitFails, Restart, poolVars
  <2>2. QED BY <1>1, <2>1
<1>5. ASSUME NEW c \in Chat, callWithHandle(c) \/ callUntargeted(c) \/ closeProject(c) \/ setWorkspaceHandle(c)
                             \/ runTaskStep(c)
      PROVE  Well
  <2>1. UNCHANGED task /\ (selecting' = selecting \/ selecting' = NoSelect)
    BY <1>5, Zenon DEF callWithHandle, callUntargeted, closeProject, setWorkspaceHandle, runTaskStep
  <2>2. QED BY <1>1, <2>1
<1>6. ASSUME NEW c \in Chat, NEW r \in Root, openProject(c, r) \/ OpenUndelivered(c, r) \/ removeWorkspaceRoot(c, r)
      PROVE  Well
  <2>1. UNCHANGED <<task, selecting>>
    BY <1>6, Zenon DEF openProject, OpenUndelivered, removeWorkspaceRoot
  <2>2. QED BY <1>1, <2>1
<1>7. ASSUME NEW c \in Chat, NEW r \in Root, NEW s \in Root \cup {NoRoot}, addWorkspaceRoots(c, r, s) PROVE Well
  BY <1>1, <1>7, Zenon DEF addWorkspaceRoots
<1>8. ASSUME NEW r \in Root, OtherProcess(r) \/ DirectoryChanges(r) PROVE Well
  BY <1>1, <1>8, Zenon DEF OtherProcess, DirectoryChanges
<1>9. ASSUME NEW h \in Handle, HandleExpires(h) PROVE Well
  BY <1>1, <1>9, Zenon DEF HandleExpires
<1>10. ASSUME NEW p \in Principal, ContextExpires(p) PROVE Well
  BY <1>1, <1>10, Zenon DEF ContextExpires
<1>11. Well
  <2> HIDE DEF Well
  <2>1. QED
    BY <1>2, <1>3, <1>4, <1>5, <1>6, <1>7, <1>8, <1>9, <1>10, Zenon DEF PoolNext
<1>12. QED BY <1>11

\* What the scope of the call resolved last satisfies.
ScopeWell == /\ last \in Scope \cup {NoCall}
             /\ UntargetedUnambiguous /\ ChatStaysOnItsProject /\ TaskRootIsStored

\* Fewer than two projects are at most one.
LEMMA FewProjects ==
  ASSUME PoolTypeOK, ~Ambiguous
  PROVE  Cardinality(ExistingProjects) <= 1
<1>1. IsFiniteSet(ExistingProjects)
  BY RootAssumption, FS_Subset DEF PoolTypeOK, ExistingProjects
<1>2. Cardinality(ExistingProjects) \in Nat
  BY <1>1, FS_CardinalityType
<1>3. QED BY <1>2 DEF Ambiguous

\* The call without a handle runs where nothing could be confused.
LEMMA UntargetedScope ==
  ASSUME PoolTypeOK, NEW c \in Chat, callUntargeted(c)
  PROVE  ScopeWell'
<1>1. UNCHANGED workspaceRoots /\ Owner[c] \in Principal
  BY ChatAssumption DEF callUntargeted, roots
<1>2. CASE ~Ambiguous /\ UNCHANGED disk /\ Resolved(c, "selection", getWorkspaceRoot(Owner[c]), FALSE)
  <2>1. getWorkspaceRoot(Owner[c]) \in ExistingProjects \cup {NoRoot}
    BY UsableRoot DEF getWorkspaceRoot
  <2>2. ExistingProjects' = ExistingProjects
    BY <1>1, <1>2 DEF ExistingProjects
  <2>3. getWorkspaceRoot(Owner[c]) \in Root \cup {NoRoot}
    BY <1>1, ActiveRootType
  <2>4. last' = [chat |-> c, via |-> "selection", root |-> getWorkspaceRoot(Owner[c]), bound |-> FALSE]
    BY <1>2 DEF Resolved
  <2>5. last' \in Scope /\ last'.via = "selection" /\ ~last'.bound /\ last'.root = getWorkspaceRoot(Owner[c])
    BY <2>3, <2>4 DEF Scope
  <2>6. QED
    BY <1>2, <2>1, <2>2, <2>5, FewProjects
    DEF ScopeWell, UntargetedUnambiguous, ChatStaysOnItsProject, TaskRootIsStored
<1>3. CASE JailOf(c) # NoRoot /\ Resolved(c, "jail", JailOf(c), FALSE)
  <2>1. JailOf(c) \in Root
    BY <1>1, <1>3, ChatAssumption DEF JailOf
  <2>2. last' \in Scope /\ last'.via = "jail" /\ ~last'.bound
    BY <1>3, <2>1 DEF Resolved, Scope
  <2>3. QED
    BY <2>2 DEF ScopeWell, UntargetedUnambiguous, ChatStaysOnItsProject, TaskRootIsStored
<1>4. QED BY <1>2, <1>3, Zenon DEF callUntargeted

\* The call with a handle runs in the project its chat opened, while it is in the pool.
LEMMA HandleScope ==
  ASSUME PoolTypeOK, HandlesNameProjects, NEW c \in Chat, callWithHandle(c)
  PROVE  ScopeWell'
<1> DEFINE r == entries[held[c]].root
<1>1. UNCHANGED <<workspaceRoots, opened>>
  BY DEF callWithHandle, roots
<1>2. CASE last' = NoCall
  BY <1>2 DEF ScopeWell, UntargetedUnambiguous, ChatStaysOnItsProject, TaskRootIsStored, NoCall
<1>3. CASE resolve(c) /\ (Resolved(c, "handle", r, TRUE) \/ Resolved(c, "jail", r, TRUE))
  <2>1. r \in workspaceRoots /\ r = opened[c]
    BY <1>3 DEF resolve, HandlesNameProjects
  <2>2. PICK via \in {"handle", "jail"} : last' = [chat |-> c, via |-> via, root |-> r, bound |-> TRUE]
    BY <1>3 DEF Resolved
  <2> HIDE DEF r
  <2>3. r \in Root
    BY <2>1 DEF PoolTypeOK
  <2>4. last' \in Scope /\ last'.via \in {"handle", "jail"} /\ last'.chat = c /\ last'.root = r
    BY <2>2, <2>3 DEF Scope
  <2>5. QED
    BY <1>1, <2>1, <2>4 DEF ScopeWell, UntargetedUnambiguous, ChatStaysOnItsProject, TaskRootIsStored
<1>4. QED BY <1>2, <1>3, Zenon DEF callWithHandle

\* A Task step runs in a stored root that exists.
LEMMA TaskScope ==
  ASSUME PoolTypeOK, NEW c \in Chat, runTaskStep(c)
  PROVE  ScopeWell'
<1>1. task.root \in persisted \cap disk /\ UNCHANGED <<persisted, disk>>
  BY DEF runTaskStep, resolveTaskWorkspace, roots
<1>2. last' = [chat |-> c, via |-> "task", root |-> task.root, bound |-> FALSE]
  BY DEF runTaskStep, Resolved
<1>3. last' \in Scope /\ last'.via = "task" /\ ~last'.bound /\ last'.root = task.root
  BY <1>1, <1>2 DEF Scope, PoolTypeOK
<1>4. QED BY <1>1, <1>3 DEF ScopeWell, UntargetedUnambiguous, ChatStaysOnItsProject, TaskRootIsStored

\* Every step leaves a well-scoped call, or none.
LEMMA ScopeStep ==
  ASSUME PoolTypeOK, HandlesNameProjects, ScopeWell, [PoolNext]_poolVars
  PROVE  ScopeWell'
<1>1. ASSUME last' = NoCall PROVE ScopeWell'
  BY <1>1 DEF ScopeWell, UntargetedUnambiguous, ChatStaysOnItsProject, TaskRootIsStored, NoCall
<1>2. ASSUME UNCHANGED poolVars PROVE ScopeWell'
  BY <1>2 DEF ScopeWell, UntargetedUnambiguous, ChatStaysOnItsProject, TaskRootIsStored, poolVars, ExistingProjects
<1>3. ASSUME initWorkspaceRoots \/ InitFails \/ Restart PROVE ScopeWell'
  BY <1>1, <1>3, Zenon DEF initWorkspaceRoots, InitFails, Restart
<1>4. ASSUME NEW c \in Chat, closeProject(c) \/ setWorkspaceHandle(c) \/ taskCreate(c) PROVE ScopeWell'
  BY <1>1, <1>4, Zenon DEF closeProject, setWorkspaceHandle, taskCreate
<1>5. ASSUME NEW c \in Chat, NEW r \in Root,
             openProject(c, r) \/ OpenUndelivered(c, r) \/ setActiveWorkspace(c, r) \/ removeWorkspaceRoot(c, r)
      PROVE  ScopeWell'
  BY <1>1, <1>5, Zenon DEF openProject, OpenUndelivered, setActiveWorkspace, removeWorkspaceRoot
<1>6. ASSUME NEW c \in Chat, NEW r \in Root, NEW s \in Root \cup {NoRoot}, addWorkspaceRoots(c, r, s) PROVE ScopeWell'
  BY <1>1, <1>6, Zenon DEF addWorkspaceRoots
<1>7. ASSUME NEW r \in Root, OtherProcess(r) \/ DirectoryChanges(r) PROVE ScopeWell'
  BY <1>1, <1>7, Zenon DEF OtherProcess, DirectoryChanges
<1>8. ASSUME NEW h \in Handle, HandleExpires(h) PROVE ScopeWell'
  BY <1>1, <1>8, Zenon DEF HandleExpires
<1>9. ASSUME NEW p \in Principal, ContextExpires(p) PROVE ScopeWell'
  BY <1>1, <1>9, Zenon DEF ContextExpires
<1>10. QED
  BY <1>2, <1>3, <1>4, <1>5, <1>6, <1>7, <1>8, <1>9, UntargetedScope, HandleScope, TaskScope, Zenon DEF PoolNext

\* The inductive invariant: types, handles that name the project their chat opened, the
\* scope of the last call, and the pool inside the stored roots.
PoolInv == PoolTypeOK /\ HandlesNameProjects /\ ScopeWell /\ PoolWithinStore

\* Every behaviour of the pool satisfies the inductive invariant.
THEOREM PoolInvariant == PoolSpec => []PoolInv
<1>1. PoolInit => PoolInv
  <2> SUFFICES ASSUME PoolInit PROVE PoolInv
    OBVIOUS
  <2>1. /\ minted = 0 /\ entries = <<>> /\ held = [c \in Chat |-> 0] /\ last = NoCall
        /\ opened = [c \in Chat |-> NoRoot] /\ selecting = NoSelect /\ task = NoTask
        /\ session = [p \in Principal |-> "absent"] /\ changes = 0 /\ foreign = 0 /\ faults = 0
        /\ workspaceRoots = {} /\ disk = Root /\ persisted \subseteq Root
        /\ initialized = FALSE /\ activeWorkspace = NoRoot
    BY DEF PoolInit
  <2>2. entries \in [1..0 -> Entry] /\ held \in [Chat -> 0..0]
    BY <2>1
  <2>3. PoolTypeOK
    <3>1. /\ session \in [Principal -> Root \cup {NoRoot, "absent"}]
          /\ opened \in [Chat -> Root \cup {NoRoot}] /\ initialized \in BOOLEAN
      BY <2>1, Zenon
    <3>2. minted \in 0..MaxHandles /\ changes \in 0..MaxChanges /\ foreign \in 0..MaxTroubles
          /\ faults \in 0..MaxTroubles
      BY <2>1, LimitAssumption
    <3>3. entries \in [1..minted -> Entry] /\ held \in [Chat -> 0..minted]
      BY <2>1, <2>2, Zenon
    <3>4. QED BY <2>1, <3>1, <3>2, <3>3, Zenon DEF PoolTypeOK
  <2>4. HandlesNameProjects /\ PoolWithinStore
    BY <2>1 DEF HandlesNameProjects, PoolWithinStore
  <2>5. ScopeWell
    BY <2>1 DEF ScopeWell, UntargetedUnambiguous, ChatStaysOnItsProject, TaskRootIsStored, NoCall
  <2>6. QED BY <2>3, <2>4, <2>5 DEF PoolInv
<1>2. PoolInv /\ [PoolNext]_poolVars => PoolInv'
  <2> SUFFICES ASSUME PoolInv, [PoolNext]_poolVars PROVE PoolInv'
    OBVIOUS
  <2>1. PoolTypeOK /\ HandlesNameProjects /\ ScopeWell /\ PoolWithinStore
    BY DEF PoolInv
  <2>2. HandlesWell /\ RootsWell /\ ScopeWell'
    BY <2>1, HandlesStep, RootsStep, ScopeStep
  <2>3. minted' \in 0..MaxHandles
    BY <2>1, <2>2, LimitAssumption DEF HandlesWell, Keeps, PoolTypeOK
  <2>4. PoolTypeOK'
    BY <2>1, <2>2, <2>3, ContextsStep, WorkStep, Zenon DEF PoolTypeOK, HandlesWell, Keeps, RootsWell, ScopeWell
  <2>5. QED BY <2>1, <2>2, <2>4, Zenon DEF PoolInv, HandlesWell, RootsWell
<1>3. QED BY <1>1, <1>2, PTL DEF PoolSpec

\* A call without a handle runs in the one project that exists, or in none: never in one
\* of several, whatever the chats of its connection have selected.
THEOREM UntargetedUnambiguousTheorem == PoolSpec => []UntargetedUnambiguous
<1>1. PoolInv => UntargetedUnambiguous
  BY DEF PoolInv, ScopeWell
<1>2. QED BY <1>1, PoolInvariant, PTL

\* A call with a handle runs in the project its chat opened, while that is in the pool:
\* whatever was closed, expired, minted anew, removed or restarted since.
THEOREM ChatStaysOnItsProjectTheorem == PoolSpec => []ChatStaysOnItsProject
<1>1. PoolInv => ChatStaysOnItsProject
  BY DEF PoolInv, ScopeWell
<1>2. QED BY <1>1, PoolInvariant, PTL

\* A Task step runs in a directory that exists and that the database allows.
THEOREM TaskRootIsStoredTheorem == PoolSpec => []TaskRootIsStored
<1>1. PoolInv => TaskRootIsStored
  BY DEF PoolInv, ScopeWell
<1>2. QED BY <1>1, PoolInvariant, PTL

\* Until another process writes, the pool holds no root that the database does not.
THEOREM PoolWithinStoreTheorem == PoolSpec => []PoolWithinStore
<1>1. PoolInv => PoolWithinStore
  BY DEF PoolInv
<1>2. QED BY <1>1, PoolInvariant, PTL

===============================================================================
