----------------------------- MODULE TaskExecution -----------------------------
(******************************************************************************)
(* One Task, from creation to its terminal state: its database rows (the      *)
(* task, its steps, their execution receipts, its approval requests and its   *)
(* latest checkpoint) and the processes that run it, resume it, recover it    *)
(* after a crash, cancel it, reconcile it and append steps to it.             *)
(*                                                                            *)
(* One action is one database transaction, or one call into a tool, together  *)
(* with the in-memory work around it: a crash or a lost lease can fall        *)
(* between any two actions.  (A checkpoint, an audit row or a save of the same*)
(* values that directly follows a transaction is part of its action.)  The    *)
(* execution lease is the one that TaskLease specifies, reduced to who may    *)
(* write: `holder`.                                                           *)
(******************************************************************************)
EXTENDS Integers, Sequences, FiniteSets

CONSTANTS Proc,             \* server processes that share the database
          NoProc,           \* nobody holds the lease
          MaxSteps,         \* most steps the Task may grow to
          InitialSteps,     \* steps it is created with
          Plan,             \* the plan: what each step is (see StepKind)
          MaxRuns,          \* retryPolicy.maxTotalAttempts
          MaxRecovery,      \* maxRecovery of every run
          ContextBound,     \* whether the Task was created inside a Context
          LossyCheckpoints, \* whether the best-effort checkpoint insert may fail
          MaxDisturbances   \* bound on crashes plus leases lost by a live process

Step == 1..MaxSteps

StepKind == [mutating   : BOOLEAN,      \* the catalog's effect is not read_only
             idempotent : BOOLEAN,      \* create_file with an idempotency key
             templated  : BOOLEAN,      \* arguments refer to other steps' output
             governance : {"allowed", "approval_required", "blocked"},
             runWhen    : {"success", "failure", "always"},
             deps       : SUBSET Step]

ASSUME ProcAssumption == NoProc \notin Proc
ASSUME SizeAssumption == MaxSteps \in Nat /\ InitialSteps \in 1..MaxSteps
ASSUME SettingAssumption == ContextBound \in BOOLEAN /\ LossyCheckpoints \in BOOLEAN
ASSUME BoundAssumption == MaxRuns \in Nat /\ MaxRecovery \in Nat /\ MaxDisturbances \in Nat
\* validateTaskPlan: a step depends on earlier steps only.
ASSUME PlanAssumption == /\ Plan \in [Step -> StepKind]
                         /\ \A s \in Step : \A d \in Plan[s].deps : d < s

VARIABLES task,             \* the tasks row and its task_steps rows
          receipts,         \* execution_receipts of each step, oldest first
          approvals,        \* approval_requests rows, by id
          checkpoint,       \* step of the Task's latest checkpoint, 0 for none
          holder,           \* process whose lease passes the write fence
          proc,             \* control state of each process
          plan,             \* the TaskPlan object each process works on
          moved,            \* the Task's Context has passed to another owner
          invoked,          \* how often each step's handler was entered
          disturbances      \* crashes and lost leases so far

vars == <<task, receipts, approvals, checkpoint, holder, proc, plan, moved,
          invoked, disturbances>>

TaskState == {"planning", "ready", "waiting_approval", "executing", "reconciling",
              "recovering", "verifying", "completed", "failed", "cancelled"}

StepStatus == {"pending", "running", "pending_approval", "blocked", "completed",
               "failed", "outcome_unknown", "reconciled_succeeded",
               "reconciled_failed", "cancelled"}

\* ExecutionReceipt.status; the last value is outcome_unknown with its
\* reconciliation field set by an operator's decision.
ReceiptStatus == {"started", "succeeded", "failed_known", "outcome_unknown",
                  "outcome_reconciled"}

\* How a tool call ends, as withStepTimeout and classifyError tell it apart.
Outcome == {"succeeded", "unknown", "denied", "failed", "transient"}

\* A TaskPlan as saveTaskPlan stores it.  The status column has no constraint:
\* crash recovery casts a loop result into it.
TaskPlan == [state : TaskState \cup {"pending_approval"}, n : Step, runs : Nat,
             status : [Step -> StepStatus], attempts : [Step -> Nat]]

ControlState == {"idle", "down", "entering", "loop", "step", "resolved",
                 "asking", "waiting", "asked",
                 "awaiting", "invoked", "settling", "failing", "retrying",
                 "backoff", "verifying", "orphan", "cancelling", "revoking"}

Process == [pc : ControlState, mode : {"run", "resume", "recover"}, idx : Nat,
            retries : Nat, grant : Nat, result : Outcome]

Approval == [step : Step, status : {"pending", "approved", "consumed", "revoked"},
             dispatched : BOOLEAN, expired : BOOLEAN]

TypeOK ==
  /\ task \in TaskPlan
  /\ receipts \in [Step -> Seq(ReceiptStatus)]
  /\ approvals \in Seq(Approval)
  /\ checkpoint \in 0..MaxSteps
  /\ holder \in Proc \cup {NoProc}
  /\ proc \in [Proc -> Process]
  /\ plan \in [Proc -> TaskPlan]
  /\ moved \in BOOLEAN
  /\ invoked \in [Step -> Nat]
  /\ disturbances \in 0..MaxDisturbances

IdleProcess == [pc |-> "idle", mode |-> "run", idx |-> 0, retries |-> 0, grant |-> 0,
                result |-> "failed"]

NewTask == [state |-> "planning", n |-> InitialSteps, runs |-> 0,
            status |-> [s \in Step |-> "pending"], attempts |-> [s \in Step |-> 0]]

Init ==
  /\ task = NewTask
  /\ receipts = [s \in Step |-> <<>>]
  /\ approvals = <<>>
  /\ checkpoint = 0
  /\ holder = NoProc
  /\ proc = [p \in Proc |-> IdleProcess]
  /\ plan = [p \in Proc |-> NewTask]
  /\ moved = FALSE
  /\ invoked = [s \in Step |-> 0]
  /\ disturbances = 0

-----------------------------------------------------------------------------
(* Reading a plan *)

Resolved == {"completed", "reconciled_succeeded", "cancelled"}

StepsOf(pl) == 1..pl.n

StepsIn(pl, statuses) == {s \in StepsOf(pl) : pl.status[s] \in statuses}

\* First element of a set of steps, 0 when there is none (findIndex).
First(S) == IF S = {} THEN 0 ELSE CHOOSE s \in S : \A t \in S : s <= t

HasUnknown_FirstStepOnly(pl) == pl.status[1] = "outcome_unknown"
HasUnknown(pl) == StepsIn(pl, {"outcome_unknown"}) # {}

unresolvedTaskSteps(pl) == StepsOf(pl) \ StepsIn(pl, Resolved)

\* Where the loop stops next from position i on: resolved steps are passed over.
NextOpen(pl, i) ==
  LET open == {s \in unresolvedTaskSteps(pl) : s >= i}
  IN IF open = {} THEN pl.n + 1 ELSE First(open)

\* The step that task_run starts from: pending before failed.
StartStep(pl) == IF StepsIn(pl, {"pending"}) # {} THEN First(StepsIn(pl, {"pending"}))
                 ELSE First(StepsIn(pl, {"failed", "pending_approval"}))

\* The dependency gate of task_run, for the step it starts from only.
DependencyGate(pl, s) ==
  \A d \in Plan[s].deps :
    \/ pl.status[d] \in {"completed", "reconciled_succeeded"}
    \/ pl.status[s] = "pending" /\ pl.status[d] = "failed"

\* The runWhen condition, for every step the loop reaches.
ShouldRun(pl, s) ==
  LET failed == \E d \in Plan[s].deps : pl.status[d] \in {"failed", "blocked", "cancelled"}
  IN Plan[s].deps = {} \/ CASE Plan[s].runWhen = "success" -> ~failed
                            [] Plan[s].runWhen = "failure" -> failed
                            [] OTHER -> TRUE

\* The task state machine (task-state-machine.ts).
Transitions ==
  [planning         |-> {"waiting_approval", "executing", "failed", "cancelled"},
   ready            |-> {"executing", "cancelled"},
   waiting_approval |-> {"executing", "failed", "cancelled"},
   executing        |-> {"waiting_approval", "recovering", "verifying", "failed", "cancelled"},
   reconciling      |-> {"executing", "planning", "failed", "cancelled"},
   recovering       |-> {"executing", "waiting_approval", "failed", "cancelled"},
   verifying        |-> {"executing", "completed", "recovering", "failed", "cancelled"},
   completed        |-> {"planning"},
   failed           |-> {"executing", "cancelled", "planning"},
   cancelled        |-> {"planning"}]

\* move(plan, "executing") does not throw: no transition leads out of a stored
\* state that is not a TaskState.
CanEnter(state) == state \in TaskState /\ (state = "executing" \/ "executing" \in Transitions[state])

-----------------------------------------------------------------------------
(* Writing to the database *)

\* assertTaskLeaseWrite for a process that runs under a lease, and for one that
\* does not (cancel, append, reconcile).
LeasedWrite(p) == holder = p
UnleasedWrite == holder = NoProc

saveTaskStatus(state) == [task EXCEPT !.state = state]

saveTaskStep(pl, s) == [task EXCEPT !.status[s] = pl.status[s],
                                    !.attempts[s] = pl.attempts[s]]

\* Rows of steps that the saved object does not know are left alone.
saveTaskPlan(pl, state) ==
  [state |-> state, n |-> task.n, runs |-> pl.runs,
   status |-> [s \in Step |-> IF s <= pl.n THEN pl.status[s] ELSE task.status[s]],
   attempts |-> [s \in Step |-> IF s <= pl.n THEN pl.attempts[s] ELSE task.attempts[s]]]

\* checkpointStep is best effort: a failed insert is swallowed.
CheckpointStep(s) == checkpoint' \in {s} \cup (IF LossyCheckpoints THEN {checkpoint} ELSE {})

LastReceipt(s) == IF receipts[s] = <<>> THEN "none" ELSE receipts[s][Len(receipts[s])]

finishStepExecutionReceipt(s, status) ==
  receipts' = [receipts EXCEPT ![s] = [@ EXCEPT ![Len(@)] = status]]

\* The step's in-memory status.
SetStep(pl, s, status) == [pl EXCEPT !.status[s] = status]

Goto(p, pc) == proc' = [proc EXCEPT ![p].pc = pc]

\* The process is done with its plan object.
Forget(p, pc) ==
  /\ proc' = [proc EXCEPT ![p] = [IdleProcess EXCEPT !.pc = pc]]
  /\ plan' = [plan EXCEPT ![p] = NewTask]

\* The invocation ends: the finally block releases the lease if it still is ours.
Leave(p) ==
  /\ Forget(p, "idle")
  /\ holder' = IF holder = p THEN NoProc ELSE holder

\* The loop moves on to the next open step.
Advance(p, pl) ==
  proc' = [proc EXCEPT ![p].pc = "loop", ![p].idx = NextOpen(pl, proc[p].idx + 1)]

AtStep(p) == proc[p].pc = "loop" /\ proc[p].idx <= plan[p].n

-----------------------------------------------------------------------------
(* Starting an invocation: task_run, task_resume, and recovery at startup *)

\* The process takes the lease, and works on plan pl from step i on.
Begin(p, pc, pl, i, m, a) ==
  /\ holder' = p
  /\ plan' = [plan EXCEPT ![p] = pl]
  /\ proc' = [proc EXCEPT ![p] = [pc |-> pc, mode |-> m, idx |-> i, retries |-> 0,
                                  grant |-> a, result |-> "failed"]]

\* TaskRuntimeService.run: acquire the lease, read the plan under it, and pass the
\* gates.  A refused run changes nothing.
Run(p) ==
  LET s == StartStep(task) IN
  /\ proc[p].pc = "idle" /\ holder = NoProc
  /\ ~HasUnknown(task)
  /\ CanEnter(task.state)
  /\ s # 0 /\ task.status[s] # "pending_approval"
  /\ DependencyGate(task, s)
  /\ task.runs < MaxRuns
  /\ Begin(p, "entering", [task EXCEPT !.runs = @ + 1], s, "run", 0)
  /\ UNCHANGED <<task, receipts, approvals, checkpoint, moved, invoked, disturbances>>

\* TaskRuntimeService.resume and resumeApprovedTask, up to consuming the approval:
\* the step resumed is the one of the latest checkpoint, and must be the approved one.
Resume(p, a) ==
  LET s == approvals[a].step IN
  /\ proc[p].pc = "idle" /\ holder = NoProc
  /\ approvals[a].status = "approved" /\ ~approvals[a].expired
  /\ task.state \in {"waiting_approval", "executing", "failed", "verifying"}
  /\ checkpoint = s
  /\ approvals' = [approvals EXCEPT ![a].status = "consumed"]
  /\ Begin(p, "entering", SetStep(task, s, "pending"), s, "resume", a)
  /\ UNCHANGED <<task, receipts, checkpoint, moved, invoked, disturbances>>

\* What startup recovery acts on: the states it re-reads under the lease.  A Task
\* in waiting_approval is found but skipped.
Interrupted == task.state \in {"executing", "recovering", "verifying"}

FirstIncomplete == First(StepsOf(task) \ StepsIn(task, {"completed"}))

OrphanedMutation_Never(s) == FALSE

\* A running step whose tool is not proven read-only.
OrphanedMutation(s) == task.status[s] = "running" /\ Plan[s].mutating

\* A process starts and recovery has nothing to do or may not do it: the Task is
\* not interrupted, its lease is still held, or it waits for an approval.
RestartSkips(p) ==
  /\ proc[p].pc = "down"
  /\ \/ ~Interrupted
     \/ holder # NoProc
     \/ /\ ~HasUnknown(task) /\ FirstIncomplete # 0
        /\ task.status[FirstIncomplete] = "pending_approval"
  /\ Goto(p, "idle")
  /\ UNCHANGED <<task, receipts, approvals, checkpoint, holder, plan, moved, invoked, disturbances>>

\* Every step completed before the crash, or an unknown outcome was already
\* recorded: recovery settles the task row.
RecoverSettled(p) ==
  /\ proc[p].pc = "down" /\ Interrupted /\ holder = NoProc
  /\ FirstIncomplete = 0 \/ HasUnknown(task)
  /\ task' = saveTaskStatus(IF FirstIncomplete = 0 THEN "completed" ELSE "failed")
  /\ Goto(p, "idle")
  /\ UNCHANGED <<receipts, approvals, checkpoint, holder, plan, moved, invoked, disturbances>>

\* The first incomplete step was running a mutation: its receipt, if still
\* started, becomes outcome_unknown.
RecoverReceipt(p) ==
  LET s == FirstIncomplete IN
  /\ proc[p].pc = "down" /\ Interrupted /\ holder = NoProc
  /\ ~HasUnknown(task) /\ s # 0 /\ OrphanedMutation(s)
  /\ IF LastReceipt(s) = "started" THEN finishStepExecutionReceipt(s, "outcome_unknown")
     ELSE UNCHANGED receipts
  /\ Begin(p, "orphan", SetStep(task, s, "outcome_unknown"), s, "recover", 0)
  /\ UNCHANGED <<task, approvals, checkpoint, moved, invoked, disturbances>>

\* ... and then its row, with the task failed.
RecoverOrphan(p) ==
  /\ proc[p].pc = "orphan" /\ LeasedWrite(p)
  /\ task' = saveTaskPlan(plan[p], "failed")
  /\ Leave(p)
  /\ UNCHANGED <<receipts, approvals, checkpoint, moved, invoked, disturbances>>

\* Otherwise recovery re-enters the loop from the first incomplete step; a
\* running read-only step is made pending first.
RecoverResumes(p) ==
  LET s == FirstIncomplete IN
  /\ proc[p].pc = "down" /\ Interrupted /\ holder = NoProc
  /\ ~HasUnknown(task) /\ s # 0
  /\ ~OrphanedMutation(s) /\ task.status[s] # "pending_approval"
  /\ task' = saveTaskStatus("executing")
  /\ Begin(p, "entering",
           IF task.status[s] = "running" THEN SetStep(task, s, "pending") ELSE task,
           s, "recover", 0)
  /\ UNCHANGED <<receipts, approvals, checkpoint, moved, invoked, disturbances>>

\* The head of runClosedAgentLoop: into executing, then the unknown-outcome guard.
EnterLoop(p) ==
  /\ proc[p].pc = "entering" /\ LeasedWrite(p)
  /\ task' = saveTaskStatus("executing")
  /\ plan' = [plan EXCEPT ![p].state = "executing"]
  /\ proc' = [proc EXCEPT ![p].pc = IF HasUnknown(plan[p]) THEN "failing" ELSE "loop",
                          ![p].idx = NextOpen(plan[p], @)]
  /\ UNCHANGED <<receipts, approvals, checkpoint, holder, moved, invoked, disturbances>>

-----------------------------------------------------------------------------
(* The loop, at one step. *)

\* runWhen is not met: the step is cancelled without running.
SkipByRunWhen(p) ==
  LET s == proc[p].idx  pl == SetStep(plan[p], s, "cancelled") IN
  /\ AtStep(p) /\ LeasedWrite(p) /\ ~ShouldRun(plan[p], s)
  /\ task' = saveTaskStep(pl, s)
  /\ plan' = [plan EXCEPT ![p] = pl]
  /\ Advance(p, pl)
  /\ CheckpointStep(s)
  /\ UNCHANGED <<receipts, approvals, holder, moved, invoked, disturbances>>

\* It is met: the task moves to executing, with a checkpoint of the step.
EnterStep(p) ==
  LET s == proc[p].idx IN
  /\ AtStep(p) /\ LeasedWrite(p) /\ ShouldRun(plan[p], s)
  /\ task' = saveTaskStatus("executing")
  /\ plan' = [plan EXCEPT ![p].state = "executing"]
  /\ Goto(p, "step")
  /\ CheckpointStep(s)
  /\ UNCHANGED <<receipts, approvals, holder, moved, invoked, disturbances>>

\* The arguments still hold templates: the first attempt stores them resolved.
Unresolved(pl, s) == Plan[s].templated /\ pl.attempts[s] = 0

FailUndispatched_NoAdvance(p) ==
  LET s == proc[p].idx IN
  /\ proc[p].pc = "step" /\ LeasedWrite(p)
  /\ \E status \in {"failed", "blocked"} :
       LET pl == SetStep(plan[p], s, status) IN
       /\ IF status = "failed" THEN Unresolved(plan[p], s) ELSE Plan[s].governance = "blocked"
       /\ task' = saveTaskStep(pl, s)
       /\ plan' = [plan EXCEPT ![p] = pl]
       /\ Goto(p, "loop")
  /\ CheckpointStep(s)
  /\ UNCHANGED <<receipts, approvals, holder, moved, invoked, disturbances>>

\* The step fails before it is dispatched: its template arguments cannot be
\* resolved, or governance blocks it.
FailUndispatched(p) ==
  LET s == proc[p].idx IN
  /\ proc[p].pc = "step" /\ LeasedWrite(p)
  /\ \E status \in {"failed", "blocked"} :
       LET pl == SetStep(plan[p], s, status) IN
       /\ IF status = "failed" THEN Unresolved(plan[p], s) ELSE Plan[s].governance = "blocked"
       /\ task' = saveTaskStep(pl, s)
       /\ plan' = [plan EXCEPT ![p] = pl]
       /\ Advance(p, pl)
  /\ CheckpointStep(s)
  /\ UNCHANGED <<receipts, approvals, holder, moved, invoked, disturbances>>

\* The step this invocation carries an approval for (approvedStepId).
Granted(p, s) == proc[p].grant # 0 /\ approvals[proc[p].grant].step = s

\* The step needs an approval: its row first ...
MarkPendingApproval(p) ==
  LET s == proc[p].idx  pl == SetStep(plan[p], s, "pending_approval") IN
  /\ proc[p].pc = "step" /\ LeasedWrite(p)
  /\ Plan[s].governance = "approval_required" /\ ~Granted(p, s)
  /\ task' = saveTaskStep(pl, s)
  /\ plan' = [plan EXCEPT ![p] = pl]
  /\ Goto(p, "asking")
  /\ UNCHANGED <<receipts, approvals, checkpoint, holder, moved, invoked, disturbances>>

\* ... then the task ...
MoveWaiting(p) ==
  /\ proc[p].pc = "asking" /\ LeasedWrite(p)
  /\ task' = saveTaskPlan(plan[p], "waiting_approval")
  /\ plan' = [plan EXCEPT ![p].state = "waiting_approval"]
  /\ Goto(p, "waiting")
  /\ CheckpointStep(proc[p].idx)
  /\ UNCHANGED <<receipts, approvals, holder, moved, invoked, disturbances>>

\* ... then the request, which no lease guards ...
CreateApproval(p) ==
  /\ proc[p].pc = "waiting"
  /\ approvals' = Append(approvals, [step |-> proc[p].idx, status |-> "pending",
                                     dispatched |-> FALSE, expired |-> FALSE])
  /\ Goto(p, "asked")
  /\ UNCHANGED <<task, receipts, checkpoint, holder, plan, moved, invoked, disturbances>>

\* ... and the caller's final save.  Recovery saves the loop's result as the state.
ReturnPending(p) ==
  /\ proc[p].pc = "asked" /\ LeasedWrite(p)
  /\ task' = saveTaskPlan(plan[p], IF proc[p].mode = "recover" THEN "pending_approval"
                                   ELSE "waiting_approval")
  /\ Leave(p)
  /\ UNCHANGED <<receipts, approvals, checkpoint, moved, invoked, disturbances>>

\* Governance lets the step through to its tool.
Dispatchable(p, s) ==
  \/ Plan[s].governance = "allowed"
  \/ Plan[s].governance = "approval_required" /\ Granted(p, s)

\* The plan with step s running its next attempt.
Attempt(pl, s) == [SetStep(pl, s, "running") EXCEPT !.attempts[s] = @ + 1]

\* Resolved template arguments are stored, with the running row, before the receipt.
StoreResolved(p) ==
  LET s == proc[p].idx  pl == Attempt(plan[p], s) IN
  /\ proc[p].pc = "step" /\ LeasedWrite(p) /\ Dispatchable(p, s) /\ Unresolved(plan[p], s)
  /\ task' = saveTaskStep(pl, s)
  /\ plan' = [plan EXCEPT ![p] = pl]
  /\ Goto(p, "resolved")
  /\ UNCHANGED <<receipts, approvals, checkpoint, holder, moved, invoked, disturbances>>

\* The plan that a dispatch stores: the attempt was counted with the arguments.
Dispatched(p) == IF proc[p].pc = "resolved" THEN plan[p] ELSE Attempt(plan[p], proc[p].idx)

ReadyToDispatch(p) ==
  LET s == proc[p].idx IN
  \/ proc[p].pc = "step" /\ Dispatchable(p, s) /\ ~Unresolved(plan[p], s)
  \/ proc[p].pc = "resolved"

Dispatch_NoReceipt(p) ==
  LET s == proc[p].idx  pl == Dispatched(p) IN
  /\ ReadyToDispatch(p) /\ LeasedWrite(p)
  /\ task' = saveTaskStep(pl, s)
  /\ plan' = [plan EXCEPT ![p] = pl]
  /\ receipts' = IF Plan[s].mutating /\ receipts[s] = <<>>
                 THEN [receipts EXCEPT ![s] = Append(@, "started")] ELSE receipts
  /\ Goto(p, "awaiting")
  /\ UNCHANGED <<approvals, checkpoint, holder, moved, invoked, disturbances>>

\* beginStepExecutionReceipt: a mutation's receipt and its running row are one
\* transaction, before the tool is called.
Dispatch(p) ==
  LET s == proc[p].idx  pl == Dispatched(p) IN
  /\ ReadyToDispatch(p) /\ LeasedWrite(p)
  /\ Plan[s].mutating => ~moved
  /\ task' = saveTaskStep(pl, s)
  /\ plan' = [plan EXCEPT ![p] = pl]
  /\ receipts' = IF Plan[s].mutating THEN [receipts EXCEPT ![s] = Append(@, "started")]
                 ELSE receipts
  /\ Goto(p, "awaiting")
  /\ UNCHANGED <<approvals, checkpoint, holder, moved, invoked, disturbances>>

\* That transaction finds the Task's Context owned by someone else and rolls back:
\* the step becomes outcome_unknown without a receipt.
DispatchStale(p) ==
  LET s == proc[p].idx  pl == SetStep(Dispatched(p), s, "outcome_unknown") IN
  /\ ReadyToDispatch(p) /\ LeasedWrite(p)
  /\ Plan[s].mutating /\ moved
  /\ task' = saveTaskStep(pl, s)
  /\ plan' = [plan EXCEPT ![p] = pl]
  /\ Goto(p, "failing")
  /\ UNCHANGED <<receipts, approvals, checkpoint, holder, moved, invoked, disturbances>>

\* claimApprovedTaskEffect: consumed, not yet dispatched, not expired.
Claimable(a) == approvals[a].status = "consumed" /\ ~approvals[a].dispatched
                /\ ~approvals[a].expired

Invoke_Unclaimed(p) ==
  LET s == proc[p].idx IN
  /\ proc[p].pc = "awaiting"
  /\ Granted(p, s) => approvals[proc[p].grant].status = "consumed"
  /\ approvals' = IF Granted(p, s) THEN [approvals EXCEPT ![proc[p].grant].dispatched = TRUE]
                  ELSE approvals
  /\ invoked' = [invoked EXCEPT ![s] = @ + 1]
  /\ Goto(p, "invoked")
  /\ UNCHANGED <<task, receipts, checkpoint, holder, plan, moved, disturbances>>

\* The gateway claims the approval, if the step needs one, and enters the handler.
\* No lease is looked at here.
Invoke(p) ==
  LET s == proc[p].idx IN
  /\ proc[p].pc = "awaiting"
  /\ Granted(p, s) => Claimable(proc[p].grant)
  /\ approvals' = IF Granted(p, s) THEN [approvals EXCEPT ![proc[p].grant].dispatched = TRUE]
                  ELSE approvals
  /\ invoked' = [invoked EXCEPT ![s] = @ + 1]
  /\ Goto(p, "invoked")
  /\ UNCHANGED <<task, receipts, checkpoint, holder, plan, moved, disturbances>>

\* The receipt and the step status that each outcome leads to.
ReceiptFor(o) == CASE o = "succeeded" -> "succeeded"
                   [] o = "unknown" -> "outcome_unknown"
                   [] OTHER -> "failed_known"

StatusFor(o) == CASE o = "succeeded" -> "completed"
                  [] o = "unknown" -> "outcome_unknown"
                  [] o = "denied" -> "blocked"
                  [] OTHER -> "failed"

\* The call ends with outcome o; a mutation's receipt is finished first.
Settle(p, o) ==
  LET s == proc[p].idx IN
  /\ IF Plan[s].mutating THEN LeasedWrite(p) /\ finishStepExecutionReceipt(s, ReceiptFor(o))
     ELSE UNCHANGED receipts
  /\ proc' = [proc EXCEPT ![p].pc = "settling", ![p].result = o]
  /\ UNCHANGED <<task, approvals, checkpoint, holder, plan, moved, invoked, disturbances>>

\* The tool answers, fails, or is given up on after its deadline and grace.  A
\* thrown timeout is unknown for a mutation and transient for a read.
ToolReturns(p) ==
  /\ proc[p].pc = "invoked"
  /\ \E o \in Outcome : Settle(p, o)

\* The gateway refuses: the approval is spent or has expired.
Refused(p) ==
  proc[p].pc = "awaiting" /\ Granted(p, proc[p].idx) /\ ~Claimable(proc[p].grant)

ToolDenied(p) == Refused(p) /\ Settle(p, "denied")

\* Then the step's row.  An unknown outcome ends the run, a transient failure may
\* be retried, anything else lets the loop go on to steps that run on failure.
SettleStep(p) ==
  LET s == proc[p].idx
      o == proc[p].result
      pl == SetStep(plan[p], s, StatusFor(o)) IN
  /\ proc[p].pc = "settling" /\ LeasedWrite(p)
  /\ task' = saveTaskStep(pl, s)
  /\ plan' = [plan EXCEPT ![p] = pl]
  /\ CASE o = "unknown" -> Goto(p, "failing")
       [] o = "transient" /\ proc[p].retries < MaxRecovery -> Goto(p, "retrying")
       [] OTHER -> Advance(p, pl)
  /\ CheckpointStep(s)
  /\ UNCHANGED <<receipts, approvals, holder, moved, invoked, disturbances>>

\* move(plan, "failed") and the caller's final save of the same plan.
MoveFailed(p) ==
  /\ proc[p].pc = "failing" /\ LeasedWrite(p)
  /\ task' = saveTaskPlan(plan[p], "failed")
  /\ Leave(p)
  /\ UNCHANGED <<receipts, approvals, checkpoint, moved, invoked, disturbances>>

\* A transient failure: record recovering, then retry after a pause or, if the
\* trace does not name the transient error, give the step up.
MoveRecovering(p) ==
  /\ proc[p].pc = "retrying" /\ LeasedWrite(p)
  /\ task' = saveTaskPlan(plan[p], "recovering")
  /\ plan' = [plan EXCEPT ![p].state = "recovering"]
  /\ \/ proc' = [proc EXCEPT ![p].pc = "backoff", ![p].retries = @ + 1]
     \/ proc' = [proc EXCEPT ![p].pc = "loop", ![p].retries = @ + 1,
                             ![p].idx = NextOpen(plan[p], @ + 1)]
  /\ UNCHANGED <<receipts, approvals, checkpoint, holder, moved, invoked, disturbances>>

Retry(p) ==
  /\ proc[p].pc = "backoff" /\ LeasedWrite(p)
  /\ task' = saveTaskStatus("executing")
  /\ plan' = [plan EXCEPT ![p] = [SetStep(@, proc[p].idx, "pending") EXCEPT !.state = "executing"]]
  /\ Goto(p, "loop")
  /\ UNCHANGED <<receipts, approvals, checkpoint, holder, moved, invoked, disturbances>>

\* Past the last step: verifying ...
Verify(p) ==
  /\ proc[p].pc = "loop" /\ proc[p].idx > plan[p].n /\ LeasedWrite(p)
  /\ task' = saveTaskStatus("verifying")
  /\ plan' = [plan EXCEPT ![p].state = "verifying"]
  /\ Goto(p, "verifying")
  /\ UNCHANGED <<receipts, approvals, checkpoint, holder, moved, invoked, disturbances>>

Finish_LastStep(p) ==
  LET verdict == IF plan[p].status[plan[p].n] \in Resolved THEN "completed" ELSE "failed" IN
  /\ proc[p].pc = "verifying" /\ LeasedWrite(p)
  /\ task' = saveTaskPlan(plan[p], verdict)
  /\ Leave(p)
  /\ UNCHANGED <<receipts, approvals, checkpoint, moved, invoked, disturbances>>

\* ... and the verdict, over every step of the plan.
Finish(p) ==
  LET verdict == IF unresolvedTaskSteps(plan[p]) = {} THEN "completed" ELSE "failed" IN
  /\ proc[p].pc = "verifying" /\ LeasedWrite(p)
  /\ task' = saveTaskPlan(plan[p], verdict)
  /\ Leave(p)
  /\ UNCHANGED <<receipts, approvals, checkpoint, moved, invoked, disturbances>>

\* Control states in which the next thing the process does is a guarded write, a
\* tool call returning included.
Writing == {"entering", "loop", "step", "resolved", "asking", "asked", "invoked",
            "settling", "failing", "retrying", "backoff", "verifying", "orphan"}

\* The lease is no longer ours: the write throws, and so does every write of the
\* handlers that catch it.
Fenced(p) ==
  /\ ~LeasedWrite(p)
  /\ \/ proc[p].pc \in Writing
     \/ Refused(p) /\ Plan[proc[p].idx].mutating
  /\ Leave(p)
  /\ UNCHANGED <<task, receipts, approvals, checkpoint, moved, invoked, disturbances>>

-----------------------------------------------------------------------------
(* Operations outside the loop *)

revokeTaskApprovals ==
  [a \in DOMAIN approvals |->
     IF approvals[a].status \in {"pending", "approved"}
     THEN [approvals[a] EXCEPT !.status = "revoked"] ELSE approvals[a]]

\* TaskRuntimeService.approve; on a cancelled task it revokes instead.
Approve(a) ==
  /\ approvals[a].status \in {"pending", "approved"}
  /\ approvals' = IF task.state = "cancelled" THEN revokeTaskApprovals
                  ELSE IF approvals[a].status = "pending" /\ ~approvals[a].expired
                       THEN [approvals EXCEPT ![a].status = "approved"] ELSE approvals
  /\ UNCHANGED <<task, receipts, checkpoint, holder, proc, plan, moved, invoked, disturbances>>

\* expires_at passes.
ApprovalExpires(a) ==
  /\ ~approvals[a].expired
  /\ approvals' = [approvals EXCEPT ![a].expired = TRUE]
  /\ UNCHANGED <<task, receipts, checkpoint, holder, proc, plan, moved, invoked, disturbances>>

\* TaskRuntimeService.cancel reads the plan ...
CancelRead(p) ==
  /\ proc[p].pc = "idle" /\ task.state \notin {"completed", "cancelled"}
  /\ plan' = [plan EXCEPT ![p] = task]
  /\ Goto(p, "cancelling")
  /\ UNCHANGED <<task, receipts, approvals, checkpoint, holder, moved, invoked, disturbances>>

CancelWrite_Unguarded(p) ==
  /\ proc[p].pc = "cancelling"
  /\ task' = saveTaskPlan(plan[p], "cancelled") /\ Forget(p, "revoking")
  /\ UNCHANGED <<receipts, approvals, checkpoint, holder, moved, invoked, disturbances>>

\* ... and in a second transaction writes all of it back as cancelled, unless a
\* runner holds the lease ...
CancelWrite(p) ==
  /\ proc[p].pc = "cancelling"
  /\ IF UnleasedWrite THEN task' = saveTaskPlan(plan[p], "cancelled") /\ Forget(p, "revoking")
     ELSE UNCHANGED task /\ Forget(p, "idle")
  /\ UNCHANGED <<receipts, approvals, checkpoint, holder, moved, invoked, disturbances>>

\* ... and in a third revokes the open approvals.
CancelRevoke(p) ==
  /\ proc[p].pc = "revoking"
  /\ approvals' = revokeTaskApprovals
  /\ Goto(p, "idle")
  /\ UNCHANGED <<task, receipts, checkpoint, holder, plan, moved, invoked, disturbances>>

\* persistAppendedTaskSteps: one corrective step at the end of a failed task.
AppendSteps ==
  /\ UnleasedWrite
  /\ task.state = "failed" /\ task.n < MaxSteps
  /\ StepsIn(task, {"outcome_unknown", "running", "pending_approval"}) = {}
  /\ task' = [task EXCEPT !.state = "planning", !.n = @ + 1, !.runs = 0]
  /\ UNCHANGED <<receipts, approvals, checkpoint, holder, proc, plan, moved, invoked, disturbances>>

Decision == {"confirmed_succeeded", "confirmed_failed", "safe_to_retry"}

\* applyTaskReconciliationDecision: an operator settles an unknown outcome.
Reconcile(s, decision) ==
  LET status == CASE decision = "confirmed_succeeded" -> "reconciled_succeeded"
                  [] decision = "confirmed_failed" -> "reconciled_failed"
                  [] OTHER -> "pending"
      pl == SetStep(task, s, status) IN
  /\ UnleasedWrite
  /\ s <= task.n /\ task.state = "failed" /\ task.status[s] = "outcome_unknown"
  /\ decision = "safe_to_retry" => Plan[s].idempotent /\ receipts[s] # <<>>
  /\ task' = [pl EXCEPT !.state =
                CASE decision = "confirmed_failed" -> "failed"
                  [] decision = "confirmed_succeeded" /\ unresolvedTaskSteps(pl) = {} -> "completed"
                  [] OTHER -> "planning"]
  /\ IF LastReceipt(s) = "outcome_unknown" THEN finishStepExecutionReceipt(s, "outcome_reconciled")
     ELSE UNCHANGED receipts
  /\ UNCHANGED <<approvals, checkpoint, holder, proc, plan, moved, invoked, disturbances>>

-----------------------------------------------------------------------------
(* The environment *)

\* A process dies; its lease stays.
Crash(p) ==
  /\ proc[p].pc # "down" /\ disturbances < MaxDisturbances
  /\ Forget(p, "down")
  /\ disturbances' = disturbances + 1
  /\ UNCHANGED <<task, receipts, approvals, checkpoint, holder, moved, invoked>>

\* The lease passes its deadline: because its process died, or because a live
\* process was suspended past it.
LeaseExpires ==
  /\ holder # NoProc
  /\ LET live == proc[holder].pc \notin {"idle", "down", "cancelling", "revoking"} IN
     /\ live => disturbances < MaxDisturbances
     /\ disturbances' = IF live THEN disturbances + 1 ELSE disturbances
  /\ holder' = NoProc
  /\ UNCHANGED <<task, receipts, approvals, checkpoint, proc, plan, moved, invoked>>

\* The Task's Context is transferred, or its ownership lease lapses: the epoch the
\* Task was created under is stale from then on.
ContextMoves ==
  /\ ContextBound /\ ~moved
  /\ moved' = TRUE
  /\ UNCHANGED <<task, receipts, approvals, checkpoint, holder, proc, plan, invoked, disturbances>>

LoopStep(p) ==
  \/ EnterLoop(p) \/ SkipByRunWhen(p) \/ EnterStep(p) \/ FailUndispatched(p)
  \/ MarkPendingApproval(p) \/ MoveWaiting(p) \/ CreateApproval(p) \/ ReturnPending(p)
  \/ StoreResolved(p) \/ Dispatch(p) \/ DispatchStale(p) \/ Invoke(p) \/ ToolReturns(p) \/ ToolDenied(p)
  \/ SettleStep(p) \/ MoveFailed(p) \/ MoveRecovering(p) \/ Retry(p)
  \/ Verify(p) \/ Finish(p) \/ RecoverOrphan(p) \/ Fenced(p)

Next ==
  \/ \E p \in Proc :
       \/ Run(p) \/ RestartSkips(p) \/ RecoverSettled(p) \/ RecoverReceipt(p)
       \/ RecoverResumes(p) \/ LoopStep(p) \/ Crash(p)
       \/ CancelRead(p) \/ CancelWrite(p) \/ CancelRevoke(p)
       \/ \E a \in DOMAIN approvals : Resume(p, a)
  \/ \E a \in DOMAIN approvals : Approve(a) \/ ApprovalExpires(a)
  \/ AppendSteps
  \/ \E s \in Step, d \in Decision : Reconcile(s, d)
  \/ LeaseExpires \/ ContextMoves

Spec == Init /\ [][Next]_vars

\* A process that runs a task keeps going: a tool call is cut off at its deadline
\* plus a grace, and every other step is synchronous code or a bounded pause.
FairSpec == Spec /\ \A p \in Proc : WF_vars(LoopStep(p))

-----------------------------------------------------------------------------
(* Properties *)

\* A task is only ever completed (by the loop, by recovery or by a reconciliation)
\* when every one of its steps is resolved, and a mutation that counts as
\* completed has its last receipt to prove it.
CompletedTaskResolved ==
  task.state = "completed" =>
    /\ unresolvedTaskSteps(task) = {}
    /\ \A s \in StepsIn(task, {"completed"}) : Plan[s].mutating => LastReceipt(s) = "succeeded"

\* No call into a mutating handler without a durable receipt of its own, written
\* before it: the receipts are never fewer than the calls.
EveryEffectHasReceipt ==
  \A s \in Step : Plan[s].mutating => invoked[s] <= Len(receipts[s])

\* Every call into the handler of a step that needs approval is paid for by an
\* approval of its own, granted and claimed for that step.
ApprovalPerEffect ==
  \A s \in Step : Plan[s].governance = "approval_required" =>
    invoked[s] = Cardinality({a \in DOMAIN approvals :
                    approvals[a].step = s /\ approvals[a].dispatched
                    /\ approvals[a].status = "consumed"})

\* Cancellation is final: whatever a runner, a recovery or a late approval does
\* afterwards, the task stays cancelled and no new attempt is recorded.
CancelledIsFinal ==
  [][task.state = "cancelled" => task'.state = "cancelled" /\ receipts' = receipts]_vars

\* An unknown outcome is not forgotten: the step leaves outcome_unknown only by an
\* operator's decision on the failed task, or with the whole task cancelled.  A
\* plan whose steps need no approval satisfies this; one whose step was asked for
\* twice does not (plan-resume resets the step before the loop looks at it).
UnknownUntilReconciled ==
  [][\A s \in Step :
       task.status[s] = "outcome_unknown" /\ task'.status[s] # "outcome_unknown" =>
         \/ task'.state = "cancelled"
         \/ /\ task.state = "failed" /\ holder = NoProc
            /\ task'.status[s] = "pending" => Plan[s].idempotent]_vars

\* A mutation that runs on success is never started again behind completed steps
\* while its receipt is open: neither task_run nor recovery walks over it.  A plan
\* in which each step depends on the ones before it satisfies this.
NoReplayBehindCompleted ==
  [][\A s \in Step :
       /\ Plan[s].runWhen = "success"
       /\ LastReceipt(s) = "started" /\ Len(receipts'[s]) > Len(receipts[s])
       =>
         \E t \in 1..(s - 1) : task.status[t] # "completed"]_vars

\* A run, a resume or a recovery always comes to an end, with all its retries.
LoopTerminates ==
  \A p \in Proc : proc[p].pc \in Writing \cup {"waiting", "awaiting"}
                  ~> proc[p].pc \in {"idle", "down"}

====
