-------------------------- MODULE TaskExecutionProofs --------------------------
(***************************************************************************)
(* The theorems about TaskExecution, for every plan, number of processes   *)
(* and bound: types, cancellation, completion, unknown outcomes, and the   *)
(* counts of effects against receipts and approvals.                       *)
(***************************************************************************)
EXTENDS TaskStepProofs

-----------------------------------------------------------------------------
(* A completed task is resolved, and its completed mutations are proven. *)

\* A mutation that status function f calls completed has its receipt to prove it.
Proven(f) == \A s \in Step : Plan[s].mutating /\ f[s] = "completed" => LastReceipt(s) = "succeeded"

\* What the process that runs the task knows: the plan it works on is as long as the
\* stored one and as proven, a step in execution is running in both, and the outcome
\* that the step will be settled with is the one its receipt records.
RunnerProven(p) ==
  LET i == proc[p].idx IN
  /\ plan[p].n = task.n
  /\ Proven(plan[p].status)
  /\ proc[p].pc \in {"resolved", "awaiting", "invoked", "settling"} =>
       task.status[i] = "running" /\ plan[p].status[i] = "running"
  /\ proc[p].pc = "settling" /\ Plan[i].mutating /\ proc[p].result = "succeeded" =>
       LastReceipt(i) = "succeeded"

\* A mutation between its dispatch and its outcome has a receipt.
ReceiptInHand(p) ==
  proc[p].pc \in {"awaiting", "invoked"} /\ Plan[proc[p].idx].mutating => receipts[proc[p].idx] # <<>>

TaskProven ==
  /\ holder # NoProc => task.state \notin {"completed", "cancelled"}
  /\ task.state = "completed" => unresolvedTaskSteps(task) = {}
  /\ task.state # "cancelled" => Proven(task.status)

\* The inductive form of CompletedTaskResolved.
CompletionInv ==
  /\ TaskProven
  /\ \A p \in Proc : ReceiptInHand(p)
  /\ \A p \in Proc : Runs(p) => RunnerProven(p)

\* The last receipt of each step, when one is finished or begun.
LEMMA LastFinished ==
  ASSUME TypeInv, NEW s \in Step, NEW st, finishStepExecutionReceipt(s, st)
  PROVE  /\ receipts[s] # <<>> => LastReceipt(s)' = st /\ receipts'[s] # <<>>
         /\ \A t \in Step \ {s} : receipts'[t] = receipts[t]
<1>1. receipts \in [Step -> Seq(ReceiptStatus)]
  BY DEF TypeInv, TypeOK
<1> DEFINE q == receipts[s]  r == [q EXCEPT ![Len(q)] = st]
<1>2. q \in Seq(ReceiptStatus)
  BY <1>1
<1>3. receipts' = [receipts EXCEPT ![s] = r]
  BY Zenon DEF finishStepExecutionReceipt
<1> HIDE DEF q
<1>4. ASSUME q # <<>> PROVE r[Len(r)] = st /\ r # <<>>
  <2>1. Len(q) \in Nat /\ Len(q) # 0 /\ DOMAIN q = 1..Len(q)
    BY <1>2, <1>4
  <2>2. DOMAIN r = 1..Len(q) /\ r[Len(q)] = st
    BY <2>1
  <2>3. Len(r) = Len(q)
    BY <2>1, <2>2
  <2>4. r # <<>>
    BY <2>1, <2>2
  <2>5. QED BY <2>2, <2>3, <2>4
<1> HIDE DEF r
<1>5. receipts'[s] = r /\ \A t \in Step \ {s} : receipts'[t] = receipts[t]
  BY <1>1, <1>3
<1>6. QED BY <1>4, <1>5 DEF LastReceipt, q

\* A sequence ends with what was appended to it.
LEMMA AppendedLast ==
  ASSUME NEW q \in Seq(ReceiptStatus), NEW v \in ReceiptStatus
  PROVE  Append(q, v)[Len(Append(q, v))] = v /\ Append(q, v) # <<>>
OBVIOUS

\* The last receipt after a dispatch: a mutation's has just been started.
LEMMA LastBegun ==
  ASSUME TypeInv, NEW p \in Proc, Dispatch(p)
  PROVE  /\ proc[p].idx \in Step
         /\ \A s \in Step :
              IF s = proc[p].idx /\ Plan[s].mutating
              THEN LastReceipt(s)' = "started" /\ receipts'[s] # <<>>
              ELSE receipts'[s] = receipts[s]
<1> DEFINE i == proc[p].idx
<1>1. receipts \in [Step -> Seq(ReceiptStatus)]
  BY DEF TypeInv, TypeOK
<1>2. proc[p].pc \in {"step", "resolved"}
  BY StepEffects, Zenon
<1>3. i \in Step
  BY <1>2, AtStepFacts DEF AtOneStep
<1>4. receipts' = IF Plan[i].mutating THEN [receipts EXCEPT ![i] = Append(receipts[i], "started")]
                  ELSE receipts
  BY Zenon DEF Dispatch
<1>5. ASSUME NEW s \in Step, s = i, Plan[s].mutating
      PROVE  LastReceipt(s)' = "started" /\ receipts'[s] # <<>>
  <2> DEFINE r == Append(receipts[s], "started")
  <2>1. receipts'[s] = r
    BY <1>1, <1>4, <1>5
  <2>2. r[Len(r)] = "started" /\ r # <<>>
    <3>1. receipts[s] \in Seq(ReceiptStatus) /\ "started" \in ReceiptStatus
      BY <1>1, <1>5 DEF ReceiptStatus
    <3>2. QED BY <3>1, AppendedLast, Zenon
  <2> HIDE DEF r
  <2>3. QED BY <2>1, <2>2 DEF LastReceipt
<1>6. ASSUME NEW s \in Step, ~(s = i /\ Plan[s].mutating) PROVE receipts'[s] = receipts[s]
  BY <1>1, <1>4, <1>6
<1>7. QED BY <1>3, <1>5, <1>6

\* Which steps touch the receipts, and how.
LEMMA ReceiptWrites ==
  ASSUME SetFacts, TypeInv, [Next]_vars
  PROVE  \/ receipts' = receipts
         \/ \E s \in Step, st \in ReceiptStatus : finishStepExecutionReceipt(s, st)
         \/ \E p \in Proc : Dispatch(p)
<1> DEFINE Finishes == \E s \in Step, st \in ReceiptStatus : finishStepExecutionReceipt(s, st)
<1>1. ASSUME NEW p \in Proc, Run(p) \/ RecoverResumes(p) \/ \E a \in DOMAIN approvals : Resume(p, a)
      PROVE  receipts' = receipts
  BY <1>1, StartEffects, Zenon
<1>2. ASSUME NEW p \in Proc, RecoverReceipt(p) PROVE receipts' = receipts \/ Finishes
  <2>1. \/ receipts' = receipts
        \/ FirstIncomplete # 0 /\ finishStepExecutionReceipt(FirstIncomplete, "outcome_unknown")
    BY <1>2, Zenon DEF RecoverReceipt
  <2>2. FirstIncomplete \in Step \cup {0}
    BY FirstIncompleteType
  <2>3. QED BY <2>1, <2>2 DEF ReceiptStatus
<1>3. ASSUME NEW p \in Proc,
             \/ RestartSkips(p) \/ RecoverSettled(p) \/ CancelRead(p) \/ CancelRevoke(p)
             \/ CancelWrite(p) \/ Crash(p)
      PROVE  receipts' = receipts
  BY <1>3, AsideEffects, Zenon
<1>4. ASSUME NEW p \in Proc, LoopStep(p) PROVE receipts' = receipts \/ Finishes \/ Dispatch(p)
  <2>1. CASE EnterLoop(p) \/ EnterStep(p) \/ Verify(p) \/ Retry(p)
    BY <2>1, Zenon DEF EnterLoop, EnterStep, Verify, Retry
  <2>2. CASE \/ SkipByRunWhen(p) \/ FailUndispatched(p) \/ MarkPendingApproval(p)
             \/ StoreResolved(p) \/ DispatchStale(p) \/ SettleStep(p)
    BY <2>2, Zenon DEF SkipByRunWhen, FailUndispatched, MarkPendingApproval, StoreResolved,
                       DispatchStale, SettleStep
  <2>3. CASE \/ MoveWaiting(p) \/ CreateApproval(p) \/ ReturnPending(p) \/ MoveFailed(p)
             \/ MoveRecovering(p) \/ Finish(p) \/ RecoverOrphan(p) \/ Fenced(p) \/ Invoke(p)
    BY <2>3, Zenon DEF MoveWaiting, CreateApproval, ReturnPending, MoveFailed, MoveRecovering, Finish,
                       RecoverOrphan, Fenced, Invoke
  <2>4. CASE ToolReturns(p) \/ ToolDenied(p)
    <3>1. PICK o \in Outcome : Settle(p, o)
      BY <2>4 DEF ToolReturns, ToolDenied, Outcome
    <3>2. proc[p].pc \in {"invoked", "awaiting"}
      BY <2>4, Zenon DEF ToolReturns, ToolDenied, Refused
    <3>3. proc[p].idx \in Step
      BY <3>2, AtStepFacts DEF AtOneStep
    <3>4. ReceiptFor(o) \in ReceiptStatus
      BY Zenon DEF ReceiptFor, ReceiptStatus
    <3>5. QED BY <3>1, <3>3, <3>4, Zenon DEF Settle
  <2>5. QED BY <1>4, <2>1, <2>2, <2>3, <2>4, Zenon DEF LoopStep
<1>5. ASSUME \/ \E a \in DOMAIN approvals : Approve(a) \/ ApprovalExpires(a)
             \/ AppendSteps \/ LeaseExpires \/ ContextMoves \/ UNCHANGED vars
      PROVE  receipts' = receipts
  BY <1>5, Zenon DEF Approve, ApprovalExpires, AppendSteps, LeaseExpires, ContextMoves, vars
<1>6. ASSUME NEW s \in Step, NEW d \in Decision, Reconcile(s, d) PROVE receipts' = receipts \/ Finishes
  <2>1. "outcome_reconciled" \in ReceiptStatus
    BY DEF ReceiptStatus
  <2>2. QED BY <1>6, <2>1, Zenon DEF Reconcile
<1>7. QED BY <1>1, <1>2, <1>3, <1>4, <1>5, <1>6, Zenon DEF Next

\* Receipts are never removed.
LEMMA ReceiptsRemain ==
  ASSUME SetFacts, TypeInv, [Next]_vars
  PROVE  \A s \in Step : receipts[s] # <<>> => receipts'[s] # <<>>
<1>1. ASSUME NEW s \in Step, NEW st, finishStepExecutionReceipt(s, st)
      PROVE  \A t \in Step : receipts[t] # <<>> => receipts'[t] # <<>>
  BY <1>1, LastFinished
<1>2. ASSUME NEW p \in Proc, Dispatch(p)
      PROVE  \A t \in Step : receipts[t] # <<>> => receipts'[t] # <<>>
  BY <1>2, LastBegun
<1>3. QED BY <1>1, <1>2, ReceiptWrites, Zenon

\* The process that dispatches a mutation has its receipt until the outcome.
LEMMA ReceiptInHandStep ==
  ASSUME SetFacts, TypeInv, \A p \in Proc : ReceiptInHand(p), [Next]_vars
  PROVE  \A p \in Proc : ReceiptInHand(p)'
<1>1. SUFFICES ASSUME NEW q \in Proc, proc'[q].pc \in {"awaiting", "invoked"}, Plan[proc'[q].idx].mutating
               PROVE  receipts'[proc'[q].idx] # <<>>
  BY Zenon DEF ReceiptInHand
<1> DEFINE Kept == proc'[q] = proc[q]
<1>2. CASE Kept
  <2>1. proc[q].idx \in Step
    BY <1>1, <1>2, AtStepFacts DEF AtOneStep
  <2>2. receipts[proc[q].idx] # <<>>
    BY <1>1, <1>2, Zenon DEF ReceiptInHand
  <2>3. QED BY <1>2, <2>1, <2>2, ReceiptsRemain, Zenon
<1>3. ASSUME NEW p \in Proc, LoopStep(p) PROVE Kept \/ Dispatch(q) \/ Invoke(q)
  <2>1. OthersKept(p) /\ (proc'[p].pc = "awaiting" => Dispatch(p)) /\ (proc'[p].pc = "invoked" => Invoke(p))
    BY <1>3, LoopEffects, Zenon
  <2>2. QED BY <1>1, <2>1 DEF OthersKept
<1>4. ASSUME NEW p \in Proc,
             \/ Run(p) \/ RecoverReceipt(p) \/ RecoverResumes(p) \/ \E a \in DOMAIN approvals : Resume(p, a)
      PROVE  Kept
  <2>1. OthersKept(p) /\ proc'[p].pc \in {"entering", "orphan"}
    BY <1>4, StartEffects, Zenon DEF Begins
  <2>2. QED BY <1>1, <2>1 DEF OthersKept
<1>5. ASSUME NEW p \in Proc,
             \/ RestartSkips(p) \/ RecoverSettled(p) \/ CancelRead(p) \/ CancelRevoke(p)
             \/ CancelWrite(p) \/ Crash(p)
      PROVE  Kept
  <2>1. OthersKept(p) /\ proc'[p].pc \in Away
    BY <1>5, AsideEffects, Zenon
  <2>2. QED BY <1>1, <2>1 DEF OthersKept, Away
<1>6. ASSUME \/ \E a \in DOMAIN approvals : Approve(a) \/ ApprovalExpires(a)
             \/ AppendSteps \/ LeaseExpires \/ ContextMoves \/ UNCHANGED vars
             \/ \E s \in Step, d \in Decision : Reconcile(s, d)
      PROVE  Kept
  BY <1>6, Zenon DEF Approve, ApprovalExpires, AppendSteps, LeaseExpires, ContextMoves, Reconcile, vars
<1>7. CASE Dispatch(q)
  <2>1. proc'[q].idx = proc[q].idx
    BY <1>7, StepEffects, Zenon DEF Moves
  <2>2. Plan[proc[q].idx].mutating => receipts'[proc[q].idx] # <<>>
    BY <1>7, LastBegun, Zenon
  <2>3. QED BY <1>1, <2>1, <2>2
<1>8. CASE Invoke(q)
  <2>1. proc'[q].idx = proc[q].idx /\ proc[q].pc = "awaiting" /\ receipts' = receipts
    BY <1>8, CallEffects, Zenon DEF Moves
  <2>2. QED BY <1>1, <2>1 DEF ReceiptInHand
<1> HIDE DEF Kept
<1>9. QED BY <1>2, <1>3, <1>4, <1>5, <1>6, <1>7, <1>8, Zenon DEF Next

\* Status functions stay proven when they change at one step whose receipt fits.
LEMMA ProvenKept ==
  ASSUME NEW f, NEW g, Proven(f), NEW i \in Step,
         \A s \in Step \ {i} : g[s] = f[s] /\ receipts'[s] = receipts[s],
         Plan[i].mutating /\ g[i] = "completed" => LastReceipt(i)' = "succeeded"
  PROVE  \A s \in Step : Plan[s].mutating /\ g[s] = "completed" => LastReceipt(s)' = "succeeded"
<1> SUFFICES ASSUME NEW s \in Step, Plan[s].mutating, g[s] = "completed"
             PROVE  LastReceipt(s)' = "succeeded"
  OBVIOUS
<1>1. CASE s = i
  BY <1>1
<1>2. CASE s # i
  <2>1. g[s] = f[s] /\ receipts'[s] = receipts[s]
    BY <1>2
  <2>2. LastReceipt(s) = "succeeded" /\ LastReceipt(s)' = LastReceipt(s)
    BY <2>1 DEF Proven, LastReceipt
  <2>3. QED BY <2>2
<1>3. QED BY <1>1, <1>2

\* An invocation starts on a free lease, and never on a settled task.
LEMMA StartState ==
  ASSUME NEW p \in Proc,
         \/ Run(p) \/ RecoverReceipt(p) \/ RecoverResumes(p) \/ \E a \in DOMAIN approvals : Resume(p, a)
  PROVE  holder = NoProc /\ task.state \notin {"completed", "cancelled"}
<1>1. CASE Run(p)
  <2>1. holder = NoProc /\ CanEnter(task.state)
    BY <1>1, Zenon DEF Run
  <2>2. QED BY <2>1, EnterStates, Zenon
<1>2. CASE RecoverReceipt(p) \/ RecoverResumes(p)
  <2>1. holder = NoProc /\ Interrupted
    BY <1>2, Zenon DEF RecoverReceipt, RecoverResumes
  <2>2. QED BY <2>1 DEF Interrupted
<1>3. CASE \E a \in DOMAIN approvals : Resume(p, a)
  <2>1. holder = NoProc /\ task.state \in {"waiting_approval", "executing", "failed", "verifying"}
    BY <1>3, Zenon DEF Resume
  <2>2. QED BY <2>1
<1>4. QED BY <1>1, <1>2, <1>3

\* Recovery finishes the receipt of a running step only.
LEMMA RecoveredReceipt ==
  ASSUME SetFacts, TypeInv, NEW p \in Proc, RecoverReceipt(p)
  PROVE  \E i \in Step :
           /\ i = FirstIncomplete /\ task.status[i] = "running" /\ Plan[i].mutating
           /\ \A s \in Step \ {i} : receipts'[s] = receipts[s]
           /\ LastReceipt(i)' # "started"
           /\ LastReceipt(i)' \in {LastReceipt(i), "outcome_unknown"}
<1>1. /\ FirstIncomplete # 0 /\ OrphanedMutation(FirstIncomplete)
      /\ \/ /\ LastReceipt(FirstIncomplete) = "started"
            /\ finishStepExecutionReceipt(FirstIncomplete, "outcome_unknown")
         \/ LastReceipt(FirstIncomplete) # "started" /\ receipts' = receipts
  BY Zenon DEF RecoverReceipt
<1>2. PICK i \in Step : i = FirstIncomplete
  BY <1>1, FirstIncompleteType
<1>3. task.status[i] = "running" /\ Plan[i].mutating
  BY <1>1, <1>2, Zenon DEF OrphanedMutation
<1>4. CASE LastReceipt(i) = "started" /\ finishStepExecutionReceipt(i, "outcome_unknown")
  <2>1. receipts[i] # <<>>
    BY <1>4 DEF LastReceipt
  <2>2. LastReceipt(i)' = "outcome_unknown" /\ \A s \in Step \ {i} : receipts'[s] = receipts[s]
    BY <1>4, <2>1, LastFinished
  <2>3. QED BY <1>2, <1>3, <2>2
<1>5. CASE LastReceipt(i) # "started" /\ receipts' = receipts
  <2>1. LastReceipt(i)' = LastReceipt(i) /\ \A s \in Step \ {i} : receipts'[s] = receipts[s]
    BY <1>5, Zenon DEF LastReceipt
  <2>2. QED BY <1>2, <1>3, <1>5, <2>1
<1>6. QED BY <1>1, <1>2, <1>4, <1>5, Zenon

\* The outcome of a call, in the hands of the process that holds the lease, goes to
\* the receipt of its step.
LEMMA SettledReceipt ==
  ASSUME TypeInv, NEW p \in Proc, ReceiptInHand(p), ToolReturns(p) \/ ToolDenied(p)
  PROVE  \E i \in Step :
           /\ i = proc[p].idx /\ proc[p].pc \in {"awaiting", "invoked"}
           /\ \A s \in Step \ {i} : receipts'[s] = receipts[s]
           /\ ~Plan[i].mutating => receipts' = receipts
           /\ Plan[i].mutating => LastReceipt(i)' = ReceiptFor(proc'[p].result)
           /\ UNCHANGED <<task, plan, holder>> /\ OthersKept(p)
           /\ proc'[p].pc = "settling" /\ proc'[p].idx = i /\ proc'[p].grant = proc[p].grant
<1>1. PICK o \in Outcome : Settle(p, o)
  BY DEF ToolReturns, ToolDenied, Outcome
<1>2. proc[p].pc \in {"awaiting", "invoked"}
  BY Zenon DEF ToolReturns, ToolDenied, Refused
<1>3. PICK i \in Step : i = proc[p].idx
  BY <1>2, AtStepFacts DEF AtOneStep
<1>4. /\ UNCHANGED <<task, plan, holder>> /\ OthersKept(p) /\ proc'[p].result = o
      /\ proc'[p].pc = "settling" /\ proc'[p].idx = i /\ proc'[p].grant = proc[p].grant
  BY <1>1, <1>3, CallEffects, Zenon DEF Moves
<1>5. IF Plan[i].mutating THEN finishStepExecutionReceipt(i, ReceiptFor(o)) ELSE receipts' = receipts
  BY <1>1, <1>3, Zenon DEF Settle
<1>6. CASE Plan[i].mutating
  <2> DEFINE st == ReceiptFor(o)
  <2>1. receipts[i] # <<>>
    BY <1>2, <1>3, <1>6, Zenon DEF ReceiptInHand
  <2>2. finishStepExecutionReceipt(i, st)
    BY <1>5, <1>6
  <2> HIDE DEF st
  <2>3. LastReceipt(i)' = st /\ \A s \in Step \ {i} : receipts'[s] = receipts[s]
    BY <2>1, <2>2, LastFinished, Zenon
  <2>4. QED BY <1>2, <1>3, <1>4, <1>6, <2>3, Zenon DEF st
<1>7. CASE ~Plan[i].mutating
  <2>1. receipts' = receipts
    BY <1>5, <1>7
  <2>2. QED BY <1>2, <1>3, <1>4, <1>7, <2>1, Zenon
<1>8. QED BY <1>6, <1>7, Zenon

\* The process that runs the task keeps its plan proven.
LEMMA RunnerProvenStep ==
  ASSUME SetFacts, TypeInv, CompletionInv, [Next]_vars, NEW q \in Proc, Runs(q)'
  PROVE  RunnerProven(q)'
<1> DEFINE Executing == {"resolved", "awaiting", "invoked", "settling"}
<1>1. /\ plan[q] \in TaskPlan /\ plan[q].status \in [Step -> StepStatus]
      /\ task \in TaskPlan /\ task.status \in [Step -> StepStatus]
  BY Zenon DEF TypeInv, TypeOK, TaskPlan
\* Enough for a process that is not at work on a step.
<1>2. ASSUME plan'[q].n = task'.n, proc'[q].pc \notin Executing,
             \A s \in Step : Plan[s].mutating /\ plan'[q].status[s] = "completed" =>
                               LastReceipt(s)' = "succeeded"
      PROVE  RunnerProven(q)'
  BY <1>2, Zenon DEF RunnerProven, Proven
<1>3. ASSUME \/ Run(q) \/ RecoverReceipt(q) \/ RecoverResumes(q) \/ \E a \in DOMAIN approvals : Resume(q, a)
      PROVE  RunnerProven(q)'
  <2>1. Proven(task.status)
    BY <1>3, StartState, Zenon DEF CompletionInv, TaskProven
  <2>2. PICK i \in Step, v \in StepStatus :
          /\ v # "completed"
          /\ plan'[q].status = task.status \/ plan'[q].status = [task.status EXCEPT ![i] = v]
          /\ plan'[q].n = task.n /\ task'.n = task.n /\ proc'[q].pc \in {"entering", "orphan"}
          /\ \A s \in Step \ {i} : receipts'[s] = receipts[s]
          /\ plan'[q].status = [task.status EXCEPT ![i] = v] \/ receipts' = receipts
    <3>1. CASE Run(q)
      <4>1. /\ plan'[q].status = task.status /\ plan'[q].n = task.n /\ task'.n = task.n
            /\ proc'[q].pc = "entering" /\ receipts' = receipts
        BY <3>1, StartEffects, Zenon DEF Begins
      <4>2. 1 \in Step /\ "pending" \in StepStatus
        BY SizeAssumption DEF Step, StepStatus
      <4>3. QED BY <4>1, <4>2
    <3>2. CASE \E a \in DOMAIN approvals : Resume(q, a)
      <4>1. PICK a \in DOMAIN approvals : Resume(q, a)
        BY <3>2
      <4>2. /\ plan'[q].status = [task.status EXCEPT ![approvals[a].step] = "pending"] /\ plan'[q].n = task.n
            /\ task'.n = task.n /\ proc'[q].pc = "entering" /\ receipts' = receipts
        BY <4>1, StartEffects, Zenon DEF Begins
      <4>3. approvals[a].step \in Step /\ "pending" \in StepStatus
        <5>1. approvals \in Seq(Approval) /\ a \in DOMAIN approvals
          BY <4>1 DEF TypeInv, TypeOK
        <5>2. approvals[a] \in Approval
          BY <5>1
        <5>3. QED BY <5>2 DEF Approval, StepStatus
      <4>4. QED BY <4>2, <4>3
    <3>3. CASE RecoverResumes(q)
      <4>1. /\ plan'[q].n = task.n /\ task'.n = task.n /\ proc'[q].pc = "entering" /\ receipts' = receipts
            /\ plan'[q].status = IF task.status[FirstIncomplete] = "running"
                                 THEN [task.status EXCEPT ![FirstIncomplete] = "pending"] ELSE task.status
        BY <3>3, StartEffects, Zenon DEF Begins
      <4>2. FirstIncomplete \in Step /\ "pending" \in StepStatus
        BY <3>3, FirstIncompleteType DEF RecoverResumes, StepStatus
      <4>3. QED BY <4>1, <4>2
    <3>4. CASE RecoverReceipt(q)
      <4>1. PICK i \in Step : i = FirstIncomplete /\ \A s \in Step \ {i} : receipts'[s] = receipts[s]
        BY <3>4, RecoveredReceipt, Zenon
      <4>2. /\ plan'[q].status = [task.status EXCEPT ![FirstIncomplete] = "outcome_unknown"]
            /\ plan'[q].n = task.n /\ task'.n = task.n /\ proc'[q].pc = "orphan"
        BY <3>4, StartEffects, Zenon DEF Begins
      <4>3. "outcome_unknown" \in StepStatus /\ "outcome_unknown" # "completed"
        BY DEF StepStatus
      <4>4. QED BY <3>4, <4>1, <4>2, <4>3
    <3>5. QED BY <1>3, <3>1, <3>2, <3>3, <3>4, Zenon
  <2>3. CASE plan'[q].status = task.status /\ receipts' = receipts
    <3>1. \A s \in Step : Plan[s].mutating /\ plan'[q].status[s] = "completed" => LastReceipt(s)' = "succeeded"
      BY <2>1, <2>3, Zenon DEF Proven, LastReceipt
    <3>2. QED BY <1>2, <2>2, <3>1
  <2>4. CASE plan'[q].status = [task.status EXCEPT ![i] = v]
    <3>1. /\ \A s \in Step \ {i} : plan'[q].status[s] = task.status[s]
          /\ plan'[q].status[i] # "completed"
      BY <1>1, <2>2, <2>4
    <3>2. \A s \in Step : Plan[s].mutating /\ plan'[q].status[s] = "completed" => LastReceipt(s)' = "succeeded"
      <4>1. \A s \in Step \ {i} : plan'[q].status[s] = task.status[s] /\ receipts'[s] = receipts[s]
        BY <2>2, <3>1, Zenon
      <4>2. QED BY <2>1, <3>1, <4>1, ProvenKept, Zenon
    <3>3. QED BY <1>2, <2>2, <3>2
  <2>5. QED BY <2>2, <2>3, <2>4
<1>4. ASSUME Runs(q), UNCHANGED <<task, receipts>>, proc'[q] = proc[q], plan'[q] = plan[q]
      PROVE  RunnerProven(q)'
  <2>1. RunnerProven(q)
    BY <1>4, Zenon DEF CompletionInv
  <2>2. \A s \in Step : LastReceipt(s)' = LastReceipt(s)
    BY <1>4, Zenon DEF LastReceipt
  <2>3. Proven(plan[q].status)'
    BY <1>4, <2>1, <2>2, Zenon DEF RunnerProven, Proven
  <2>4. LastReceipt(proc[q].idx)' = LastReceipt(proc[q].idx)
    BY <1>4, Zenon DEF LastReceipt
  <2>5. QED BY <1>4, <2>1, <2>3, <2>4, Zenon DEF RunnerProven
<1>5. ASSUME Runs(q), StaysInLoop(q) PROVE RunnerProven(q)'
  <2>1. RunnerProven(q) /\ Proven(plan[q].status) /\ plan[q].n = task.n
    BY <1>5, Zenon DEF CompletionInv, RunnerProven
  <2>2. ASSUME plan'[q].status = plan[q].status, receipts' = receipts
        PROVE  \A s \in Step : Plan[s].mutating /\ plan'[q].status[s] = "completed" =>
                                 LastReceipt(s)' = "succeeded"
    BY <2>1, <2>2, Zenon DEF Proven, LastReceipt
  <2>3. ASSUME NEW i \in Step, NEW v, plan'[q].status = [plan[q].status EXCEPT ![i] = v],
               \A s \in Step \ {i} : receipts'[s] = receipts[s],
               Plan[i].mutating /\ v = "completed" => LastReceipt(i)' = "succeeded"
        PROVE  \A s \in Step : Plan[s].mutating /\ plan'[q].status[s] = "completed" =>
                                 LastReceipt(s)' = "succeeded"
    <3>1. plan'[q].status[i] = v /\ \A s \in Step \ {i} : plan'[q].status[s] = plan[q].status[s]
      BY <1>1, <2>3
    <3>2. Plan[i].mutating /\ plan'[q].status[i] = "completed" => LastReceipt(i)' = "succeeded"
      BY <2>3, <3>1, Zenon
    <3>3. \A s \in Step \ {i} : plan'[q].status[s] = plan[q].status[s] /\ receipts'[s] = receipts[s]
      BY <2>3, <3>1
    <3>4. QED BY <2>1, <3>2, <3>3, ProvenKept, Zenon
  <2>4. CASE EnterLoop(q) \/ EnterStep(q) \/ Verify(q)
    <3>1. /\ plan'[q].n = plan[q].n /\ task'.n = task.n /\ plan'[q].status = plan[q].status
          /\ receipts' = receipts /\ proc'[q].pc \in {"failing", "loop", "step", "verifying"}
      BY <2>4, StatusEffects, Zenon DEF StatusWrite, Moves
    <3>2. QED BY <1>2, <2>1, <2>2, <3>1
  <2>5. CASE Retry(q)
    <3>1. /\ plan'[q].n = plan[q].n /\ task'.n = task.n
          /\ plan'[q].status = [plan[q].status EXCEPT ![proc[q].idx] = "pending"]
          /\ receipts' = receipts /\ proc[q].pc = "backoff" /\ proc'[q].pc = "loop"
      BY <2>5, StatusEffects, Zenon DEF StatusWrite, Moves
    <3>2. PICK i \in Step : i = proc[q].idx
      BY <3>1, AtStepFacts DEF AtOneStep
    <3>3. \A s \in Step : Plan[s].mutating /\ plan'[q].status[s] = "completed" => LastReceipt(s)' = "succeeded"
      BY <2>3, <3>1, <3>2, Zenon
    <3>4. QED BY <1>2, <2>1, <3>1, <3>3
  <2>6. CASE SkipByRunWhen(q) \/ FailUndispatched(q) \/ MarkPendingApproval(q) \/ DispatchStale(q)
    <3>1. /\ \E v \in {"cancelled", "failed", "blocked", "pending_approval", "outcome_unknown"} : StepWrite(q, v)
          /\ receipts' = receipts /\ proc'[q].pc \in {"loop", "asking", "failing"}
      BY <2>6, StepEffects, Zenon DEF Moves
    <3>2. PICK v \in {"cancelled", "failed", "blocked", "pending_approval", "outcome_unknown"} :
            /\ plan'[q].n = plan[q].n /\ task'.n = task.n
            /\ plan'[q].status = [plan[q].status EXCEPT ![proc[q].idx] = v]
      BY <3>1, Zenon DEF StepWrite
    <3>3. proc[q].pc \in AtOneStep \/ AtStep(q)
      <4>1. AtStep(q) \/ proc[q].pc \in {"step", "resolved"}
        BY <2>6, StepEffects, Zenon DEF Moves, SkipByRunWhen
      <4>2. QED BY <4>1 DEF AtOneStep
    <3>4. PICK i \in Step : i = proc[q].idx
      BY <3>3, AtStepFacts
    <3>5. \A s \in Step : Plan[s].mutating /\ plan'[q].status[s] = "completed" => LastReceipt(s)' = "succeeded"
      BY <2>3, <3>1, <3>2, <3>4, Zenon
    <3>6. QED BY <1>2, <2>1, <3>1, <3>2, <3>5, Zenon
  <2>7. CASE SettleStep(q)
    <3> DEFINE v == StatusFor(proc[q].result)
    <3>1. /\ StepWrite(q, v) /\ receipts' = receipts /\ proc[q].pc = "settling"
          /\ proc'[q].pc \in {"loop", "failing", "retrying"}
      BY <2>7, StepEffects, Zenon DEF Moves
    <3>2. v = "completed" => proc[q].result = "succeeded"
      BY Zenon DEF StatusFor
    <3> HIDE DEF v
    <3>3. /\ plan'[q].n = plan[q].n /\ task'.n = task.n
          /\ plan'[q].status = [plan[q].status EXCEPT ![proc[q].idx] = v]
      BY <3>1, Zenon DEF StepWrite
    <3>4. PICK i \in Step : i = proc[q].idx
      BY <3>1, AtStepFacts, Zenon DEF AtOneStep
    <3>5. Plan[i].mutating /\ v = "completed" => LastReceipt(i)' = "succeeded"
      BY <2>1, <3>1, <3>2, <3>4, Zenon DEF RunnerProven, LastReceipt
    <3>6. \A s \in Step : Plan[s].mutating /\ plan'[q].status[s] = "completed" => LastReceipt(s)' = "succeeded"
      BY <2>3, <3>1, <3>3, <3>4, <3>5, Zenon
    <3>7. QED BY <1>2, <2>1, <3>1, <3>3, <3>6, Zenon
  <2>8. CASE StoreResolved(q) \/ Dispatch(q)
    <3>1. /\ StepWrite(q, "running") /\ proc[q].pc \in {"step", "resolved"}
          /\ proc'[q].pc \in {"resolved", "awaiting"} /\ proc'[q].idx = proc[q].idx
      <4>1. CASE StoreResolved(q)
        BY <4>1, StepEffects, Zenon DEF Moves
      <4>2. CASE Dispatch(q)
        <5>1. /\ StepWrite(q, IF proc[q].pc = "resolved" THEN plan[q].status[proc[q].idx] ELSE "running")
              /\ proc[q].pc \in {"step", "resolved"} /\ proc'[q].pc = "awaiting"
              /\ proc'[q].idx = proc[q].idx
          BY <4>2, StepEffects, Zenon DEF Moves
        <5>2. proc[q].pc = "resolved" => plan[q].status[proc[q].idx] = "running"
          BY <2>1 DEF RunnerProven
        <5>3. (IF proc[q].pc = "resolved" THEN plan[q].status[proc[q].idx] ELSE "running") = "running"
          BY <5>2
        <5>4. QED BY <5>1, <5>3, Zenon
      <4>3. QED BY <2>8, <4>1, <4>2
    <3>2. PICK i \in Step : i = proc[q].idx
      BY <3>1, AtStepFacts DEF AtOneStep
    <3>3. \A s \in Step \ {i} : receipts'[s] = receipts[s]
      <4>1. CASE StoreResolved(q)
        BY <4>1, StepEffects, Zenon
      <4>2. CASE Dispatch(q)
        BY <3>2, <4>2, LastBegun
      <4>3. QED BY <2>8, <4>1, <4>2
    <3>4. /\ plan'[q].n = plan[q].n /\ task'.n = task.n
          /\ plan'[q].status = [plan[q].status EXCEPT ![i] = "running"]
          /\ task'.status = [task.status EXCEPT ![i] = "running"]
      BY <3>1, <3>2, Zenon DEF StepWrite
    <3>5. \A s \in Step : Plan[s].mutating /\ plan'[q].status[s] = "completed" => LastReceipt(s)' = "succeeded"
      BY <2>3, <3>3, <3>4
    <3>6. plan'[q].status[i] = "running" /\ task'.status[i] = "running"
      BY <1>1, <3>4
    <3>7. plan'[q].n = task'.n /\ proc'[q].idx = i /\ proc'[q].pc # "settling"
      BY <2>1, <3>1, <3>2, <3>4
    <3>8. QED BY <3>5, <3>6, <3>7, Zenon DEF RunnerProven, Proven
  <2>9. CASE MoveWaiting(q) \/ MoveRecovering(q)
    <3>1. /\ plan'[q].n = plan[q].n /\ task'.n = task.n /\ plan'[q].status = plan[q].status
          /\ receipts' = receipts /\ proc'[q].pc \in {"waiting", "backoff", "loop"}
      BY <2>9, PlanEffects, Zenon DEF PlanWrite, KeepsPlan, Moves
    <3>2. QED BY <1>2, <2>1, <2>2, <3>1
  <2>10. CASE CreateApproval(q) \/ Invoke(q)
    <3>1. /\ UNCHANGED <<task, receipts, plan>> /\ proc'[q].idx = proc[q].idx
          /\ \/ proc'[q].pc = "asked"
             \/ proc[q].pc = "awaiting" /\ proc'[q].pc = "invoked"
      BY <2>10, CallEffects, Zenon DEF Moves
    <3>2. Proven(plan[q].status)'
      BY <2>1, <3>1, Zenon DEF Proven, LastReceipt
    <3>3. proc'[q].pc \in Executing => task.status[proc[q].idx] = "running" /\ plan[q].status[proc[q].idx] = "running"
      BY <2>1, <3>1 DEF RunnerProven
    <3>4. proc'[q].pc # "settling"
      BY <3>1
    <3>5. QED BY <2>1, <3>1, <3>2, <3>3, <3>4, Zenon DEF RunnerProven
  <2>11. CASE ToolReturns(q) \/ ToolDenied(q)
    <3>1. ReceiptInHand(q)
      BY Zenon DEF CompletionInv
    <3>2. PICK i \in Step :
            /\ i = proc[q].idx /\ proc[q].pc \in {"awaiting", "invoked"}
            /\ \A s \in Step \ {i} : receipts'[s] = receipts[s]
            /\ Plan[i].mutating => LastReceipt(i)' = ReceiptFor(proc'[q].result)
            /\ ~Plan[i].mutating => receipts' = receipts
            /\ UNCHANGED <<task, plan>> /\ proc'[q].pc = "settling" /\ proc'[q].idx = i
      BY <2>11, <3>1, SettledReceipt, Zenon
    <3>3. task.status[i] = "running" /\ plan[q].status[i] = "running"
      BY <2>1, <3>2, Zenon DEF RunnerProven
    <3>4. \A s \in Step : Plan[s].mutating /\ plan[q].status[s] = "completed" => LastReceipt(s)' = "succeeded"
      <4>1. plan[q].status[i] # "completed"
        BY <3>3
      <4>2. QED BY <2>1, <3>2, <4>1, ProvenKept, Zenon
    <3>5. Proven(plan[q].status)'
      BY <3>2, <3>4, Zenon DEF Proven
    <3>6. Plan[i].mutating /\ proc'[q].result = "succeeded" => LastReceipt(i)' = "succeeded"
      BY <3>2, Zenon DEF ReceiptFor
    <3>7. QED BY <2>1, <3>2, <3>3, <3>5, <3>6, Zenon DEF RunnerProven
  <2>12. QED BY <1>5, <2>4, <2>5, <2>6, <2>7, <2>8, <2>9, <2>10, <2>11, Zenon DEF StaysInLoop
<1>6. QED BY <1>3, <1>4, <1>5, RunnerSteps, Zenon

\* When nothing is left unresolved.
LEMMA NothingUnresolved ==
  ASSUME NEW pl
  PROVE  unresolvedTaskSteps(pl) = {} <=> \A s \in 1..pl.n : pl.status[s] \in Resolved
BY DEF unresolvedTaskSteps, StepsOf, StepsIn

\* When every step is completed.
LEMMA NothingIncomplete ==
  ASSUME SetFacts, TypeInv, FirstIncomplete = 0
  PROVE  \A s \in 1..task.n : task.status[s] = "completed"
<1> DEFINE S == StepsOf(task) \ StepsIn(task, {"completed"})
<1>1. S \subseteq Nat /\ 0 \notin S
  BY SizeAssumption DEF TypeInv, TypeOK, TaskPlan, StepsOf, Step
<1>2. S = {}
  <2>1. SUFFICES ASSUME S # {} PROVE FALSE
    OBVIOUS
  <2>2. First(S) \in S
    BY <1>1, <2>1, FirstIn
  <2>3. QED BY <1>1, <2>2 DEF FirstIncomplete
<1>3. QED BY <1>2 DEF StepsOf, StepsIn

\* Every step keeps the stored task proven.
LEMMA TaskProvenStep ==
  ASSUME SetFacts, TypeInv, CompletionInv, [Next]_vars
  PROVE  TaskProven'
<1>1. /\ task \in TaskPlan /\ task.status \in [Step -> StepStatus] /\ holder \in Proc \cup {NoProc}
      /\ task.n \in 1..MaxSteps /\ MaxSteps \in Nat
  BY SizeAssumption, Zenon DEF TypeInv, TypeOK, TaskPlan, Step
<1>2. /\ holder # NoProc => task.state \notin {"completed", "cancelled"}
      /\ task.state = "completed" => unresolvedTaskSteps(task) = {}
      /\ task.state # "cancelled" => Proven(task.status)
  BY Zenon DEF CompletionInv, TaskProven
\* Nothing that TaskProven is about changes, or the lease becomes free.
<1>3. ASSUME UNCHANGED <<task, receipts>>,
             holder' = holder \/ holder' = NoProc \/ task.state \notin {"completed", "cancelled"}
      PROVE  TaskProven'
  BY <1>2, <1>3 DEF TaskProven, Proven, LastReceipt
\* The task goes to a state that promises nothing.
<1>4. ASSUME task'.state \notin {"completed", "cancelled"},
             \A s \in Step : Plan[s].mutating /\ task'.status[s] = "completed" =>
                               LastReceipt(s)' = "succeeded"
      PROVE  TaskProven'
  BY <1>4, Zenon DEF TaskProven, Proven
<1>5. ASSUME task.state # "cancelled", task'.status = task.status, receipts' = receipts
      PROVE  \A s \in Step : Plan[s].mutating /\ task'.status[s] = "completed" =>
                               LastReceipt(s)' = "succeeded"
  BY <1>2, <1>5, Zenon DEF Proven, LastReceipt
<1>6. ASSUME task.state # "cancelled", NEW i \in Step,
             \A s \in Step \ {i} : task'.status[s] = task.status[s] /\ receipts'[s] = receipts[s],
             Plan[i].mutating /\ task'.status[i] = "completed" => LastReceipt(i)' = "succeeded"
      PROVE  \A s \in Step : Plan[s].mutating /\ task'.status[s] = "completed" =>
                               LastReceipt(s)' = "succeeded"
  <2>1. Proven(task.status)
    BY <1>2, <1>6
  <2> DEFINE f == task.status  g == task'.status
  <2>2. Proven(f) /\ \A s \in Step \ {i} : g[s] = f[s] /\ receipts'[s] = receipts[s]
    BY <1>6, <2>1
  <2>3. Plan[i].mutating /\ g[i] = "completed" => LastReceipt(i)' = "succeeded"
    BY <1>6
  <2> HIDE DEF f, g
  <2>4. \A s \in Step : Plan[s].mutating /\ g[s] = "completed" => LastReceipt(s)' = "succeeded"
    BY <1>6, <2>2, <2>3, ProvenKept
  <2>5. QED BY <2>4 DEF g
<1>7. ASSUME NEW p \in Proc, Run(p) \/ \E a \in DOMAIN approvals : Resume(p, a) PROVE TaskProven'
  BY <1>3, <1>7, StartEffects, StartState, Zenon
<1>8. ASSUME NEW p \in Proc, RecoverResumes(p) PROVE TaskProven'
  <2>1. task'.status = task.status /\ receipts' = receipts /\ task'.state = "executing" /\ task.state # "cancelled"
    BY <1>8, StartEffects, StartState, Zenon
  <2>2. QED BY <1>4, <1>5, <2>1
<1>9. ASSUME NEW p \in Proc, RecoverReceipt(p) PROVE TaskProven'
  <2>1. task' = task /\ task.state \notin {"completed", "cancelled"}
    BY <1>9, StartEffects, StartState, Zenon
  <2>2. PICK i \in Step : task.status[i] = "running" /\ \A s \in Step \ {i} : receipts'[s] = receipts[s]
    BY <1>9, RecoveredReceipt, Zenon
  <2>3. \A s \in Step : Plan[s].mutating /\ task'.status[s] = "completed" => LastReceipt(s)' = "succeeded"
    BY <1>6, <2>1, <2>2
  <2>4. QED BY <1>4, <2>1, <2>3
<1>10. ASSUME NEW p \in Proc,
              \/ RestartSkips(p) \/ RecoverSettled(p) \/ CancelRead(p) \/ CancelRevoke(p)
              \/ CancelWrite(p) \/ Crash(p)
       PROVE  TaskProven'
  <2>1. receipts' = receipts /\ holder' = holder
    BY <1>10, AsideEffects, Zenon
  <2>2. CASE task' = task
    BY <1>3, <2>1, <2>2, Zenon
  <2>3. CASE CancelWrite(p) /\ task' # task
    <3>1. holder' = NoProc /\ task'.state = "cancelled"
      BY <2>1, <2>3, AsideEffects
    <3>2. QED BY <3>1 DEF TaskProven
  <2>4. CASE RecoverSettled(p)
    <3>1. /\ holder' = NoProc /\ task'.n = task.n /\ task'.status = task.status
          /\ task'.state = IF FirstIncomplete = 0 THEN "completed" ELSE "failed"
      BY <2>1, <2>4, AsideEffects, Zenon
    <3>2. task.state # "cancelled"
      BY <2>4 DEF RecoverSettled, Interrupted
    <3>3. \A s \in Step : Plan[s].mutating /\ task'.status[s] = "completed" => LastReceipt(s)' = "succeeded"
      BY <1>5, <2>1, <3>1, <3>2, Zenon
    <3>4. FirstIncomplete = 0 => unresolvedTaskSteps(task)' = {}
      <4>1. SUFFICES ASSUME FirstIncomplete = 0 PROVE \A s \in 1..task'.n : task'.status[s] \in Resolved
        BY NothingUnresolved
      <4>2. QED BY <3>1, <4>1, NothingIncomplete DEF Resolved
    <3>5. QED BY <3>1, <3>3, <3>4 DEF TaskProven, Proven
  <2>5. RestartSkips(p) \/ CancelRead(p) \/ CancelRevoke(p) \/ Crash(p) => task' = task
    BY AsideEffects, Zenon
  <2>6. QED BY <1>10, <2>2, <2>3, <2>4, <2>5, Zenon
<1>11. ASSUME NEW p \in Proc, LoopStep(p) PROVE TaskProven'
  <2>1. /\ proc[p].pc \notin Away
        /\ (StaysInLoop(p) /\ holder' = holder) \/ Leaves(p)
        /\ holder = p \/ UNCHANGED <<task, receipts>>
    BY <1>11, LoopLease, Zenon
  <2>2. holder' = holder \/ holder' = NoProc
    BY <2>1 DEF Leaves
  <2>3. CASE UNCHANGED <<task, receipts>>
    BY <1>3, <2>2, <2>3, Zenon
  <2>4. CASE holder = p
    <3>1. /\ RunnerProven(p) /\ Proven(plan[p].status) /\ plan[p].n = task.n
          /\ task.state \notin {"completed", "cancelled"} /\ ReceiptInHand(p)
      BY <1>2, <2>1, <2>4, ProcAssumption, Zenon DEF CompletionInv, RunnerProven, Runs
    <3>2. task.state # "cancelled"
      BY <3>1
    <3>3. CASE EnterLoop(p) \/ EnterStep(p) \/ Verify(p) \/ Retry(p)
      <4>1. task'.status = task.status /\ receipts' = receipts /\ task'.state \in {"executing", "verifying"}
        BY <3>3, StatusEffects, Zenon DEF StatusWrite
      <4>2. QED BY <1>4, <1>5, <3>2, <4>1
    <3>4. CASE \/ SkipByRunWhen(p) \/ FailUndispatched(p) \/ MarkPendingApproval(p) \/ DispatchStale(p)
               \/ StoreResolved(p) \/ Dispatch(p) \/ SettleStep(p)
      <4>1. PICK i \in Step : i = proc[p].idx
        <5>1. AtStep(p) \/ proc[p].pc \in {"step", "resolved", "settling"}
          BY <3>4, StepEffects, Zenon DEF Moves, SkipByRunWhen
        <5>2. proc[p].pc \in AtOneStep \/ AtStep(p)
          BY <5>1 DEF AtOneStep
        <5>3. QED BY <5>2, AtStepFacts
      <4>2. \A s \in Step \ {i} : receipts'[s] = receipts[s]
        <5>1. CASE Dispatch(p)
          BY <4>1, <5>1, LastBegun
        <5>2. CASE ~Dispatch(p)
          <6>1. receipts' = receipts
            BY <3>4, <5>2, StepEffects, Zenon
          <6>2. QED BY <6>1
        <5>3. QED BY <5>1, <5>2
      <4>3. \E v : StepWrite(p, v) /\ (Plan[i].mutating /\ v = "completed" => LastReceipt(i)' = "succeeded")
        <5>1. CASE SkipByRunWhen(p) \/ FailUndispatched(p) \/ MarkPendingApproval(p) \/ DispatchStale(p) \/ StoreResolved(p)
          <6>1. \E v \in {"cancelled", "failed", "blocked", "pending_approval", "outcome_unknown", "running"} : StepWrite(p, v)
            BY <5>1, StepEffects, Zenon
          <6>2. QED BY <6>1
        <5>2. CASE Dispatch(p)
          <6> DEFINE v == IF proc[p].pc = "resolved" THEN plan[p].status[proc[p].idx] ELSE "running"
          <6>1. StepWrite(p, v)
            BY <5>2, StepEffects, Zenon
          <6>2. v # "completed"
            BY <3>1 DEF RunnerProven
          <6> HIDE DEF v
          <6>3. QED BY <6>1, <6>2
        <5>3. CASE SettleStep(p)
          <6> DEFINE v == StatusFor(proc[p].result)
          <6>1. StepWrite(p, v) /\ receipts' = receipts /\ proc[p].pc = "settling"
            BY <5>3, StepEffects, Zenon DEF Moves
          <6>2. v = "completed" => proc[p].result = "succeeded"
            BY Zenon DEF StatusFor
          <6> HIDE DEF v
          <6>3. Plan[i].mutating /\ v = "completed" => LastReceipt(i)' = "succeeded"
            BY <3>1, <4>1, <6>1, <6>2, Zenon DEF RunnerProven, LastReceipt
          <6>4. QED BY <6>1, <6>3, Zenon
        <5>4. QED BY <3>4, <5>1, <5>2, <5>3, Zenon
      <4>4. PICK v : StepWrite(p, v) /\ (Plan[i].mutating /\ v = "completed" => LastReceipt(i)' = "succeeded")
        BY <4>3
      <4>5. task'.state = task.state /\ task'.status = [task.status EXCEPT ![i] = v]
        BY <4>1, <4>4, Zenon DEF StepWrite
      <4>6. /\ task'.status[i] = v
            /\ \A s \in Step \ {i} : task'.status[s] = task.status[s] /\ receipts'[s] = receipts[s]
        BY <1>1, <4>2, <4>5
      <4>7. \A s \in Step : Plan[s].mutating /\ task'.status[s] = "completed" => LastReceipt(s)' = "succeeded"
        BY <1>6, <3>2, <4>4, <4>6
      <4>8. QED BY <1>4, <3>1, <4>5, <4>7, Zenon
    <3>5. CASE \/ MoveWaiting(p) \/ ReturnPending(p) \/ MoveFailed(p) \/ MoveRecovering(p)
               \/ Finish(p) \/ RecoverOrphan(p)
      <4>1. \E st : /\ PlanWrite(p, st) /\ st # "cancelled"
                    /\ st = "completed" => holder' = NoProc /\ unresolvedTaskSteps(plan[p]) = {}
        <5>1. CASE MoveWaiting(p) \/ ReturnPending(p) \/ MoveFailed(p) \/ MoveRecovering(p) \/ RecoverOrphan(p)
          <6>1. \E st \in {"waiting_approval", "pending_approval", "failed", "recovering"} : PlanWrite(p, st)
            BY <5>1, PlanEffects, Zenon
          <6>2. QED BY <6>1
        <5>2. CASE Finish(p)
          <6> DEFINE st == IF unresolvedTaskSteps(plan[p]) = {} THEN "completed" ELSE "failed"
          <6>1. PlanWrite(p, st) /\ Leaves(p)
            BY <5>2, PlanEffects, Zenon
          <6>2. st # "cancelled" /\ (st = "completed" => unresolvedTaskSteps(plan[p]) = {})
            OBVIOUS
          <6>3. holder' = NoProc
            BY <2>4, <6>1 DEF Leaves
          <6> HIDE DEF st
          <6>4. QED BY <6>1, <6>2, <6>3, Zenon
        <5>3. QED BY <3>5, <5>1, <5>2, Zenon
      <4>2. PICK st : /\ PlanWrite(p, st) /\ st # "cancelled"
                      /\ st = "completed" => holder' = NoProc /\ unresolvedTaskSteps(plan[p]) = {}
        BY <4>1
      <4>3. /\ task'.n = task.n /\ task'.state = st /\ receipts' = receipts
            /\ task'.status = [s \in Step |-> IF s <= plan[p].n THEN plan[p].status[s] ELSE task.status[s]]
        BY <4>2, Zenon DEF PlanWrite
      <4>4. \A s \in Step : task'.status[s] = IF s <= plan[p].n THEN plan[p].status[s] ELSE task.status[s]
        BY <4>3
      <4>5. Proven(task.status)
        BY <1>2, <3>2
      <4>6. \A s \in Step : Plan[s].mutating /\ task'.status[s] = "completed" => LastReceipt(s)' = "succeeded"
        BY <3>1, <4>3, <4>4, <4>5 DEF Proven, LastReceipt
      <4>7. CASE st = "completed"
        <5>1. \A s \in 1..plan[p].n : plan[p].status[s] \in Resolved
          BY <4>2, <4>7, NothingUnresolved, Zenon
        <5>2. \A s \in 1..task'.n : task'.status[s] \in Resolved
          BY <1>1, <3>1, <4>3, <4>4, <5>1 DEF Step
        <5>3. unresolvedTaskSteps(task)' = {}
          BY <5>2, NothingUnresolved
        <5>4. QED BY <4>2, <4>6, <4>7, <5>3, Zenon DEF TaskProven, Proven
      <4>8. CASE st # "completed"
        BY <1>4, <4>2, <4>3, <4>6, <4>8
      <4>9. QED BY <4>7, <4>8
    <3>6. CASE CreateApproval(p) \/ Invoke(p) \/ Fenced(p)
      BY <2>3, <3>6, Zenon DEF CreateApproval, Invoke, Fenced
    <3>7. CASE ToolReturns(p) \/ ToolDenied(p)
      <4>1. PICK i \in Step :
              /\ i = proc[p].idx /\ proc[p].pc \in {"awaiting", "invoked"}
              /\ \A s \in Step \ {i} : receipts'[s] = receipts[s]
              /\ task' = task
        BY <3>1, <3>7, SettledReceipt, Zenon
      <4>2. task.status[i] = "running"
        BY <3>1, <4>1 DEF RunnerProven
      <4>3. \A s \in Step : Plan[s].mutating /\ task'.status[s] = "completed" => LastReceipt(s)' = "succeeded"
        BY <1>6, <3>2, <4>1, <4>2
      <4>4. QED BY <1>4, <3>1, <4>1, <4>3
    <3>8. QED BY <1>11, <3>3, <3>4, <3>5, <3>6, <3>7, Zenon DEF LoopStep
  <2>5. QED BY <2>1, <2>3, <2>4
<1>12. ASSUME \/ \E a \in DOMAIN approvals : Approve(a) \/ ApprovalExpires(a)
              \/ LeaseExpires \/ ContextMoves \/ UNCHANGED vars
       PROVE  TaskProven'
  BY <1>3, <1>12, Zenon DEF Approve, ApprovalExpires, LeaseExpires, ContextMoves, vars
<1>13. ASSUME AppendSteps PROVE TaskProven'
  <2>1. receipts' = receipts /\ task' = [task EXCEPT !.state = "planning", !.n = task.n + 1, !.runs = 0]
        /\ task.state = "failed"
    BY <1>13, Zenon DEF AppendSteps
  <2>2. task'.status = task.status /\ task'.state = "planning" /\ task.state # "cancelled"
    BY <1>1, <2>1 DEF TaskPlan
  <2>3. QED BY <1>4, <1>5, <2>1, <2>2
<1>14. ASSUME NEW s \in Step, NEW d \in Decision, Reconcile(s, d) PROVE TaskProven'
  <2> DEFINE v == CASE d = "confirmed_succeeded" -> "reconciled_succeeded"
                    [] d = "confirmed_failed" -> "reconciled_failed"
                    [] OTHER -> "pending"
             pl == SetStep(task, s, v)
             st == CASE d = "confirmed_failed" -> "failed"
                     [] d = "confirmed_succeeded" /\ unresolvedTaskSteps(pl) = {} -> "completed"
                     [] OTHER -> "planning"
  <2>1. task' = [pl EXCEPT !.state = st]
    BY <1>14, Zenon DEF Reconcile
  <2>2. /\ holder = NoProc /\ holder' = NoProc /\ task.state = "failed"
        /\ \/ LastReceipt(s) = "outcome_unknown" /\ finishStepExecutionReceipt(s, "outcome_reconciled")
           \/ receipts' = receipts
    BY <1>14, Zenon DEF Reconcile, UnleasedWrite
  <2>3. v \in StepStatus /\ v # "completed"
    BY Zenon DEF StepStatus
  <2>4. st # "cancelled" /\ (st = "completed" => unresolvedTaskSteps(pl) = {})
    BY Zenon
  <2> HIDE DEF v, st
  <2>5. pl \in TaskPlan /\ pl.status = [task.status EXCEPT ![s] = v] /\ pl.n = task.n
    BY <1>1, <2>3, SetStepType, Zenon DEF SetStep, TaskPlan
  <2> HIDE DEF pl
  <2>6. task'.state = st /\ task'.n = pl.n /\ task'.status = pl.status
    BY <2>1, <2>5 DEF TaskPlan
  <2>7. \A t \in Step \ {s} : receipts'[t] = receipts[t]
    BY <2>2, LastFinished
  <2>8. \A t \in Step \ {s} : task'.status[t] = task.status[t] /\ receipts'[t] = receipts[t]
    BY <1>1, <2>5, <2>6, <2>7
  <2>9. task'.status[s] # "completed" /\ task.state # "cancelled"
    BY <1>1, <2>2, <2>3, <2>5, <2>6
  <2>10. \A t \in Step : Plan[t].mutating /\ task'.status[t] = "completed" => LastReceipt(t)' = "succeeded"
    BY <1>6, <2>8, <2>9, Zenon
  <2>11. st = "completed" => unresolvedTaskSteps(task)' = {}
    <3>1. SUFFICES ASSUME st = "completed" PROVE \A t \in 1..task'.n : task'.status[t] \in Resolved
      BY NothingUnresolved
    <3>2. \A t \in 1..pl.n : pl.status[t] \in Resolved
      BY <2>4, <3>1, NothingUnresolved, Zenon
    <3>3. QED BY <2>6, <3>2
  <2>12. QED BY <2>2, <2>4, <2>6, <2>10, <2>11, Zenon DEF TaskProven, Proven
<1>15. QED BY <1>7, <1>8, <1>9, <1>10, <1>11, <1>12, <1>13, <1>14, Zenon DEF Next

\* CompletionInv holds at first.
LEMMA CompletionInit ==
  ASSUME Init
  PROVE  CompletionInv
<1>1. holder = NoProc /\ task.state = "planning" /\ \A s \in Step : task.status[s] = "pending"
  BY DEF Init, NewTask
<1>2. \A p \in Proc : proc[p].pc = "idle"
  BY DEF Init, IdleProcess
<1>3. TaskProven
  BY <1>1 DEF TaskProven, Proven
<1>4. \A p \in Proc : ReceiptInHand(p) /\ ~Runs(p)
  BY <1>2 DEF ReceiptInHand, Runs, Away
<1>5. QED BY <1>3, <1>4, Zenon DEF CompletionInv

\* A step of any process or operator keeps CompletionInv.
LEMMA CompletionStep ==
  ASSUME SetFacts, TypeInv, CompletionInv, [Next]_vars
  PROVE  CompletionInv'
<1>1. \A p \in Proc : ReceiptInHand(p)
  BY Zenon DEF CompletionInv
<1>2. QED BY <1>1, TaskProvenStep, ReceiptInHandStep, RunnerProvenStep, Zenon DEF CompletionInv

-----------------------------------------------------------------------------
(* An unknown outcome is not forgotten, in a plan whose steps need no approval. *)

NoApprovals == \A s \in Step : Plan[s].governance # "approval_required"

\* Nobody asks for an approval.
NoRequests ==
  /\ DOMAIN approvals = {}
  /\ \A p \in Proc : proc[p].pc \notin {"asking", "waiting", "asked"}

\* The process that runs the task is at a step of its plan; it has seen every unknown
\* outcome of the task and is about to stop for it.
RunnerKnows(p) ==
  /\ proc[p].pc \in AtOneStep => proc[p].idx <= plan[p].n
  /\ \A s \in Step : task.status[s] = "outcome_unknown" =>
                       proc[p].pc = "failing" /\ plan[p].status[s] = "outcome_unknown"
  /\ proc[p].pc \notin {"failing", "orphan"} => \A s \in Step : plan[p].status[s] # "outcome_unknown"

\* Only a step of the task has an unknown outcome.
UnknownInside ==
  task.state # "cancelled" => \A s \in Step : task.status[s] = "outcome_unknown" => s <= task.n

\* The inductive invariant behind UnknownUntilReconciled.
UnknownInv == NoRequests /\ UnknownInside /\ \A p \in Proc : Runs(p) => RunnerKnows(p)

\* What UnknownUntilReconciled asks of one step.
UnknownKept ==
  \A s \in Step :
    task.status[s] = "outcome_unknown" /\ task'.status[s] # "outcome_unknown" =>
      \/ task'.state = "cancelled"
      \/ /\ task.state = "failed" /\ holder = NoProc
         /\ task'.status[s] = "pending" => Plan[s].idempotent

\* The writes of step statuses: by the process that runs the task, of one step or of
\* its whole plan, by a cancellation and by an operator.
LEMMA TaskWrites ==
  ASSUME TypeInv, CompletionInv, [Next]_vars
  PROVE  \/ /\ task'.status = task.status /\ task'.n \in {task.n, task.n + 1}
            /\ task.state = "cancelled" => task'.state = "cancelled"
         \/ task'.state = "cancelled"
         \/ \E p \in Proc : /\ Runs(p) /\ proc[p].pc # "failing" /\ proc[p].idx \in Step
                            /\ \E v : StepWrite(p, v)
                            /\ proc[p].pc \in AtOneStep \/ AtStep(p)
         \/ \E p \in Proc : Runs(p) /\ \E st : PlanWrite(p, st)
         \/ \E s \in Step, d \in Decision : Reconcile(s, d)
<1> DEFINE Same == /\ task'.status = task.status /\ task'.n \in {task.n, task.n + 1}
                   /\ task.state = "cancelled" => task'.state = "cancelled"
           One == \E p \in Proc : /\ Runs(p) /\ proc[p].pc # "failing" /\ proc[p].idx \in Step
                                  /\ \E v : StepWrite(p, v)
                                  /\ proc[p].pc \in AtOneStep \/ AtStep(p)
           All == \E p \in Proc : Runs(p) /\ \E st : PlanWrite(p, st)
<1>1. task \in TaskPlan /\ (holder # NoProc => task.state # "cancelled")
  BY DEF TypeInv, TypeOK, CompletionInv, TaskProven
<1>2. task' = task => Same
  BY Zenon
<1>3. ASSUME NEW p \in Proc,
             \/ Run(p) \/ RecoverReceipt(p) \/ RecoverResumes(p) \/ \E a \in DOMAIN approvals : Resume(p, a)
      PROVE  Same
  <2>1. task'.status = task.status /\ task'.n = task.n
    BY <1>3, StartEffects, Zenon
  <2>2. task.state # "cancelled"
    BY <1>3, StartState
  <2>3. QED BY <2>1, <2>2
<1>4. ASSUME NEW p \in Proc,
             \/ RestartSkips(p) \/ RecoverSettled(p) \/ CancelRead(p) \/ CancelRevoke(p)
             \/ CancelWrite(p) \/ Crash(p)
      PROVE  Same \/ task'.state = "cancelled"
  <2>1. CASE RecoverSettled(p)
    <3>1. task'.status = task.status /\ task'.n = task.n
      BY <2>1, AsideEffects, Zenon
    <3>2. task.state # "cancelled"
      BY <2>1 DEF RecoverSettled, Interrupted
    <3>3. QED BY <3>1, <3>2
  <2>2. CASE ~RecoverSettled(p)
    <3>1. task' = task \/ task'.state = "cancelled"
      BY <1>4, <2>2, AsideEffects, Zenon
    <3>2. QED BY <1>2, <3>1, Zenon
  <2>3. QED BY <2>1, <2>2
<1>5. ASSUME NEW p \in Proc, LoopStep(p) PROVE Same \/ One \/ All
  <2>1. proc[p].pc \notin Away
    BY <1>5, LoopLease, Zenon
  <2>2. holder = p => Runs(p) /\ task.state # "cancelled"
    BY <1>1, <2>1, ProcAssumption DEF Runs
  <2>3. CASE EnterLoop(p) \/ EnterStep(p) \/ Verify(p) \/ Retry(p)
    <3>1. task'.status = task.status /\ task'.n = task.n /\ holder = p
      BY <2>3, StatusEffects, Zenon DEF StatusWrite
    <3>2. QED BY <2>2, <3>1
  <2>4. CASE \/ SkipByRunWhen(p) \/ FailUndispatched(p) \/ MarkPendingApproval(p) \/ DispatchStale(p)
             \/ StoreResolved(p) \/ Dispatch(p) \/ SettleStep(p)
    <3>1. \E v : StepWrite(p, v)
      BY <2>4, StepEffects, Zenon
    <3>2. AtStep(p) \/ proc[p].pc \in {"step", "resolved", "settling"}
      BY <2>4, StepEffects, Zenon DEF Moves, SkipByRunWhen
    <3>3. (proc[p].pc \in AtOneStep \/ AtStep(p)) /\ proc[p].pc # "failing"
      BY <3>2 DEF AtOneStep, AtStep
    <3>4. proc[p].idx \in Step
      BY <3>3, AtStepFacts
    <3>5. holder = p
      BY <3>1, Zenon DEF StepWrite
    <3>6. QED BY <2>2, <3>1, <3>3, <3>4, <3>5, Zenon
  <2>5. CASE \/ MoveWaiting(p) \/ ReturnPending(p) \/ MoveFailed(p) \/ MoveRecovering(p)
             \/ Finish(p) \/ RecoverOrphan(p)
    <3>1. \E st : PlanWrite(p, st)
      BY <2>5, PlanEffects, Zenon
    <3>2. holder = p
      BY <3>1, Zenon DEF PlanWrite
    <3>3. QED BY <2>2, <3>1, <3>2, Zenon
  <2>6. CASE CreateApproval(p) \/ Invoke(p) \/ Fenced(p) \/ ToolReturns(p) \/ ToolDenied(p)
    <3>1. task' = task
      BY <2>6, Zenon DEF CreateApproval, Invoke, Fenced, ToolReturns, ToolDenied, Settle
    <3>2. QED BY <1>2, <3>1, Zenon
  <2>7. QED BY <1>5, <2>3, <2>4, <2>5, <2>6, Zenon DEF LoopStep
<1>6. ASSUME \/ \E a \in DOMAIN approvals : Approve(a) \/ ApprovalExpires(a)
             \/ LeaseExpires \/ ContextMoves \/ UNCHANGED vars
      PROVE  Same
  <2>1. task' = task
    BY <1>6, Zenon DEF Approve, ApprovalExpires, LeaseExpires, ContextMoves, vars
  <2>2. QED BY <1>2, <2>1, Zenon
<1>7. ASSUME AppendSteps PROVE Same
  <2>1. task' = [task EXCEPT !.state = "planning", !.n = task.n + 1, !.runs = 0] /\ task.state = "failed"
    BY <1>7, Zenon DEF AppendSteps
  <2>2. QED BY <1>1, <2>1 DEF TaskPlan
<1> HIDE DEF Same, One, All
<1>8. Same \/ task'.state = "cancelled" \/ One \/ All \/ \E s \in Step, d \in Decision : Reconcile(s, d)
  BY <1>3, <1>4, <1>5, <1>6, <1>7, Zenon DEF Next
<1>9. QED BY <1>8, Zenon DEF Same, One, All

\* What an operator's decision writes.
LEMMA ReconcileEffects ==
  ASSUME TypeInv, NEW s \in Step, NEW d \in Decision, Reconcile(s, d)
  PROVE  /\ holder = NoProc /\ holder' = NoProc /\ task.state = "failed"
         /\ s <= task.n /\ task.status[s] = "outcome_unknown" /\ task'.n = task.n
         /\ \E v \in {"reconciled_succeeded", "reconciled_failed", "pending"} :
              /\ task'.status = [task.status EXCEPT ![s] = v]
              /\ v = "pending" => Plan[s].idempotent
         /\ \A t \in Step \ {s} : receipts'[t] = receipts[t]
         /\ LastReceipt(s)' = "started" => LastReceipt(s) = "started"
         /\ UNCHANGED <<proc, plan, approvals>>
<1> DEFINE v == CASE d = "confirmed_succeeded" -> "reconciled_succeeded"
                  [] d = "confirmed_failed" -> "reconciled_failed"
                  [] OTHER -> "pending"
           pl == SetStep(task, s, v)
           st == CASE d = "confirmed_failed" -> "failed"
                   [] d = "confirmed_succeeded" /\ unresolvedTaskSteps(pl) = {} -> "completed"
                   [] OTHER -> "planning"
<1>1. task' = [pl EXCEPT !.state = st]
  BY Zenon DEF Reconcile
<1>2. /\ holder = NoProc /\ holder' = NoProc /\ task.state = "failed"
      /\ s <= task.n /\ task.status[s] = "outcome_unknown"
      /\ d = "safe_to_retry" => Plan[s].idempotent
      /\ \/ LastReceipt(s) = "outcome_unknown" /\ finishStepExecutionReceipt(s, "outcome_reconciled")
         \/ receipts' = receipts
      /\ UNCHANGED <<proc, plan, approvals>>
  BY Zenon DEF Reconcile, UnleasedWrite
<1>3. /\ v \in {"reconciled_succeeded", "reconciled_failed", "pending"}
      /\ v = "pending" => d = "safe_to_retry"
  BY DEF Decision
<1>4. v \in StepStatus
  BY <1>3 DEF StepStatus
<1> HIDE DEF v, st
<1>5. pl \in TaskPlan /\ pl.status = [task.status EXCEPT ![s] = v] /\ pl.n = task.n
  BY <1>4, SetStepType, Zenon DEF SetStep, TaskPlan, TypeInv, TypeOK
<1> HIDE DEF pl
<1>6. task'.n = task.n /\ task'.status = [task.status EXCEPT ![s] = v]
  BY <1>1, <1>5 DEF TaskPlan
<1>7. /\ \A t \in Step \ {s} : receipts'[t] = receipts[t]
      /\ LastReceipt(s)' = "started" => LastReceipt(s) = "started"
  <2>1. CASE LastReceipt(s) = "outcome_unknown" /\ finishStepExecutionReceipt(s, "outcome_reconciled")
    <3>1. receipts[s] # <<>>
      BY <2>1 DEF LastReceipt
    <3>2. LastReceipt(s)' = "outcome_reconciled" /\ \A t \in Step \ {s} : receipts'[t] = receipts[t]
      BY <2>1, <3>1, LastFinished
    <3>3. QED BY <3>2
  <2>2. CASE receipts' = receipts
    BY <2>2 DEF LastReceipt
  <2>3. QED BY <1>2, <2>1, <2>2
<1>8. v = "pending" => Plan[s].idempotent
  BY <1>2, <1>3, Zenon
<1>9. QED BY <1>2, <1>3, <1>6, <1>7, <1>8, Zenon

\* A plan whose steps need no approval never leads to a request for one.
LEMMA NoRequestsStep ==
  ASSUME NoApprovals, TypeInv, NoRequests, [Next]_vars
  PROVE  NoRequests'
<1> DEFINE Asking == {"asking", "waiting", "asked"}
<1>1. \A p \in Proc : proc[p].pc \notin Asking
  BY Zenon DEF NoRequests
<1>2. ASSUME NEW p \in Proc, OthersKept(p), proc'[p].pc \notin Asking,
             approvals' = approvals \/ approvals' = revokeTaskApprovals
      PROVE  NoRequests'
  <2>1. DOMAIN approvals' = {}
    BY <1>2 DEF NoRequests, revokeTaskApprovals
  <2>2. \A q \in Proc : proc'[q].pc \notin Asking
    BY <1>1, <1>2, Zenon DEF OthersKept
  <2>3. QED BY <2>1, <2>2, Zenon DEF NoRequests
<1>3. ASSUME NEW p \in Proc, Run(p) \/ RecoverReceipt(p) \/ RecoverResumes(p) PROVE NoRequests'
  <2>1. OthersKept(p) /\ proc'[p].pc \in {"entering", "orphan"}
    BY <1>3, StartEffects, Zenon DEF Begins
  <2>2. approvals' = approvals
    BY <1>3, Zenon DEF Run, RecoverReceipt, RecoverResumes
  <2>3. proc'[p].pc \notin Asking
    BY <2>1
  <2>4. QED BY <1>2, <2>1, <2>2, <2>3, Zenon
<1>4. ASSUME NEW p \in Proc,
             \/ RestartSkips(p) \/ RecoverSettled(p) \/ CancelRead(p) \/ CancelRevoke(p)
             \/ CancelWrite(p) \/ Crash(p)
      PROVE  NoRequests'
  <2>1. OthersKept(p) /\ proc'[p].pc \in Away
    BY <1>4, AsideEffects, Zenon
  <2>2. approvals' = approvals \/ approvals' = revokeTaskApprovals
    BY <1>4, Zenon DEF RestartSkips, RecoverSettled, CancelRead, CancelRevoke, CancelWrite, Crash
  <2>3. proc'[p].pc \notin Asking
    BY <2>1 DEF Away
  <2>4. QED BY <1>2, <2>1, <2>2, <2>3, Zenon
<1>5. ASSUME NEW p \in Proc, LoopStep(p) PROVE NoRequests'
  <2>1. OthersKept(p)
    BY <1>5, LoopEffects, Zenon
  <2>2. CASE EnterLoop(p) \/ EnterStep(p) \/ Verify(p) \/ Retry(p)
    <3>1. proc'[p].pc \in {"failing", "loop", "step", "verifying"}
      BY <2>2, StatusEffects, Zenon DEF Moves
    <3>2. approvals' = approvals
      BY <2>2, Zenon DEF EnterLoop, EnterStep, Verify, Retry
    <3>3. proc'[p].pc \notin Asking
      BY <3>1
    <3>4. QED BY <1>2, <2>1, <3>2, <3>3, Zenon
  <2>3. CASE \/ SkipByRunWhen(p) \/ FailUndispatched(p) \/ StoreResolved(p) \/ Dispatch(p)
             \/ DispatchStale(p) \/ SettleStep(p)
    <3>1. proc'[p].pc \in {"loop", "resolved", "awaiting", "failing", "retrying"}
      BY <2>3, StepEffects, Zenon DEF Moves
    <3>2. approvals' = approvals
      BY <2>3, Zenon DEF SkipByRunWhen, FailUndispatched, StoreResolved, Dispatch, DispatchStale, SettleStep
    <3>3. proc'[p].pc \notin Asking
      BY <3>1
    <3>4. QED BY <1>2, <2>1, <3>2, <3>3, Zenon
  <2>4. CASE MoveFailed(p) \/ MoveRecovering(p) \/ Finish(p) \/ RecoverOrphan(p) \/ Fenced(p)
    <3>1. proc'[p].pc \in {"backoff", "loop", "idle"}
      BY <2>4, PlanEffects, Zenon DEF Moves, Leaves
    <3>2. approvals' = approvals
      BY <2>4, Zenon DEF MoveFailed, MoveRecovering, Finish, RecoverOrphan, Fenced
    <3>3. proc'[p].pc \notin Asking
      BY <3>1
    <3>4. QED BY <1>2, <2>1, <3>2, <3>3, Zenon
  <2>5. CASE Invoke(p)
    <3>1. \/ approvals' = approvals
          \/ approvals' = [approvals EXCEPT ![proc[p].grant].dispatched = TRUE]
      BY <2>5, Zenon DEF Invoke
    <3>2. DOMAIN approvals' = {}
      BY <3>1 DEF NoRequests
    <3>3. proc'[p].pc = "invoked"
      BY <2>5, CallEffects, Zenon DEF Moves
    <3>4. \A q \in Proc : proc'[q].pc \notin Asking
      BY <1>1, <2>1, <3>3 DEF OthersKept
    <3>5. QED BY <3>2, <3>4, Zenon DEF NoRequests
  <2>6. CASE ToolReturns(p) \/ ToolDenied(p)
    <3>1. PICK o \in Outcome : Settle(p, o)
      BY <2>6 DEF ToolReturns, ToolDenied, Outcome
    <3>2. proc'[p].pc = "settling"
      BY <3>1, CallEffects, Zenon DEF Moves
    <3>3. approvals' = approvals
      BY <3>1, Zenon DEF Settle
    <3>4. proc'[p].pc \notin Asking
      BY <3>2
    <3>5. QED BY <1>2, <2>1, <3>3, <3>4, Zenon
  <2>7. ~(MoveWaiting(p) \/ CreateApproval(p) \/ ReturnPending(p))
    BY <1>1 DEF MoveWaiting, CreateApproval, ReturnPending
  <2>8. ~MarkPendingApproval(p)
    <3>1. ASSUME MarkPendingApproval(p) PROVE FALSE
      <4>1. proc[p].pc = "step" /\ Plan[proc[p].idx].governance = "approval_required"
        BY <3>1, Zenon DEF MarkPendingApproval
      <4>2. proc[p].idx \in Step
        BY <4>1, AtStepFacts DEF AtOneStep
      <4>3. QED BY <4>1, <4>2, Zenon DEF NoApprovals
    <3>2. QED BY <3>1
  <2>9. QED BY <1>5, <2>2, <2>3, <2>4, <2>5, <2>6, <2>7, <2>8, Zenon DEF LoopStep
<1>6. ASSUME UNCHANGED <<approvals, proc>> PROVE NoRequests'
  BY <1>6, Zenon DEF NoRequests
<1>7. ASSUME \/ AppendSteps \/ LeaseExpires \/ ContextMoves \/ UNCHANGED vars
             \/ \E s \in Step, d \in Decision : Reconcile(s, d)
      PROVE  NoRequests'
  BY <1>6, <1>7, Zenon DEF AppendSteps, LeaseExpires, ContextMoves, Reconcile, vars
<1>8. ~\E a \in DOMAIN approvals : TRUE
  BY DEF NoRequests
<1>9. QED BY <1>3, <1>4, <1>5, <1>7, <1>8, Zenon DEF Next

\* The process that runs the task knows of every unknown outcome.
LEMMA RunnerKnowsStep ==
  ASSUME TypeInv, CompletionInv, UnknownInv, [Next]_vars, NEW q \in Proc, Runs(q)'
  PROVE  RunnerKnows(q)'
<1>1. /\ plan[q] \in TaskPlan /\ plan[q].status \in [Step -> StepStatus] /\ plan[q].n \in Nat
      /\ task \in TaskPlan /\ task.status \in [Step -> StepStatus] /\ task.n \in Nat
  <2>1. plan[q] \in TaskPlan /\ task \in TaskPlan
    BY DEF TypeInv, TypeOK
  <2>2. /\ plan[q].status \in [Step -> StepStatus] /\ plan[q].n \in Step
        /\ task.status \in [Step -> StepStatus] /\ task.n \in Step
    BY <2>1, Zenon DEF TaskPlan
  <2>3. Step \subseteq Nat
    BY SizeAssumption DEF Step
  <2>4. QED BY <2>1, <2>2, <2>3, Zenon
\* Nothing is unknown, neither in the task nor in the plan.
<1>2. ASSUME proc'[q].pc \in AtOneStep => proc'[q].idx <= plan'[q].n,
             \A s \in Step : task'.status[s] # "outcome_unknown",
             proc'[q].pc = "orphan" \/ \A s \in Step : plan'[q].status[s] # "outcome_unknown"
      PROVE  RunnerKnows(q)'
  BY <1>2, Zenon DEF RunnerKnows
<1>3. ASSUME Run(q) \/ RecoverReceipt(q) \/ RecoverResumes(q) PROVE RunnerKnows(q)'
  <2>1. ~HasUnknown(task)
    BY <1>3, Zenon DEF Run, RecoverReceipt, RecoverResumes
  <2>2. task.state # "cancelled"
    BY <1>3, StartState
  <2>3. \A s \in Step : task.status[s] # "outcome_unknown"
    BY <1>1, <2>1, <2>2 DEF UnknownInv, UnknownInside, HasUnknown, StepsIn, StepsOf, Step
  <2>4. task'.status = task.status /\ proc'[q].pc \in {"entering", "orphan"}
    BY <1>3, StartEffects, Zenon DEF Begins
  <2>5. proc'[q].pc \notin AtOneStep
    BY <2>4 DEF AtOneStep
  <2>6. proc'[q].pc = "orphan" \/ \A s \in Step : plan'[q].status[s] # "outcome_unknown"
    <3>1. CASE Run(q)
      <4>1. plan'[q].status = task.status
        BY <3>1, StartEffects, Zenon DEF Begins
      <4>2. QED BY <2>3, <4>1
    <3>2. CASE RecoverReceipt(q)
      BY <3>2, StartEffects, Zenon DEF Begins
    <3>3. CASE RecoverResumes(q)
      <4>1. plan'[q].status = IF task.status[FirstIncomplete] = "running"
                              THEN [task.status EXCEPT ![FirstIncomplete] = "pending"] ELSE task.status
        BY <3>3, StartEffects, Zenon DEF Begins
      <4>2. QED BY <1>1, <2>3, <4>1
    <3>4. QED BY <1>3, <3>1, <3>2, <3>3
  <2>7. QED BY <1>2, <2>3, <2>4, <2>5, <2>6, Zenon
<1>4. ASSUME Runs(q), UNCHANGED <<task, receipts>>, proc'[q] = proc[q], plan'[q] = plan[q]
      PROVE  RunnerKnows(q)'
  <2>1. RunnerKnows(q)
    BY <1>4, Zenon DEF UnknownInv
  <2>2. QED BY <1>4, <2>1, Zenon DEF RunnerKnows
<1>5. ASSUME Runs(q), StaysInLoop(q) PROVE RunnerKnows(q)'
  <2>1. RunnerKnows(q)
    BY <1>5, Zenon DEF UnknownInv
  <2>2. ASSUME proc[q].pc \notin {"failing", "orphan"}
        PROVE  \A s \in Step : task.status[s] # "outcome_unknown" /\ plan[q].status[s] # "outcome_unknown"
    BY <2>1, <2>2 DEF RunnerKnows
  <2>3. CASE EnterLoop(q) \/ EnterStep(q) \/ Verify(q) \/ Retry(q)
    <3>1. /\ plan'[q].n = plan[q].n /\ task'.status = task.status
          /\ \/ plan'[q].status = plan[q].status
             \/ plan'[q].status = [plan[q].status EXCEPT ![proc[q].idx] = "pending"]
          /\ proc[q].pc \in {"entering", "loop", "backoff"}
          /\ proc'[q].pc \in {"failing", "loop", "step", "verifying"}
          /\ proc'[q].pc = "step" => EnterStep(q) /\ proc'[q].idx = proc[q].idx
      BY <2>3, StatusEffects, Zenon DEF StatusWrite, Moves
    <3>2. proc'[q].pc = "step" => proc[q].idx <= plan[q].n
      BY <3>1 DEF EnterStep, AtStep
    <3>3. proc[q].pc \notin {"failing", "orphan"} /\ (proc'[q].pc \in AtOneStep => proc'[q].pc = "step")
      BY <3>1 DEF AtOneStep
    <3>4. \A s \in Step : plan'[q].status[s] # "outcome_unknown"
      BY <1>1, <2>2, <3>1, <3>3
    <3>5. \A s \in Step : task'.status[s] # "outcome_unknown"
      BY <2>2, <3>1, <3>3, Zenon
    <3>6. proc'[q].pc \in AtOneStep => proc'[q].idx <= plan'[q].n
      BY <3>1, <3>2, <3>3, Zenon
    <3>7. QED BY <1>2, <3>4, <3>5, <3>6
  <2>4. CASE \/ SkipByRunWhen(q) \/ FailUndispatched(q) \/ StoreResolved(q) \/ Dispatch(q)
             \/ DispatchStale(q) \/ SettleStep(q) \/ MarkPendingApproval(q)
    <3>1. PICK v : /\ StepWrite(q, v)
                   /\ v = "outcome_unknown" => proc'[q].pc = "failing"
      <4>1. CASE Dispatch(q)
        <5> DEFINE v == IF proc[q].pc = "resolved" THEN plan[q].status[proc[q].idx] ELSE "running"
        <5>1. StepWrite(q, v) /\ proc[q].pc \in {"step", "resolved"}
          BY <4>1, StepEffects, Zenon
        <5>2. proc[q].idx \in Step
          BY <5>1, AtStepFacts, Zenon DEF AtOneStep
        <5>3. v # "outcome_unknown"
          BY <2>2, <5>1, <5>2, Zenon
        <5> HIDE DEF v
        <5>4. QED BY <5>1, <5>3
      <4>2. CASE SettleStep(q)
        <5> DEFINE v == StatusFor(proc[q].result)
        <5>1. /\ StepWrite(q, v)
              /\ proc'[q].pc = "failing" \/ proc[q].result # "unknown"
          BY <4>2, StepEffects, Zenon DEF Moves
        <5>2. v = "outcome_unknown" => proc[q].result = "unknown"
          BY Zenon DEF StatusFor
        <5> HIDE DEF v
        <5>3. QED BY <5>1, <5>2, Zenon
      <4>3. CASE DispatchStale(q)
        BY <4>3, StepEffects, Zenon DEF Moves
      <4>4. CASE SkipByRunWhen(q) \/ FailUndispatched(q) \/ StoreResolved(q) \/ MarkPendingApproval(q)
        <5>1. \E v \in {"cancelled", "failed", "blocked", "running", "pending_approval"} : StepWrite(q, v)
          BY <4>4, StepEffects, Zenon
        <5>2. QED BY <5>1
      <4>5. QED BY <2>4, <4>1, <4>2, <4>3, <4>4, Zenon
    <3>2. /\ plan'[q].n = plan[q].n
          /\ task'.status = [task.status EXCEPT ![proc[q].idx] = v]
          /\ plan'[q].status = [plan[q].status EXCEPT ![proc[q].idx] = v]
      BY <3>1, Zenon DEF StepWrite
    <3>3. /\ proc[q].pc \in {"loop", "step", "resolved", "settling"}
          /\ proc'[q].pc \in {"resolved", "awaiting", "asking", "retrying"} =>
               proc[q].pc # "loop" /\ proc'[q].idx = proc[q].idx
          /\ proc'[q].pc \in {"loop", "failing", "resolved", "awaiting", "asking", "retrying"}
      BY <2>4, StepEffects, Zenon DEF Moves
    <3>4. proc'[q].pc \in AtOneStep => proc'[q].idx <= plan'[q].n
      BY <2>1, <3>2, <3>3, Zenon DEF RunnerKnows, AtOneStep
    <3>5. \A s \in Step : task.status[s] # "outcome_unknown" /\ plan[q].status[s] # "outcome_unknown"
      BY <2>2, <3>3, Zenon
    <3>6. ASSUME NEW s \in Step
          PROVE  /\ task'.status[s] = "outcome_unknown" => s = proc[q].idx /\ v = "outcome_unknown"
                 /\ plan'[q].status[s] = "outcome_unknown" => s = proc[q].idx /\ v = "outcome_unknown"
                 /\ s = proc[q].idx => plan'[q].status[s] = v
      BY <1>1, <3>2, <3>5
    <3>7. \A s \in Step : task'.status[s] = "outcome_unknown" =>
                            proc'[q].pc = "failing" /\ plan'[q].status[s] = "outcome_unknown"
      BY <3>1, <3>6
    <3>8. proc'[q].pc # "failing" => \A s \in Step : plan'[q].status[s] # "outcome_unknown"
      BY <3>1, <3>6
    <3>9. QED BY <3>4, <3>7, <3>8, Zenon DEF RunnerKnows
  <2>5. CASE MoveRecovering(q)
    <3>1. /\ proc[q].pc = "retrying" /\ plan'[q].n = plan[q].n /\ plan'[q].status = plan[q].status
          /\ task'.status = [s \in Step |-> IF s <= plan[q].n THEN plan[q].status[s] ELSE task.status[s]]
          /\ \/ proc'[q].pc = "backoff" /\ proc'[q].idx = proc[q].idx
             \/ proc'[q].pc = "loop"
      BY <2>5, PlanEffects, Zenon DEF PlanWrite, KeepsPlan, Moves
    <3>2. \A s \in Step : task.status[s] # "outcome_unknown" /\ plan[q].status[s] # "outcome_unknown"
      BY <2>2, <3>1
    <3>3. \A s \in Step : task'.status[s] # "outcome_unknown" /\ plan'[q].status[s] # "outcome_unknown"
      BY <3>1, <3>2
    <3>4. proc'[q].pc \in AtOneStep => proc'[q].idx <= plan'[q].n
      BY <2>1, <3>1 DEF RunnerKnows, AtOneStep
    <3>5. QED BY <1>2, <3>3, <3>4, Zenon
  <2>6. CASE Invoke(q) \/ ToolReturns(q) \/ ToolDenied(q)
    <3>1. UNCHANGED <<task, plan>> /\ proc'[q].pc \in {"invoked", "settling"}
          /\ proc[q].pc \in {"awaiting", "invoked"} /\ proc'[q].idx = proc[q].idx
      <4>1. CASE Invoke(q)
        BY <4>1, CallEffects, Zenon DEF Moves
      <4>2. CASE ToolReturns(q) \/ ToolDenied(q)
        <5>1. PICK o \in Outcome : Settle(q, o)
          BY <4>2 DEF ToolReturns, ToolDenied, Outcome
        <5>2. proc[q].pc \in {"invoked", "awaiting"}
          BY <4>2, Zenon DEF ToolReturns, ToolDenied, Refused
        <5>3. UNCHANGED <<task, plan>> /\ proc'[q].pc = "settling" /\ proc'[q].idx = proc[q].idx
          BY <5>1, CallEffects, Zenon DEF Moves
        <5>4. QED BY <5>2, <5>3
      <4>3. QED BY <2>6, <4>1, <4>2
    <3>2. \A s \in Step : task'.status[s] # "outcome_unknown" /\ plan'[q].status[s] # "outcome_unknown"
      BY <2>2, <3>1
    <3>3. proc'[q].pc \in AtOneStep => proc'[q].idx <= plan'[q].n
      BY <2>1, <3>1 DEF RunnerKnows, AtOneStep
    <3>4. QED BY <1>2, <3>2, <3>3, Zenon
  <2>7. ~(MoveWaiting(q) \/ CreateApproval(q))
    BY DEF MoveWaiting, CreateApproval, UnknownInv, NoRequests
  <2>8. QED BY <1>5, <2>3, <2>4, <2>5, <2>6, <2>7, Zenon DEF StaysInLoop
<1>6. ~\E a \in DOMAIN approvals : Resume(q, a)
  BY DEF UnknownInv, NoRequests
<1>7. QED BY <1>3, <1>4, <1>5, <1>6, RunnerSteps, Zenon

\* Unknown outcomes are recorded of steps of the task, and stay recorded.
LEMMA UnknownStep ==
  ASSUME TypeInv, CompletionInv, UnknownInv, [Next]_vars
  PROVE  UnknownInside' /\ UnknownKept
<1>1. /\ task.status \in [Step -> StepStatus] /\ task.n \in Nat
      /\ \A p \in Proc : plan[p].n \in Nat /\ proc[p].idx \in Nat
  <2>1. task \in TaskPlan /\ \A p \in Proc : plan[p] \in TaskPlan /\ proc[p].idx \in Nat
    BY AtStepFacts DEF TypeInv, TypeOK
  <2>2. QED BY <2>1, SizeAssumption DEF TaskPlan, Step
<1>2. ASSUME task'.status = task.status, task'.n \in {task.n, task.n + 1},
             task.state = "cancelled" => task'.state = "cancelled"
      PROVE  UnknownInside' /\ UnknownKept
  <2>1. UnknownKept
    BY <1>2, Zenon DEF UnknownKept
  <2>2. UnknownInside'
    BY <1>1, <1>2 DEF UnknownInv, UnknownInside, Step
  <2>3. QED BY <2>1, <2>2
<1>3. ASSUME task'.state = "cancelled" PROVE UnknownInside' /\ UnknownKept
  BY <1>3, Zenon DEF UnknownInside, UnknownKept
<1>4. ASSUME NEW p \in Proc, Runs(p), proc[p].pc # "failing", proc[p].idx \in Step,
             NEW v, StepWrite(p, v), proc[p].pc \in AtOneStep \/ AtStep(p)
      PROVE  UnknownInside' /\ UnknownKept
  <2>1. RunnerKnows(p) /\ plan[p].n = task.n
    BY <1>4, Zenon DEF UnknownInv, CompletionInv, RunnerProven
  <2>2. \A s \in Step : task.status[s] # "outcome_unknown"
    BY <1>4, <2>1 DEF RunnerKnows
  <2>3. proc[p].idx <= task.n
    BY <1>4, <2>1 DEF RunnerKnows, AtStep
  <2>4. task'.n = task.n /\ task'.status = [task.status EXCEPT ![proc[p].idx] = v]
    BY <1>4, Zenon DEF StepWrite
  <2>5. UnknownInside'
    BY <1>1, <2>2, <2>3, <2>4 DEF UnknownInside
  <2>6. QED BY <2>2, <2>5, Zenon DEF UnknownKept
<1>5. ASSUME NEW p \in Proc, Runs(p), NEW st, PlanWrite(p, st) PROVE UnknownInside' /\ UnknownKept
  <2>1. RunnerKnows(p) /\ plan[p].n = task.n
    BY <1>5, Zenon DEF UnknownInv, CompletionInv, RunnerProven
  <2>2. task.state # "cancelled"
    BY <1>5, ProcAssumption DEF Runs, CompletionInv, TaskProven
  <2>3. task'.n = task.n
        /\ task'.status = [s \in Step |-> IF s <= plan[p].n THEN plan[p].status[s] ELSE task.status[s]]
    BY <1>5, Zenon DEF PlanWrite
  <2>4. \A s \in Step : task.status[s] = "outcome_unknown" => s <= task.n /\ plan[p].status[s] = "outcome_unknown"
    BY <2>1, <2>2, Zenon DEF UnknownInv, UnknownInside, RunnerKnows
  <2>5. \A s \in Step : task'.status[s] = IF s <= task.n THEN plan[p].status[s] ELSE task.status[s]
    BY <2>1, <2>3
  <2>6. UnknownInside'
    BY <2>3, <2>4, <2>5, Zenon DEF UnknownInside
  <2>7. \A s \in Step : task.status[s] = "outcome_unknown" => task'.status[s] = "outcome_unknown"
    BY <2>4, <2>5
  <2>8. QED BY <2>6, <2>7, Zenon DEF UnknownKept
<1>6. ASSUME NEW s \in Step, NEW d \in Decision, Reconcile(s, d) PROVE UnknownInside' /\ UnknownKept
  <2>1. /\ holder = NoProc /\ task.state = "failed" /\ s <= task.n /\ task'.n = task.n
        /\ \E v \in {"reconciled_succeeded", "reconciled_failed", "pending"} :
             task'.status = [task.status EXCEPT ![s] = v] /\ (v = "pending" => Plan[s].idempotent)
    BY <1>6, ReconcileEffects, Zenon
  <2>2. PICK v \in {"reconciled_succeeded", "reconciled_failed", "pending"} :
          task'.status = [task.status EXCEPT ![s] = v] /\ (v = "pending" => Plan[s].idempotent)
    BY <2>1
  <2>3. task'.status[s] = v /\ \A t \in Step \ {s} : task'.status[t] = task.status[t]
    BY <1>1, <2>2
  <2>4. UnknownInside'
    BY <2>1, <2>3 DEF UnknownInv, UnknownInside
  <2>5. UnknownKept
    BY <2>1, <2>2, <2>3 DEF UnknownKept
  <2>6. QED BY <2>4, <2>5
<1>7. QED BY <1>2, <1>3, <1>4, <1>5, <1>6, TaskWrites, Zenon

\* Calls and receipts are counted in natural numbers.
LEMMA CountTypes ==
  ASSUME TypeInv, NEW s \in Step
  PROVE  invoked[s] \in Nat /\ Len(receipts[s]) \in Nat
BY DEF TypeInv, TypeOK

-----------------------------------------------------------------------------
(* Every effect has its receipt. *)

\* The processes between the receipt of step s and the call of its handler.
AwaitingAt(s) == {p \in Proc : proc[p].pc = "awaiting" /\ proc[p].idx = s}

\* The inductive form of EveryEffectHasReceipt: each process that is about to call
\* the handler of a mutation has a receipt that no call has used.
EffectsCovered ==
  \A s \in Step : Plan[s].mutating =>
    /\ IsFiniteSet(AwaitingAt(s))
    /\ invoked[s] + Cardinality(AwaitingAt(s)) <= Len(receipts[s])

\* Finishing a receipt does not change how many there are.
LEMMA FinishLength ==
  ASSUME TypeInv, NEW s \in Step, NEW st, finishStepExecutionReceipt(s, st)
  PROVE  \A t \in Step : Len(receipts'[t]) = Len(receipts[t])
<1>1. receipts \in [Step -> Seq(ReceiptStatus)]
  BY DEF TypeInv, TypeOK
<1> DEFINE q == receipts[s]
<1>2. q \in Seq(ReceiptStatus)
  BY <1>1
<1>3. receipts' = [receipts EXCEPT ![s] = [q EXCEPT ![Len(q)] = st]]
  BY Zenon DEF finishStepExecutionReceipt
<1> HIDE DEF q
<1>4. Len([q EXCEPT ![Len(q)] = st]) = Len(q)
  <2>1. DOMAIN [q EXCEPT ![Len(q)] = st] = 1..Len(q) /\ Len(q) \in Nat
    BY <1>2
  <2>2. QED BY <2>1
<1>5. QED BY <1>1, <1>3, <1>4 DEF q

\* A step that calls no handler and sends no process to its call keeps them covered.
LEMMA CoveredFrame ==
  ASSUME SetFacts, TypeInv, EffectsCovered, NEW p \in Proc, OthersKept(p), proc'[p].pc # "awaiting",
         invoked' = invoked,
         receipts' = receipts \/ \E s \in Step, st \in ReceiptStatus : finishStepExecutionReceipt(s, st)
  PROVE  EffectsCovered'
<1>1. \A s \in Step : Len(receipts'[s]) = Len(receipts[s])
  <2>1. CASE receipts' = receipts
    BY <2>1, Zenon
  <2>2. CASE \E s \in Step, st \in ReceiptStatus : finishStepExecutionReceipt(s, st)
    BY <2>2, FinishLength, Zenon
  <2>3. QED BY <2>1, <2>2
<1>2. SUFFICES ASSUME NEW s \in Step, Plan[s].mutating
               PROVE  /\ IsFiniteSet(AwaitingAt(s)')
                      /\ invoked[s] + Cardinality(AwaitingAt(s)') <= Len(receipts[s])
  BY <1>1 DEF EffectsCovered
<1>3. AwaitingAt(s)' \subseteq AwaitingAt(s)
  BY Zenon DEF AwaitingAt, OthersKept
<1>4. IsFiniteSet(AwaitingAt(s)) /\ invoked[s] + Cardinality(AwaitingAt(s)) <= Len(receipts[s])
  BY <1>2, Zenon DEF EffectsCovered
<1>5. /\ IsFiniteSet(AwaitingAt(s)') /\ Cardinality(AwaitingAt(s)') <= Cardinality(AwaitingAt(s))
      /\ Cardinality(AwaitingAt(s)') \in Nat /\ Cardinality(AwaitingAt(s)) \in Nat
  BY <1>3, <1>4, FiniteCount, Zenon
<1>6. invoked[s] \in Nat /\ Len(receipts[s]) \in Nat
  BY CountTypes, Zenon
<1>7. QED BY <1>4, <1>5, <1>6

\* Dispatching a mutation appends the receipt that its call will use.
LEMMA CoveredDispatch ==
  ASSUME SetFacts, TypeInv, EffectsCovered, NEW p \in Proc, Dispatch(p)
  PROVE  EffectsCovered'
<1> DEFINE i == proc[p].idx
<1>1. /\ OthersKept(p) /\ proc[p].pc \in {"step", "resolved"}
      /\ proc'[p].pc = "awaiting" /\ proc'[p].idx = i
  BY StepEffects, Zenon DEF Moves
<1>2. i \in Step
  BY <1>1, AtStepFacts DEF AtOneStep
<1>3. invoked' = invoked /\ receipts' = IF Plan[i].mutating
                                          THEN [receipts EXCEPT ![i] = Append(receipts[i], "started")]
                                          ELSE receipts
  BY Zenon DEF Dispatch
<1>4. SUFFICES ASSUME NEW s \in Step, Plan[s].mutating
               PROVE  /\ IsFiniteSet(AwaitingAt(s)')
                      /\ invoked[s] + Cardinality(AwaitingAt(s)') <= Len(receipts'[s])
  BY <1>3, Zenon DEF EffectsCovered
<1>5. /\ IsFiniteSet(AwaitingAt(s)) /\ Cardinality(AwaitingAt(s)) \in Nat
      /\ invoked[s] + Cardinality(AwaitingAt(s)) <= Len(receipts[s])
  BY <1>4, FiniteCount, Zenon DEF EffectsCovered
<1>6. invoked[s] \in Nat /\ Len(receipts[s]) \in Nat /\ receipts \in [Step -> Seq(ReceiptStatus)]
  BY DEF TypeInv, TypeOK
<1>7. CASE s = i
  <2>1. AwaitingAt(s)' = AwaitingAt(s) \cup {p} /\ p \notin AwaitingAt(s)
    BY <1>1, <1>7 DEF AwaitingAt, OthersKept
  <2>2. IsFiniteSet(AwaitingAt(s)') /\ Cardinality(AwaitingAt(s)') = Cardinality(AwaitingAt(s)) + 1
    <3>1. /\ IsFiniteSet(AwaitingAt(s) \cup {p})
          /\ Cardinality(AwaitingAt(s) \cup {p}) = Cardinality(AwaitingAt(s)) + 1
      BY <1>5, <2>1, FiniteCount, Zenon
    <3>2. QED BY <2>1, <3>1
  <2>3. Len(receipts'[s]) = Len(receipts[s]) + 1
    <3>1. receipts'[s] = Append(receipts[s], "started")
      BY <1>2, <1>3, <1>4, <1>6, <1>7
    <3>2. QED BY <1>6, <3>1
  <2>4. QED BY <1>5, <1>6, <2>2, <2>3
<1>8. CASE s # i
  <2>1. AwaitingAt(s)' = AwaitingAt(s)
    BY <1>1, <1>8 DEF AwaitingAt, OthersKept
  <2>2. receipts'[s] = receipts[s]
    BY <1>3, <1>6, <1>8
  <2>3. QED BY <1>5, <2>1, <2>2
<1>9. QED BY <1>7, <1>8

\* The call uses it.
LEMMA CoveredInvoke ==
  ASSUME SetFacts, TypeInv, EffectsCovered, NEW p \in Proc, Invoke(p)
  PROVE  EffectsCovered'
<1> DEFINE i == proc[p].idx
<1>1. /\ OthersKept(p) /\ proc[p].pc = "awaiting"
      /\ proc'[p].pc = "invoked" /\ proc'[p].idx = i /\ receipts' = receipts
  BY CallEffects, Zenon DEF Moves
<1>2. i \in Step
  BY <1>1, AtStepFacts, Zenon DEF AtOneStep
<1>3. invoked' = [invoked EXCEPT ![i] = invoked[i] + 1]
  BY Zenon DEF Invoke
<1>4. SUFFICES ASSUME NEW s \in Step, Plan[s].mutating
               PROVE  /\ IsFiniteSet(AwaitingAt(s)')
                      /\ invoked'[s] + Cardinality(AwaitingAt(s)') <= Len(receipts[s])
  BY <1>1, Zenon DEF EffectsCovered
<1>5. /\ IsFiniteSet(AwaitingAt(s)) /\ Cardinality(AwaitingAt(s)) \in Nat
      /\ invoked[s] + Cardinality(AwaitingAt(s)) <= Len(receipts[s])
  BY <1>4, FiniteCount, Zenon DEF EffectsCovered
<1>6. invoked \in [Step -> Nat] /\ invoked[s] \in Nat /\ Len(receipts[s]) \in Nat
  BY DEF TypeInv, TypeOK
<1>7. CASE s = i
  <2>1. AwaitingAt(s)' = AwaitingAt(s) \ {p} /\ p \in AwaitingAt(s)
    BY <1>1, <1>7 DEF AwaitingAt, OthersKept
  <2>2. IsFiniteSet(AwaitingAt(s)') /\ Cardinality(AwaitingAt(s)') = Cardinality(AwaitingAt(s)) - 1
    <3> DEFINE A == AwaitingAt(s)
    <3>1. IsFiniteSet(A) /\ p \in A /\ AwaitingAt(s)' = A \ {p}
      BY <1>5, <2>1
    <3> HIDE DEF A
    <3>2. IsFiniteSet(A \ {p}) /\ Cardinality(A \ {p}) = Cardinality(A) - 1
      BY <3>1, FiniteCount, Zenon
    <3>3. QED BY <3>1, <3>2, Zenon DEF A
  <2>3. invoked'[s] = invoked[s] + 1
    BY <1>3, <1>6, <1>7
  <2>4. QED BY <1>5, <1>6, <2>2, <2>3
<1>8. CASE s # i
  <2>1. AwaitingAt(s)' = AwaitingAt(s)
    BY <1>1, <1>8 DEF AwaitingAt, OthersKept
  <2>2. invoked'[s] = invoked[s]
    BY <1>3, <1>6, <1>8
  <2>3. QED BY <1>5, <2>1, <2>2
<1>9. QED BY <1>7, <1>8

\* Every step keeps them covered.
LEMMA CoveredStep ==
  ASSUME SetFacts, TypeInv, EffectsCovered, [Next]_vars
  PROVE  EffectsCovered'
<1>1. ASSUME NEW p \in Proc,
             \/ Run(p) \/ RecoverReceipt(p) \/ RecoverResumes(p) \/ \E a \in DOMAIN approvals : Resume(p, a)
      PROVE  EffectsCovered'
  <2>1. OthersKept(p) /\ proc'[p].pc \in {"entering", "orphan"}
    BY <1>1, StartEffects, Zenon DEF Begins
  <2>2. invoked' = invoked
    BY <1>1, Zenon DEF Run, RecoverReceipt, RecoverResumes, Resume
  <2>3. receipts' = receipts \/ \E s \in Step, st \in ReceiptStatus : finishStepExecutionReceipt(s, st)
    <3>1. CASE RecoverReceipt(p)
      <4>1. \/ receipts' = receipts
            \/ FirstIncomplete # 0 /\ finishStepExecutionReceipt(FirstIncomplete, "outcome_unknown")
        BY <3>1, Zenon DEF RecoverReceipt
      <4>2. FirstIncomplete \in Step \cup {0}
        BY FirstIncompleteType
      <4>3. QED BY <4>1, <4>2 DEF ReceiptStatus
    <3>2. CASE Run(p) \/ RecoverResumes(p) \/ \E a \in DOMAIN approvals : Resume(p, a)
      BY <3>2, Zenon DEF Run, RecoverResumes, Resume
    <3>3. QED BY <1>1, <3>1, <3>2, Zenon
  <2>4. proc'[p].pc # "awaiting"
    BY <2>1
  <2>5. QED BY <2>1, <2>2, <2>3, <2>4, CoveredFrame, Zenon
<1>2. ASSUME NEW p \in Proc,
             \/ RestartSkips(p) \/ RecoverSettled(p) \/ CancelRead(p) \/ CancelRevoke(p)
             \/ CancelWrite(p) \/ Crash(p)
      PROVE  EffectsCovered'
  <2>1. OthersKept(p) /\ receipts' = receipts /\ invoked' = invoked /\ proc'[p].pc \in Away
    BY <1>2, AsideEffects, Zenon
  <2>2. proc'[p].pc # "awaiting"
    BY <2>1 DEF Away
  <2>3. QED BY <2>1, <2>2, CoveredFrame, Zenon
<1>3. ASSUME NEW p \in Proc, LoopStep(p) PROVE EffectsCovered'
  <2>1. CASE Dispatch(p) \/ Invoke(p)
    BY <2>1, CoveredDispatch, CoveredInvoke, Zenon
  <2>2. ASSUME receipts' = receipts, invoked' = invoked, ~Dispatch(p) PROVE EffectsCovered'
    BY <1>3, <2>2, LoopEffects, CoveredFrame, Zenon
  <2>3. CASE EnterLoop(p) \/ EnterStep(p) \/ Verify(p) \/ Retry(p)
    BY <2>1, <2>2, <2>3, Zenon DEF EnterLoop, EnterStep, Verify, Retry
  <2>4. CASE \/ SkipByRunWhen(p) \/ FailUndispatched(p) \/ MarkPendingApproval(p)
             \/ StoreResolved(p) \/ DispatchStale(p) \/ SettleStep(p)
    BY <2>1, <2>2, <2>4, Zenon DEF SkipByRunWhen, FailUndispatched, MarkPendingApproval, StoreResolved,
                                   DispatchStale, SettleStep
  <2>5. CASE \/ MoveWaiting(p) \/ CreateApproval(p) \/ ReturnPending(p) \/ MoveFailed(p)
             \/ MoveRecovering(p) \/ Finish(p) \/ RecoverOrphan(p) \/ Fenced(p)
    BY <2>1, <2>2, <2>5, Zenon DEF MoveWaiting, CreateApproval, ReturnPending, MoveFailed,
                                   MoveRecovering, Finish, RecoverOrphan, Fenced
  <2>6. CASE ToolReturns(p) \/ ToolDenied(p)
    <3>1. PICK o \in Outcome : Settle(p, o)
      BY <2>6 DEF ToolReturns, ToolDenied, Refused, Outcome
    <3>2. proc[p].pc \in {"invoked", "awaiting"}
      BY <2>6, Zenon DEF ToolReturns, ToolDenied, Refused
    <3>3. proc[p].idx \in Step
      BY <3>2, AtStepFacts DEF AtOneStep
    <3>4. OthersKept(p) /\ proc'[p].pc = "settling"
      BY <3>1, CallEffects, Zenon DEF Moves
    <3>5. ReceiptFor(o) \in ReceiptStatus
      BY DEF ReceiptFor, ReceiptStatus
    <3>6. receipts' = receipts \/ \E s \in Step, st \in ReceiptStatus : finishStepExecutionReceipt(s, st)
      BY <3>1, <3>3, <3>5, Zenon DEF Settle
    <3>7. invoked' = invoked
      BY <3>1, Zenon DEF Settle
    <3>8. proc'[p].pc # "awaiting"
      BY <3>4
    <3>9. QED BY <3>4, <3>6, <3>7, <3>8, CoveredFrame, Zenon
  <2>7. QED BY <1>3, <2>1, <2>2, <2>3, <2>4, <2>5, <2>6, Zenon DEF LoopStep
<1>4. ASSUME invoked' = invoked, proc' = proc,
             receipts' = receipts \/ \E s \in Step, st \in ReceiptStatus : finishStepExecutionReceipt(s, st)
      PROVE  EffectsCovered'
  <2>1. \A s \in Step : AwaitingAt(s)' = AwaitingAt(s)
    BY <1>4, Zenon DEF AwaitingAt
  <2>2. \A s \in Step : Len(receipts'[s]) = Len(receipts[s])
    BY <1>4, FinishLength, Zenon
  <2>3. QED BY <1>4, <2>1, <2>2 DEF EffectsCovered
<1>5. ASSUME \/ \E a \in DOMAIN approvals : Approve(a) \/ ApprovalExpires(a)
             \/ AppendSteps \/ LeaseExpires \/ ContextMoves \/ UNCHANGED vars
      PROVE  EffectsCovered'
  BY <1>4, <1>5, Zenon DEF Approve, ApprovalExpires, AppendSteps, LeaseExpires, ContextMoves, vars
<1>6. ASSUME NEW s \in Step, NEW d \in Decision, Reconcile(s, d) PROVE EffectsCovered'
  <2>1. "outcome_reconciled" \in ReceiptStatus
    BY DEF ReceiptStatus
  <2>2. QED BY <1>4, <1>6, <2>1, Zenon DEF Reconcile
<1>7. QED BY <1>1, <1>2, <1>3, <1>5, <1>6, Zenon DEF Next

-----------------------------------------------------------------------------
(* Every effect that needs an approval has one of its own. *)

\* The approvals that calls of step s were made under.
Claimed(s) == {a \in DOMAIN approvals :
                 approvals[a].step = s /\ approvals[a].dispatched /\ approvals[a].status = "consumed"}

\* The inductive form of ApprovalPerEffect: a dispatched approval is consumed, a
\* process that carries an approval carries one that exists, and one that is past the
\* governance check of its step is allowed to take it.
EffectsApproved ==
  /\ \A a \in DOMAIN approvals : approvals[a].dispatched => approvals[a].status = "consumed"
  /\ \A p \in Proc : proc[p].grant # 0 => proc[p].grant \in DOMAIN approvals
  /\ \A p \in Proc : proc[p].pc \in {"resolved", "awaiting"} => Dispatchable(p, proc[p].idx)
  /\ ApprovalPerEffect

\* No approval changes its step, is dispatched or stops being consumed; a new one is
\* not dispatched.
ApprovalsKept ==
  /\ \A a \in DOMAIN approvals :
       /\ a \in DOMAIN approvals' /\ approvals'[a].step = approvals[a].step
       /\ approvals'[a].dispatched = approvals[a].dispatched
       /\ approvals[a].status = "consumed" => approvals'[a].status = "consumed"
  /\ \A a \in DOMAIN approvals' \ DOMAIN approvals : ~approvals'[a].dispatched

\* Steps that call no handler keep the effects approved, if the process that takes
\* them passes no governance check it may not pass.
LEMMA ApprovedFrame ==
  ASSUME TypeInv, EffectsApproved, ApprovalsKept, invoked' = invoked,
         NEW P \in SUBSET Proc, \A q \in Proc \ P : proc'[q] = proc[q],
         \A p \in P : /\ proc'[p].grant \in {0, proc[p].grant} \cup DOMAIN approvals'
                      /\ proc'[p].pc \in {"resolved", "awaiting"} =>
                           /\ proc'[p].idx = proc[p].idx /\ proc'[p].grant = proc[p].grant
                           /\ Dispatchable(p, proc[p].idx)
  PROVE  EffectsApproved'
<1>1. \A a \in DOMAIN approvals' : approvals'[a].dispatched => approvals'[a].status = "consumed"
  BY Zenon DEF EffectsApproved, ApprovalsKept
<1>2. ASSUME NEW p \in Proc, proc'[p].grant # 0 PROVE proc'[p].grant \in DOMAIN approvals'
  BY <1>2, Zenon DEF EffectsApproved, ApprovalsKept
<1>3. ASSUME NEW p \in Proc, proc'[p].pc \in {"resolved", "awaiting"}
      PROVE  Dispatchable(p, proc[p].idx)'
  <2>1. /\ proc'[p].idx = proc[p].idx /\ proc'[p].grant = proc[p].grant
        /\ Dispatchable(p, proc[p].idx)
    BY <1>3, Zenon DEF EffectsApproved
  <2>2. proc[p].grant # 0 => approvals'[proc[p].grant].step = approvals[proc[p].grant].step
    BY Zenon DEF EffectsApproved, ApprovalsKept
  <2>3. QED BY <2>1, <2>2, Zenon DEF Dispatchable, Granted
<1>4. ApprovalPerEffect'
  <2>1. \A s \in Step : Claimed(s)' = Claimed(s)
    BY <1>1 DEF Claimed, EffectsApproved, ApprovalsKept
  <2>2. \A s \in Step : Plan[s].governance = "approval_required" => invoked[s] = Cardinality(Claimed(s))
    BY Zenon DEF EffectsApproved, ApprovalPerEffect, Claimed
  <2>3. \A s \in Step : Plan[s].governance = "approval_required" => invoked'[s] = Cardinality(Claimed(s)')
    BY <2>1, <2>2, Zenon
  <2>4. QED BY <2>3, Zenon DEF ApprovalPerEffect, Claimed
<1>5. QED BY <1>1, <1>2, <1>3, <1>4, Zenon DEF EffectsApproved

\* A call under an approval claims it; any other call is of a step that needs none.
LEMMA ApprovedInvoke ==
  ASSUME SetFacts, TypeInv, EffectsApproved, NEW p \in Proc, Invoke(p)
  PROVE  EffectsApproved'
<1> DEFINE i == proc[p].idx  g == proc[p].grant
<1>1. /\ OthersKept(p) /\ proc[p].pc = "awaiting" /\ proc'[p].pc = "invoked" /\ proc'[p].grant = g
      /\ invoked' = [invoked EXCEPT ![i] = invoked[i] + 1]
      /\ Granted(p, i) => Claimable(g)
  BY CallEffects, Zenon DEF Moves, Invoke
<1>2. i \in Step /\ Dispatchable(p, i)
  BY <1>1, AtStepFacts, Zenon DEF AtOneStep, EffectsApproved
<1>3. invoked \in [Step -> Nat] /\ approvals \in Seq(Approval)
  BY DEF TypeInv, TypeOK
<1>4. /\ Granted(p, i) => /\ g \in DOMAIN approvals /\ approvals[g].step = i
                          /\ ~approvals[g].dispatched /\ approvals[g].status = "consumed"
                          /\ approvals' = [approvals EXCEPT ![g] = [approvals[g] EXCEPT !.dispatched = TRUE]]
      /\ ~Granted(p, i) => approvals' = approvals
  <2>1. Granted(p, i) => g \in DOMAIN approvals /\ approvals[g].step = i
    BY Zenon DEF EffectsApproved, Granted
  <2>2. Granted(p, i) => ~approvals[g].dispatched /\ approvals[g].status = "consumed"
    BY <1>1, Zenon DEF Claimable
  <2>3. approvals' = IF Granted(p, i) THEN [approvals EXCEPT ![g] = [approvals[g] EXCEPT !.dispatched = TRUE]]
                     ELSE approvals
    BY Zenon DEF Invoke
  <2>4. QED BY <2>1, <2>2, <2>3
<1>5. /\ DOMAIN approvals' = DOMAIN approvals
      /\ \A a \in DOMAIN approvals : /\ approvals'[a].step = approvals[a].step
                                     /\ approvals'[a].status = approvals[a].status
                                     /\ approvals'[a].dispatched <=>
                                          approvals[a].dispatched \/ (Granted(p, i) /\ a = g)
  <2>1. \A a \in DOMAIN approvals : approvals[a] \in Approval
    BY <1>3
  <2>2. CASE Granted(p, i)
    <3>1. /\ DOMAIN approvals' = DOMAIN approvals /\ approvals'[g] = [approvals[g] EXCEPT !.dispatched = TRUE]
          /\ \A a \in DOMAIN approvals : a # g => approvals'[a] = approvals[a]
      BY <1>3, <1>4, <2>2
    <3>2. /\ approvals'[g].step = approvals[g].step /\ approvals'[g].status = approvals[g].status
          /\ approvals'[g].dispatched
      BY <1>4, <2>1, <2>2, <3>1 DEF Approval
    <3>3. QED BY <2>2, <3>1, <3>2, Zenon
  <2>3. CASE ~Granted(p, i)
    BY <1>4, <2>3
  <2>4. QED BY <2>2, <2>3
<1>6. \A a \in DOMAIN approvals' : approvals'[a].dispatched => approvals'[a].status = "consumed"
  BY <1>4, <1>5, Zenon DEF EffectsApproved
<1>7. \A q \in Proc : proc'[q].grant # 0 => proc'[q].grant \in DOMAIN approvals'
  BY <1>1, <1>5, Zenon DEF EffectsApproved, OthersKept
<1>8. ASSUME NEW q \in Proc, proc'[q].pc \in {"resolved", "awaiting"} PROVE Dispatchable(q, proc[q].idx)'
  <2>1. q # p
    BY <1>1, <1>8
  <2>2. proc'[q] = proc[q] /\ Dispatchable(q, proc[q].idx)
    BY <1>1, <1>8, <2>1, Zenon DEF OthersKept, EffectsApproved
  <2>3. proc[q].grant # 0 => approvals'[proc[q].grant].step = approvals[proc[q].grant].step
    BY <1>5, Zenon DEF EffectsApproved
  <2>4. QED BY <2>2, <2>3, Zenon DEF Dispatchable, Granted
<1>9. ASSUME NEW s \in Step, Plan[s].governance = "approval_required"
      PROVE  invoked'[s] = Cardinality(Claimed(s)')
  <2>1. invoked[s] = Cardinality(Claimed(s)) /\ invoked[s] \in Nat
    BY <1>3, <1>9 DEF EffectsApproved, ApprovalPerEffect, Claimed
  <2>2. IsFiniteSet(Claimed(s))
    <3>1. DOMAIN approvals = 1..Len(approvals) /\ Len(approvals) \in Nat
      BY <1>3
    <3>2. IsFiniteSet(DOMAIN approvals) /\ Claimed(s) \subseteq DOMAIN approvals
      BY <3>1, Zenon DEF Claimed, SetFacts, IntervalsFinite
    <3>3. QED BY <3>2, FiniteCount, Zenon
  <2>3. CASE s = i
    <3>1. Granted(p, i)
      BY <1>2, <1>9, <2>3 DEF Dispatchable
    <3>2. Claimed(s)' = Claimed(s) \cup {g} /\ g \notin Claimed(s)
      BY <1>4, <1>5, <2>3, <3>1 DEF Claimed
    <3>3. Cardinality(Claimed(s) \cup {g}) = Cardinality(Claimed(s)) + 1
      BY <2>2, <3>2, FiniteCount, Zenon
    <3>4. invoked'[s] = invoked[s] + 1
      BY <1>1, <1>3, <2>3, Zenon
    <3>5. QED BY <2>1, <3>2, <3>3, <3>4
  <2>4. CASE s # i
    <3>1. Claimed(s)' = Claimed(s)
      BY <1>4, <1>5, <2>4 DEF Claimed
    <3>2. invoked'[s] = invoked[s]
      BY <1>1, <1>3, <2>4
    <3>3. QED BY <2>1, <3>1, <3>2
  <2>5. QED BY <2>3, <2>4
<1>10. ApprovalPerEffect'
  BY <1>9, Zenon DEF ApprovalPerEffect, Claimed
<1>11. QED
  <2>1. \A q \in Proc : proc'[q].pc \in {"resolved", "awaiting"} => proc'[q].idx = proc[q].idx
    BY <1>1, Zenon DEF OthersKept
  <2>2. QED BY <1>6, <1>7, <1>8, <1>10, <2>1, Zenon DEF EffectsApproved

\* What the operations on approvals do to them.
LEMMA ApprovalWrites ==
  ASSUME TypeInv
  PROVE  /\ approvals' = approvals => ApprovalsKept
         /\ approvals' = revokeTaskApprovals => ApprovalsKept
         /\ \A a \in DOMAIN approvals : Approve(a) \/ ApprovalExpires(a) => ApprovalsKept
         /\ \A p \in Proc : \A a \in DOMAIN approvals :
              Resume(p, a) => ApprovalsKept /\ a \in DOMAIN approvals'
         /\ \A p \in Proc : CreateApproval(p) => ApprovalsKept
<1>1. approvals \in Seq(Approval) /\ \A a \in DOMAIN approvals : approvals[a] \in Approval
  BY DEF TypeInv, TypeOK
<1>2. approvals' = approvals => ApprovalsKept
  BY Zenon DEF ApprovalsKept
<1>3. ASSUME approvals' = revokeTaskApprovals PROVE ApprovalsKept
  <2>1. DOMAIN approvals' = DOMAIN approvals
    BY <1>3 DEF revokeTaskApprovals
  <2>2. ASSUME NEW a \in DOMAIN approvals
        PROVE  /\ approvals'[a].step = approvals[a].step
               /\ approvals'[a].dispatched = approvals[a].dispatched
               /\ approvals[a].status = "consumed" => approvals'[a].status = "consumed"
    <3>1. \/ approvals'[a] = approvals[a]
          \/ /\ approvals[a].status \in {"pending", "approved"}
             /\ approvals'[a] = [approvals[a] EXCEPT !.status = "revoked"]
      BY <1>3, <2>2 DEF revokeTaskApprovals
    <3>2. QED BY <1>1, <3>1 DEF Approval
  <2>3. QED BY <2>1, <2>2, Zenon DEF ApprovalsKept
<1>4. ASSUME NEW a \in DOMAIN approvals, NEW r, approvals' = [approvals EXCEPT ![a] = r],
             r.step = approvals[a].step, r.dispatched = approvals[a].dispatched,
             approvals[a].status = "consumed" => r.status = "consumed"
      PROVE  ApprovalsKept /\ a \in DOMAIN approvals'
  <2>1. /\ DOMAIN approvals' = DOMAIN approvals /\ approvals'[a] = r
        /\ \A b \in DOMAIN approvals : b # a => approvals'[b] = approvals[b]
    BY <1>1, <1>4
  <2>2. QED BY <1>4, <2>1 DEF ApprovalsKept
<1>5. ASSUME NEW a \in DOMAIN approvals, NEW st, approvals[a].status # "consumed" \/ st = "consumed",
             approvals' = [approvals EXCEPT ![a] = [approvals[a] EXCEPT !.status = st]]
      PROVE  ApprovalsKept /\ a \in DOMAIN approvals'
  <2> DEFINE r == [approvals[a] EXCEPT !.status = st]
  <2>1. r.step = approvals[a].step /\ r.dispatched = approvals[a].dispatched /\ r.status = st
    BY <1>1, <1>5 DEF Approval
  <2>2. approvals' = [approvals EXCEPT ![a] = r]
    BY <1>5
  <2> HIDE DEF r
  <2>3. QED BY <1>4, <1>5, <2>1, <2>2, Zenon
<1>6. ASSUME NEW a \in DOMAIN approvals, Approve(a) PROVE ApprovalsKept
  <2>1. \/ approvals' = approvals
        \/ approvals' = revokeTaskApprovals
        \/ /\ approvals[a].status = "pending"
           /\ approvals' = [approvals EXCEPT ![a] = [approvals[a] EXCEPT !.status = "approved"]]
    BY <1>6, Zenon DEF Approve
  <2>2. QED BY <1>2, <1>3, <1>5, <2>1
<1>7. ASSUME NEW a \in DOMAIN approvals, ApprovalExpires(a) PROVE ApprovalsKept
  <2> DEFINE r == [approvals[a] EXCEPT !.expired = TRUE]
  <2>1. /\ r.step = approvals[a].step /\ r.dispatched = approvals[a].dispatched
        /\ r.status = approvals[a].status
    BY <1>1, <1>7 DEF Approval
  <2>2. approvals' = [approvals EXCEPT ![a] = r]
    BY <1>7, Zenon DEF ApprovalExpires
  <2> HIDE DEF r
  <2>3. QED BY <1>4, <2>1, <2>2, Zenon
<1>8. ASSUME NEW p \in Proc, NEW a \in DOMAIN approvals, Resume(p, a)
      PROVE  ApprovalsKept /\ a \in DOMAIN approvals'
  <2>1. approvals' = [approvals EXCEPT ![a] = [approvals[a] EXCEPT !.status = "consumed"]]
    BY <1>8, Zenon DEF Resume
  <2>2. QED BY <1>5, <2>1, Zenon
<1>9. ASSUME NEW p \in Proc, CreateApproval(p) PROVE ApprovalsKept
  <2> DEFINE r == [step |-> proc[p].idx, status |-> "pending", dispatched |-> FALSE, expired |-> FALSE]
  <2>1. approvals' = Append(approvals, r)
    BY <1>9, Zenon DEF CreateApproval
  <2>2. ~r.dispatched
    OBVIOUS
  <2> HIDE DEF r
  <2>3. /\ DOMAIN approvals = 1..Len(approvals) /\ DOMAIN approvals' = 1..(Len(approvals) + 1)
        /\ Len(approvals) \in Nat
        /\ \A a \in 1..Len(approvals) : approvals'[a] = approvals[a]
        /\ approvals'[Len(approvals) + 1] = r
    BY <1>1, <2>1
  <2>4. DOMAIN approvals \subseteq DOMAIN approvals'
        /\ \A a \in DOMAIN approvals' \ DOMAIN approvals : a = Len(approvals) + 1
    BY <2>3
  <2>5. QED BY <2>2, <2>3, <2>4, Zenon DEF ApprovalsKept
<1>10. QED BY <1>2, <1>3, <1>6, <1>7, <1>8, <1>9

\* Every step keeps the effects approved.
LEMMA ApprovedStep ==
  ASSUME SetFacts, TypeInv, EffectsApproved, [Next]_vars
  PROVE  EffectsApproved'
<1>1. ASSUME ApprovalsKept, invoked' = invoked,
             NEW p \in Proc, OthersKept(p), proc'[p].grant \in {0, proc[p].grant} \cup DOMAIN approvals',
             proc'[p].pc \in {"resolved", "awaiting"} =>
               /\ proc'[p].idx = proc[p].idx /\ proc'[p].grant = proc[p].grant
               /\ Dispatchable(p, proc[p].idx)
      PROVE  EffectsApproved'
  <2>1. {p} \in SUBSET Proc /\ \A q \in Proc \ {p} : proc'[q] = proc[q]
    BY <1>1 DEF OthersKept
  <2>2. QED BY <1>1, <2>1, ApprovedFrame, Zenon
<1>2. ASSUME ApprovalsKept, UNCHANGED <<invoked, proc>> PROVE EffectsApproved'
  <2>1. {} \in SUBSET Proc /\ \A q \in Proc \ {} : proc'[q] = proc[q]
    BY <1>2
  <2>2. QED BY <1>2, <2>1, ApprovedFrame, Zenon
<1>3. ASSUME NEW p \in Proc, Run(p) \/ RecoverReceipt(p) \/ RecoverResumes(p) PROVE EffectsApproved'
  <2>1. OthersKept(p) /\ proc'[p].pc \in {"entering", "orphan"} /\ proc'[p].grant = 0
    BY <1>3, StartEffects, Zenon DEF Begins
  <2>2. invoked' = invoked /\ ApprovalsKept
    BY <1>3, ApprovalWrites, Zenon DEF Run, RecoverReceipt, RecoverResumes
  <2>3. proc'[p].pc \notin {"resolved", "awaiting"} /\ proc'[p].grant \in {0, proc[p].grant} \cup DOMAIN approvals'
    BY <2>1
  <2>4. QED BY <1>1, <2>1, <2>2, <2>3, Zenon
<1>4. ASSUME NEW p \in Proc, NEW a \in DOMAIN approvals, Resume(p, a) PROVE EffectsApproved'
  <2>1. OthersKept(p) /\ proc'[p].pc = "entering" /\ proc'[p].grant = a
    BY <1>4, StartEffects, Zenon DEF Begins
  <2>2. invoked' = invoked /\ ApprovalsKept /\ a \in DOMAIN approvals'
    BY <1>4, ApprovalWrites, Zenon DEF Resume
  <2>3. proc'[p].pc \notin {"resolved", "awaiting"} /\ proc'[p].grant \in {0, proc[p].grant} \cup DOMAIN approvals'
    BY <2>1, <2>2
  <2>4. QED BY <1>1, <2>1, <2>2, <2>3, Zenon
<1>5. ASSUME NEW p \in Proc,
             \/ RestartSkips(p) \/ RecoverSettled(p) \/ CancelRead(p) \/ CancelRevoke(p)
             \/ CancelWrite(p) \/ Crash(p)
      PROVE  EffectsApproved'
  <2>1. /\ OthersKept(p) /\ invoked' = invoked /\ proc'[p].pc \in Away
        /\ proc'[p].grant \in {0, proc[p].grant}
    BY <1>5, AsideEffects, Zenon
  <2>2. approvals' = approvals \/ approvals' = revokeTaskApprovals
    BY <1>5, Zenon DEF RestartSkips, RecoverSettled, CancelRead, CancelRevoke, CancelWrite, Crash
  <2>3. ApprovalsKept
    BY <2>2, ApprovalWrites, Zenon
  <2>4. proc'[p].pc \notin {"resolved", "awaiting"} /\ proc'[p].grant \in {0, proc[p].grant} \cup DOMAIN approvals'
    BY <2>1 DEF Away
  <2>5. QED BY <1>1, <2>1, <2>3, <2>4, Zenon
<1>6. ASSUME NEW p \in Proc, LoopStep(p) PROVE EffectsApproved'
  <2>1. /\ OthersKept(p) /\ proc'[p].grant \in {0, proc[p].grant} \cup DOMAIN approvals'
        /\ proc'[p].pc = "resolved" => StoreResolved(p)
        /\ proc'[p].pc = "awaiting" => Dispatch(p)
    BY <1>6, LoopEffects, Zenon
  <2>2. CASE StoreResolved(p) \/ Dispatch(p)
    <3>1. proc'[p].idx = proc[p].idx /\ proc'[p].grant = proc[p].grant
      BY <2>2, StepEffects, Zenon DEF Moves
    <3>2. Dispatchable(p, proc[p].idx)
      BY <2>2, Zenon DEF StoreResolved, Dispatch, ReadyToDispatch, EffectsApproved
    <3>3. invoked' = invoked /\ ApprovalsKept
      BY <2>2, ApprovalWrites, Zenon DEF StoreResolved, Dispatch
    <3>4. QED BY <1>1, <2>1, <3>1, <3>2, <3>3, Zenon
  <2>3. ASSUME ApprovalsKept, invoked' = invoked, ~StoreResolved(p), ~Dispatch(p) PROVE EffectsApproved'
    <3>1. proc'[p].pc \notin {"resolved", "awaiting"}
      BY <2>1, <2>3
    <3>2. QED BY <1>1, <2>1, <2>3, <3>1, Zenon
  <2>4. CASE Invoke(p)
    BY <2>4, ApprovedInvoke
  <2>5. CASE CreateApproval(p)
    <3>1. ApprovalsKept /\ invoked' = invoked
      BY <2>5, ApprovalWrites, Zenon DEF CreateApproval
    <3>2. QED BY <2>2, <2>3, <3>1, Zenon
  <2>6. ASSUME approvals' = approvals, invoked' = invoked PROVE EffectsApproved'
    BY <2>2, <2>3, <2>6, ApprovalWrites, Zenon
  <2>7. CASE EnterLoop(p) \/ EnterStep(p) \/ Verify(p) \/ Retry(p)
    BY <2>6, <2>7, Zenon DEF EnterLoop, EnterStep, Verify, Retry
  <2>8. CASE \/ SkipByRunWhen(p) \/ FailUndispatched(p) \/ MarkPendingApproval(p)
             \/ DispatchStale(p) \/ SettleStep(p)
    BY <2>6, <2>8, Zenon DEF SkipByRunWhen, FailUndispatched, MarkPendingApproval, DispatchStale, SettleStep
  <2>9. CASE \/ MoveWaiting(p) \/ ReturnPending(p) \/ MoveFailed(p) \/ MoveRecovering(p)
             \/ Finish(p) \/ RecoverOrphan(p) \/ Fenced(p)
    BY <2>6, <2>9, Zenon DEF MoveWaiting, ReturnPending, MoveFailed, MoveRecovering, Finish,
                             RecoverOrphan, Fenced
  <2>10. CASE ToolReturns(p) \/ ToolDenied(p)
    BY <2>6, <2>10, Zenon DEF ToolReturns, ToolDenied, Settle
  <2>11. QED BY <1>6, <2>2, <2>4, <2>5, <2>7, <2>8, <2>9, <2>10, Zenon DEF LoopStep
<1>7. ASSUME NEW a \in DOMAIN approvals, Approve(a) \/ ApprovalExpires(a) PROVE EffectsApproved'
  <2>1. UNCHANGED <<invoked, proc>>
    BY <1>7, Zenon DEF Approve, ApprovalExpires
  <2>2. QED BY <1>2, <1>7, <2>1, ApprovalWrites, Zenon
<1>8. ASSUME UNCHANGED <<approvals, invoked, proc>> PROVE EffectsApproved'
  BY <1>2, <1>8, ApprovalWrites, Zenon
<1>9. ASSUME \/ AppendSteps \/ LeaseExpires \/ ContextMoves \/ UNCHANGED vars
             \/ \E s \in Step, d \in Decision : Reconcile(s, d)
      PROVE  EffectsApproved'
  BY <1>8, <1>9, Zenon DEF AppendSteps, LeaseExpires, ContextMoves, Reconcile, vars
<1>10. QED BY <1>3, <1>4, <1>5, <1>6, <1>7, <1>9, Zenon DEF Next

-----------------------------------------------------------------------------
(* The library, and the theorems it completes. *)

INSTANCE FiniteSetTheorems

\* A set of naturals that is not empty has a least element.
LEMMA LeastElement ==
  ASSUME NEW S, S \subseteq Nat, S # {}
  PROVE  First(S) \in S
<1>1. \E x \in S : \A y \in S : ~(<<y, x>> \in OpToRel(<, Nat))
  BY NatLessThanWellFounded, WFMin, Zenon
<1>2. PICK x \in S : \A y \in S : ~(<<y, x>> \in OpToRel(<, Nat))
  BY <1>1, Zenon
<1>3. \A y \in S : x <= y
  <2>1. SUFFICES ASSUME NEW y \in S, ~(x <= y) PROVE FALSE
    OBVIOUS
  <2>2. y < x /\ y \in Nat /\ x \in Nat
    BY <2>1
  <2>3. <<y, x>> \in OpToRel(<, Nat)
    BY <2>2 DEF OpToRel
  <2>4. QED BY <1>2, <2>3, Zenon
<1>4. QED BY <1>3, Zenon DEF First

\* The facts the lemmas above assume.
LEMMA SetFactsHold == SetFacts
<1>1. LeastFound
  BY LeastElement, Zenon DEF LeastFound
<1>2. Counted
  BY FS_CardinalityType, Zenon DEF Counted
<1>3. SubsetCounted
  BY FS_Subset, Zenon DEF SubsetCounted
<1>4. OneMoreCounted
  BY FS_AddElement DEF OneMoreCounted
<1>5. OneLessCounted
  BY FS_RemoveElement DEF OneLessCounted
<1>6. IntervalsFinite
  BY FS_Interval DEF IntervalsFinite
<1>7. QED BY <1>1, <1>2, <1>3, <1>4, <1>5, <1>6, Zenon DEF SetFacts

\* The types are an invariant.
LEMMA TypeInvariant == Spec => []TypeInv
<1>1. TypeInv /\ [Next]_vars => TypeInv'
  BY SetFactsHold, TypeStep, Zenon
<1>2. QED BY <1>1, TypeInit, PTL DEF Spec

\* The rows of the Task, its receipts and approvals, and the state of every process
\* keep their types: in particular no write goes to a step the plan does not have.
THEOREM TypeCorrect == Spec => []TypeOK
<1>1. TypeInv => TypeOK
  BY DEF TypeInv
<1>2. QED BY <1>1, TypeInvariant, PTL

\* Once a task is cancelled it stays cancelled, and no receipt is begun or settled
\* for it, whatever runners, recoveries, approvals and reconciliations follow.
THEOREM CancelledIsFinalTheorem == Spec => CancelledIsFinal
<1>1. Init => NoRunnerOnCancelled
  BY DEF Init, NoRunnerOnCancelled
<1>2. TypeInv /\ NoRunnerOnCancelled /\ [Next]_vars
        => NoRunnerOnCancelled' /\ [StaysCancelled]_vars
  BY CancelStep, Zenon
<1>3. QED
  BY <1>1, <1>2, TypeInvariant, PTL DEF Spec, CancelledIsFinal, StaysCancelled

\* CompletionInv, with the types it needs, is an invariant.
LEMMA CompletionInvariant == Spec => [](TypeInv /\ CompletionInv)
<1>1. Init => CompletionInv
  BY CompletionInit
<1>2. TypeInv /\ CompletionInv /\ [Next]_vars => CompletionInv'
  BY SetFactsHold, CompletionStep, Zenon
<1>3. QED BY <1>1, <1>2, TypeInvariant, PTL DEF Spec

\* A task never counts as completed with a step left unresolved, nor with a mutation
\* whose last receipt does not record its success: not by the loop, which reads
\* its own copy of the plan, not by recovery, not by an operator's decision.
THEOREM CompletedTaskResolvedTheorem == Spec => []CompletedTaskResolved
<1>1. TypeInv /\ CompletionInv => CompletedTaskResolved
  <2> SUFFICES ASSUME TypeInv, CompletionInv, task.state = "completed"
               PROVE  /\ unresolvedTaskSteps(task) = {}
                      /\ \A s \in StepsIn(task, {"completed"}) : Plan[s].mutating => LastReceipt(s) = "succeeded"
    BY Zenon DEF CompletedTaskResolved
  <2>1. unresolvedTaskSteps(task) = {} /\ Proven(task.status)
    BY DEF CompletionInv, TaskProven
  <2>2. StepsIn(task, {"completed"}) \subseteq {s \in Step : task.status[s] = "completed"}
    <3>1. task.n \in Step
      BY Zenon DEF TypeInv, TypeOK, TaskPlan
    <3>2. StepsOf(task) \subseteq Step
      BY <3>1, SizeAssumption DEF StepsOf, Step
    <3>3. QED BY <3>2, Zenon DEF StepsIn
  <2>3. QED BY <2>1, <2>2 DEF Proven
<1>2. QED BY <1>1, CompletionInvariant, PTL

\* In a plan whose steps need no approval, a step leaves outcome_unknown only by an
\* operator's decision on the failed task, or with the task cancelled: no run, crash,
\* recovery or lost lease makes it pending again.
THEOREM UnknownUntilReconciledTheorem ==
  ASSUME NoApprovals
  PROVE  Spec => UnknownUntilReconciled
<1>1. Init => UnknownInv
  <2> SUFFICES ASSUME Init PROVE UnknownInv
    OBVIOUS
  <2>1. DOMAIN approvals = {} /\ holder = NoProc /\ \A p \in Proc : proc[p].pc = "idle"
    BY DEF Init, IdleProcess
  <2>2. \A s \in Step : task.status[s] # "outcome_unknown"
    BY DEF Init, NewTask
  <2>3. NoRequests /\ UnknownInside /\ \A p \in Proc : ~Runs(p)
    BY <2>1, <2>2 DEF NoRequests, UnknownInside, Runs, Away
  <2>4. QED BY <2>3, Zenon DEF UnknownInv
<1>2. TypeInv /\ CompletionInv /\ UnknownInv /\ [Next]_vars => UnknownInv' /\ UnknownKept
  <2> SUFFICES ASSUME TypeInv, CompletionInv, UnknownInv, [Next]_vars PROVE UnknownInv' /\ UnknownKept
    OBVIOUS
  <2>1. NoRequests'
    BY NoRequestsStep, Zenon DEF UnknownInv
  <2>2. QED BY <2>1, UnknownStep, RunnerKnowsStep, Zenon DEF UnknownInv
<1>3. TypeInv /\ CompletionInv /\ UnknownInv /\ [Next]_vars => [UnknownKept]_vars
  BY <1>2, Zenon
<1>4. UnknownUntilReconciled <=> [][UnknownKept]_vars
  BY PTL DEF UnknownUntilReconciled, UnknownKept
<1>5. QED BY <1>1, <1>2, <1>3, <1>4, CompletionInvariant, PTL DEF Spec

\* No call into a mutating handler is without a receipt of its own, written before
\* it, even when several processes that lost their lease still have a call to make.
THEOREM EveryEffectHasReceiptTheorem == Spec => []EveryEffectHasReceipt
<1>1. Init => EffectsCovered
  <2> SUFFICES ASSUME Init, NEW s \in Step
               PROVE  /\ IsFiniteSet(AwaitingAt(s))
                      /\ invoked[s] + Cardinality(AwaitingAt(s)) <= Len(receipts[s])
    BY DEF EffectsCovered
  <2>1. AwaitingAt(s) = {}
    BY DEF Init, AwaitingAt, IdleProcess
  <2>2. IsFiniteSet(AwaitingAt(s)) /\ Cardinality(AwaitingAt(s)) = 0
    BY <2>1, FS_EmptySet, Zenon
  <2>3. invoked[s] = 0 /\ Len(receipts[s]) = 0
    BY DEF Init
  <2>4. QED BY <2>2, <2>3
<1>2. TypeInv /\ EffectsCovered => EveryEffectHasReceipt
  <2> SUFFICES ASSUME TypeInv, EffectsCovered, NEW s \in Step, Plan[s].mutating
               PROVE  invoked[s] <= Len(receipts[s])
    BY DEF EveryEffectHasReceipt
  <2>1. /\ Cardinality(AwaitingAt(s)) \in Nat
        /\ invoked[s] + Cardinality(AwaitingAt(s)) <= Len(receipts[s])
    BY SetFactsHold, FiniteCount, Zenon DEF EffectsCovered
  <2>2. invoked[s] \in Nat /\ Len(receipts[s]) \in Nat
    BY DEF TypeInv, TypeOK
  <2>3. QED BY <2>1, <2>2
<1>3. TypeInv /\ EffectsCovered /\ [Next]_vars => EffectsCovered'
  BY SetFactsHold, CoveredStep, Zenon
<1>4. QED BY <1>1, <1>2, <1>3, TypeInvariant, PTL DEF Spec

\* No step that needs approval is executed without one, and no approval pays for
\* two executions: resumed runs, recovery and a lost lease included.
THEOREM ApprovalPerEffectTheorem == Spec => []ApprovalPerEffect
<1>1. Init => EffectsApproved
  <2> SUFFICES ASSUME Init PROVE EffectsApproved
    OBVIOUS
  <2>1. approvals = <<>> /\ \A p \in Proc : proc[p].grant = 0 /\ proc[p].pc = "idle"
    BY DEF Init, IdleProcess
  <2>2. DOMAIN approvals = {}
    BY <2>1
  <2>3. ASSUME NEW s \in Step PROVE invoked[s] = Cardinality(Claimed(s))
    <3>1. Claimed(s) = {}
      BY <2>2, Zenon DEF Claimed
    <3>2. Cardinality(Claimed(s)) = 0
      BY <3>1, FS_EmptySet, Zenon
    <3>3. QED BY <3>2 DEF Init
  <2>4. ApprovalPerEffect
    BY <2>3, Zenon DEF ApprovalPerEffect, Claimed
  <2>5. QED BY <2>1, <2>2, <2>4 DEF EffectsApproved
<1>2. EffectsApproved => ApprovalPerEffect
  BY Zenon DEF EffectsApproved
<1>3. TypeInv /\ EffectsApproved /\ [Next]_vars => EffectsApproved'
  BY SetFactsHold, ApprovedStep, Zenon
<1>4. QED BY <1>1, <1>2, <1>3, TypeInvariant, PTL DEF Spec
===============================================================================
