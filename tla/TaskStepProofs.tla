---------------------------- MODULE TaskStepProofs ----------------------------
(***************************************************************************)
(* What a step of TaskExecution does, for every plan, number of processes  *)
(* and bound: every action keeps the types, none takes a task out of       *)
(* "cancelled", and for each group of actions, what it writes and where it *)
(* leaves the process.  TaskExecutionProofs builds the theorems on these.  *)
(***************************************************************************)
EXTENDS TaskExecution, TLAPS

\* Control states without a step to work on, and those in the middle of one.
Away == {"idle", "down", "cancelling", "revoking"}
AtOneStep == {"step", "resolved", "asking", "waiting", "asked", "awaiting", "invoked",
              "settling", "retrying", "backoff"}

\* A process record whose idx fits its control state.
GoodProcess == {r \in Process : /\ r.pc \notin Away => r.idx # 0
                                /\ r.pc \in AtOneStep => r.idx \in Step}

\* The inductive form of TypeOK: a step that is written to exists.
TypeInv == TypeOK /\ proc \in [Proc -> GoodProcess]

State == TaskState \cup {"pending_approval"}

-----------------------------------------------------------------------------
(* Facts about sets that the library proves, from induction.  They are hypotheses
   of the lemmas below and discharged in the last section, before the theorems. *)

LeastFound == \A S : S \subseteq Nat /\ S # {} => First(S) \in S

Counted == \A S : IsFiniteSet(S) => Cardinality(S) \in Nat

SubsetCounted == \A S, T : IsFiniteSet(S) /\ T \subseteq S => IsFiniteSet(T) /\ Cardinality(T) <= Cardinality(S)

OneMoreCounted == \A S, x : IsFiniteSet(S) /\ x \notin S =>
                    IsFiniteSet(S \cup {x}) /\ Cardinality(S \cup {x}) = Cardinality(S) + 1

OneLessCounted == \A S, x : IsFiniteSet(S) /\ x \in S =>
                    IsFiniteSet(S \ {x}) /\ Cardinality(S \ {x}) = Cardinality(S) - 1

IntervalsFinite == \A n \in Nat : IsFiniteSet(1..n)

SetFacts == LeastFound /\ Counted /\ SubsetCounted /\ OneMoreCounted /\ OneLessCounted /\ IntervalsFinite

-----------------------------------------------------------------------------
(* Helpers *)

\* A set of naturals that is not empty has its First element.
LEMMA FirstIn ==
  ASSUME SetFacts, NEW S, S \subseteq Nat, S # {}
  PROVE  First(S) \in S
BY Zenon DEF SetFacts, LeastFound

\* How finite sets are counted.
LEMMA FiniteCount ==
  ASSUME SetFacts, NEW S, IsFiniteSet(S)
  PROVE  /\ Cardinality(S) \in Nat
         /\ \A T : T \subseteq S => IsFiniteSet(T) /\ Cardinality(T) <= Cardinality(S)
         /\ \A x : x \notin S => IsFiniteSet(S \cup {x}) /\ Cardinality(S \cup {x}) = Cardinality(S) + 1
         /\ \A x : x \in S => IsFiniteSet(S \ {x}) /\ Cardinality(S \ {x}) = Cardinality(S) - 1
BY Zenon DEF SetFacts, Counted, SubsetCounted, OneMoreCounted, OneLessCounted

\* A settled task is not entered again.
LEMMA EnterStates ==
  ASSUME NEW s, CanEnter(s)
  PROVE  s \notin {"completed", "cancelled"}
BY DEF CanEnter, Transitions

\* The next open step of a plan is one of its steps or the position past the last.
LEMMA NextOpenType ==
  ASSUME SetFacts, NEW pl \in TaskPlan, NEW i \in Nat
  PROVE  NextOpen(pl, i) \in Nat \ {0}
<1>0. pl.n \in Nat \ {0}
  BY SizeAssumption DEF TaskPlan, Step
<1> DEFINE open == {s \in unresolvedTaskSteps(pl) : s >= i}
<1>1. open \subseteq 1..pl.n
  BY DEF unresolvedTaskSteps, StepsOf
<1>2. CASE open = {}
  BY <1>0, <1>2 DEF NextOpen
<1>3. CASE open # {}
  <2>1. First(open) \in open
    BY <1>0, <1>1, <1>3, FirstIn
  <2>2. QED BY <1>0, <1>1, <1>3, <2>1 DEF NextOpen
<1>4. QED BY <1>2, <1>3

\* A step set by SetStep keeps the plan a plan.
LEMMA SetStepType ==
  ASSUME NEW pl \in TaskPlan, NEW s, NEW st \in StepStatus
  PROVE  SetStep(pl, s, st) \in TaskPlan
BY DEF SetStep, TaskPlan

\* So does the next attempt of a step.
LEMMA AttemptType ==
  ASSUME NEW pl \in TaskPlan, NEW s \in Step
  PROVE  Attempt(pl, s) \in TaskPlan
<1> DEFINE q == SetStep(pl, s, "running")
<1>1. q \in TaskPlan
  BY SetStepType DEF StepStatus
<1>2. [q EXCEPT !.attempts[s] = @ + 1] \in TaskPlan
  BY <1>1 DEF TaskPlan
<1>3. QED BY <1>2 DEF Attempt

\* saveTaskStatus stores a plan, in the state it is given.
LEMMA SaveStatusType ==
  ASSUME task \in TaskPlan, NEW st \in State
  PROVE  saveTaskStatus(st) \in TaskPlan /\ saveTaskStatus(st).state = st
BY DEF saveTaskStatus, TaskPlan, State

\* saveTaskStep stores a plan, and leaves the task's state alone.
LEMMA SaveStepType ==
  ASSUME task \in TaskPlan, NEW pl \in TaskPlan, NEW s \in Step
  PROVE  saveTaskStep(pl, s) \in TaskPlan /\ saveTaskStep(pl, s).state = task.state
<1> DEFINE q == [task EXCEPT !.status[s] = pl.status[s]]
<1>1. q \in TaskPlan /\ q.state = task.state
  BY DEF TaskPlan
<1>2. [q EXCEPT !.attempts[s] = pl.attempts[s]] \in TaskPlan
  BY <1>1, Zenon DEF TaskPlan
<1>3. [q EXCEPT !.attempts[s] = pl.attempts[s]].state = q.state
  BY <1>1 DEF TaskPlan
<1>4. QED BY <1>1, <1>2, <1>3 DEF saveTaskStep

\* saveTaskStep leaves the task's state alone, whatever it is given.
LEMMA SaveStepState ==
  ASSUME task \in TaskPlan, NEW pl, NEW s
  PROVE  saveTaskStep(pl, s).state = task.state
BY DEF saveTaskStep, TaskPlan

\* saveTaskPlan stores a plan, in the state it is given.
LEMMA SavePlanType ==
  ASSUME task \in TaskPlan, NEW pl \in TaskPlan, NEW st \in State
  PROVE  saveTaskPlan(pl, st) \in TaskPlan /\ saveTaskPlan(pl, st).state = st
BY DEF saveTaskPlan, TaskPlan, State

\* A plan object whose state alone changes.
LEMMA StateType ==
  ASSUME NEW pl \in TaskPlan, NEW st \in State
  PROVE  [pl EXCEPT !.state = st] \in TaskPlan
BY DEF TaskPlan, State

\* A plan whose runs are counted up.
LEMMA CountRunType ==
  ASSUME NEW pl \in TaskPlan
  PROVE  [pl EXCEPT !.runs = @ + 1] \in TaskPlan
BY DEF TaskPlan

\* A process record that moves to an open position, with or without a retry counted.
LEMMA GoodMove ==
  ASSUME NEW r \in GoodProcess, NEW pc \in {"loop", "failing"}, NEW i \in Nat \ {0}
  PROVE  /\ [r EXCEPT !.pc = pc, !.idx = i] \in GoodProcess
         /\ [r EXCEPT !.pc = pc, !.retries = @ + 1, !.idx = i] \in GoodProcess
<1> DEFINE q == [r EXCEPT !.pc = pc]  t == [q EXCEPT !.retries = @ + 1]
<1>1. q \in Process /\ q.pc = pc
  BY DEF GoodProcess, Process, ControlState
<1>2. t \in Process /\ t.pc = pc
  <2> HIDE DEF q
  <2>1. QED BY <1>1 DEF Process
<1>3. \A u \in Process : u.pc = pc => [u EXCEPT !.idx = i] \in GoodProcess
  BY DEF GoodProcess, Process, AtOneStep
<1>4. [q EXCEPT !.idx = i] \in GoodProcess
  BY <1>1, <1>3, Zenon
<1>5. [t EXCEPT !.idx = i] \in GoodProcess
  <2> HIDE DEF t
  <2>1. QED BY <1>2, <1>3
<1>6. QED BY <1>4, <1>5

\* A process record that receives its outcome, or counts a retry.
LEMMA GoodSettle ==
  ASSUME NEW r \in GoodProcess, r.pc \in AtOneStep, NEW o \in Outcome
  PROVE  /\ [r EXCEPT !.pc = "settling", !.result = o] \in GoodProcess
         /\ [r EXCEPT !.pc = "backoff", !.retries = @ + 1] \in GoodProcess
<1> DEFINE q(pc) == [r EXCEPT !.pc = pc]
<1>1. r.idx \in Step /\ r.idx # 0
  BY SizeAssumption DEF GoodProcess, Step
<1>2. ASSUME NEW pc \in {"settling", "backoff"}
      PROVE  q(pc) \in Process /\ q(pc).idx = r.idx /\ q(pc).pc = pc
  BY <1>2 DEF GoodProcess, Process, ControlState
<1> HIDE DEF q
<1>3. [q("settling") EXCEPT !.result = o] \in GoodProcess
  BY <1>1, <1>2 DEF GoodProcess, Process
<1>4. [q("backoff") EXCEPT !.retries = @ + 1] \in GoodProcess
  BY <1>1, <1>2 DEF GoodProcess, Process
<1>5. QED BY <1>3, <1>4 DEF q

\* The next position after idx, for a process that advances.
LEMMA AdvanceType ==
  ASSUME SetFacts, TypeInv, NEW p \in Proc, NEW pl \in TaskPlan, Advance(p, pl)
  PROVE  proc' \in [Proc -> GoodProcess]
<1>1. proc[p] \in GoodProcess /\ proc[p].idx \in Nat
  BY DEF TypeInv, GoodProcess, Process
<1> DEFINE i == NextOpen(pl, proc[p].idx + 1)
<1>2. i \in Nat \ {0}
  BY <1>1, NextOpenType
<1>3. [proc[p] EXCEPT !.pc = "loop", !.idx = i] \in GoodProcess
  BY <1>1, <1>2, Zenon DEF GoodProcess, Process, ControlState, AtOneStep
<1>4. QED BY <1>3 DEF Advance, TypeInv

\* A process that goes to another control state, at the same step.
LEMMA GotoType ==
  ASSUME TypeInv, NEW p \in Proc, NEW pc \in ControlState, Goto(p, pc),
         pc \notin Away => proc[p].idx # 0,
         pc \in AtOneStep => proc[p].idx \in Step
  PROVE  proc' \in [Proc -> GoodProcess]
<1>1. proc[p] \in GoodProcess
  BY DEF TypeInv
<1>2. [proc[p] EXCEPT !.pc = pc] \in GoodProcess
  BY <1>1 DEF GoodProcess, Process
<1>3. QED BY <1>2 DEF Goto, TypeInv

\* A process that forgets its plan object.
LEMMA ForgetType ==
  ASSUME TypeInv, NEW p \in Proc, NEW pc \in Away, Forget(p, pc)
  PROVE  proc' \in [Proc -> GoodProcess] /\ plan' \in [Proc -> TaskPlan]
<1>1. NewTask \in TaskPlan
  BY SizeAssumption DEF NewTask, TaskPlan, TaskState, StepStatus, Step
<1>2. [IdleProcess EXCEPT !.pc = pc] \in GoodProcess
  BY DEF IdleProcess, GoodProcess, Process, ControlState, Away, AtOneStep, Outcome
<1>3. QED BY <1>1, <1>2 DEF Forget, TypeInv, TypeOK

\* A process that takes the lease and a plan.
LEMMA BeginType ==
  ASSUME TypeInv, NEW p \in Proc, NEW pc \in {"entering", "orphan"}, NEW pl \in TaskPlan,
         NEW i \in Nat \ {0}, NEW m \in {"run", "resume", "recover"}, NEW a \in Nat,
         Begin(p, pc, pl, i, m, a)
  PROVE  /\ proc' \in [Proc -> GoodProcess] /\ plan' \in [Proc -> TaskPlan]
         /\ holder' \in Proc \cup {NoProc}
<1>1. [pc |-> pc, mode |-> m, idx |-> i, retries |-> 0, grant |-> a, result |-> "failed"]
        \in GoodProcess
  BY DEF GoodProcess, Process, ControlState, Away, AtOneStep, Outcome
<1>2. QED BY <1>1 DEF Begin, TypeInv, TypeOK

\* A step's latest receipt changes its status.
LEMMA FinishType ==
  ASSUME TypeInv, NEW s \in Step, NEW st \in ReceiptStatus, finishStepExecutionReceipt(s, st)
  PROVE  receipts' \in [Step -> Seq(ReceiptStatus)]
<1> DEFINE q == receipts[s]
<1>1. q \in Seq(ReceiptStatus)
  BY DEF TypeInv, TypeOK
<1>2. [q EXCEPT ![Len(q)] = st] \in Seq(ReceiptStatus)
  <2> HIDE DEF q
  <2>1. CASE Len(q) = 0
    <3>1. [q EXCEPT ![Len(q)] = st] = q
      BY <1>1, <2>1
    <3>2. QED BY <1>1, <3>1, Zenon
  <2>2. CASE Len(q) # 0
    BY <1>1, <2>2
  <2>3. QED BY <2>1, <2>2
<1>3. QED BY <1>2 DEF finishStepExecutionReceipt, TypeInv, TypeOK

\* The first step in a set of statuses is 0 or a step.
LEMMA FirstStepType ==
  ASSUME SetFacts, NEW S, S \subseteq Step
  PROVE  First(S) \in Step \cup {0} /\ (S # {} => First(S) \in S)
<1>1. CASE S = {}
  BY <1>1 DEF First
<1>2. CASE S # {}
  <2>1. S \subseteq Nat
    BY SizeAssumption DEF Step
  <2>2. First(S) \in S
    BY <1>2, <2>1, FirstIn, Zenon
  <2>3. QED BY <2>2
<1>3. QED BY <1>1, <1>2

\* A process that is at one step has a step, and every process a plan object.
LEMMA AtStepFacts ==
  ASSUME TypeInv, NEW p \in Proc
  PROVE  /\ proc[p].pc \in AtOneStep => proc[p].idx \in Step /\ proc[p].idx # 0
         /\ proc[p].pc \notin Away => proc[p].idx # 0
         /\ AtStep(p) => proc[p].idx \in Step
         /\ plan[p] \in TaskPlan /\ task \in TaskPlan /\ proc[p].idx \in Nat
<1>1. proc[p] \in GoodProcess /\ plan[p] \in TaskPlan /\ task \in TaskPlan
  BY DEF TypeInv, TypeOK
<1>2. plan[p].n \in 1..MaxSteps /\ MaxSteps \in Nat
  BY <1>1, SizeAssumption DEF TaskPlan, Step
<1>3. proc[p].idx \in Nat
  BY <1>1 DEF GoodProcess, Process
<1>4. proc[p].pc \notin Away => proc[p].idx # 0
  BY <1>1 DEF GoodProcess
<1>5. proc[p].pc \in AtOneStep => proc[p].idx \in Step /\ proc[p].idx # 0
  BY <1>1, SizeAssumption DEF GoodProcess, Step
<1>6. AtStep(p) => proc[p].idx \in Step
  BY <1>2, <1>3, <1>4 DEF AtStep, Away, Step
<1>7. QED BY <1>1, <1>3, <1>4, <1>5, <1>6

\* What a best-effort checkpoint leaves behind.
LEMMA CheckpointType ==
  ASSUME TypeInv, NEW s \in Step, CheckpointStep(s)
  PROVE  checkpoint' \in 0..MaxSteps
BY SizeAssumption DEF TypeInv, TypeOK, CheckpointStep, Step

\* The end of an invocation.
LEMMA LeaveType ==
  ASSUME TypeInv, NEW p \in Proc, Leave(p)
  PROVE  /\ proc' \in [Proc -> GoodProcess] /\ plan' \in [Proc -> TaskPlan]
         /\ holder' \in Proc \cup {NoProc}
<1>1. Forget(p, "idle") /\ "idle" \in Away
  BY DEF Leave, Away
<1>2. QED BY <1>1, ForgetType DEF Leave, TypeInv, TypeOK

\* An action that writes one step of the plan in hand, and moves within the step.
LEMMA StepWriteType ==
  ASSUME TypeInv, NEW p \in Proc, NEW s \in Step, NEW pl \in TaskPlan,
         task' = saveTaskStep(pl, s), plan' = [plan EXCEPT ![p] = pl]
  PROVE  task' \in TaskPlan /\ plan' \in [Proc -> TaskPlan]
BY SaveStepType DEF TypeInv, TypeOK

-----------------------------------------------------------------------------
(* Every action preserves the types. *)

\* The conjuncts of TypeInv, from which each case concludes.
LEMMA TypeInvParts ==
  ASSUME task' \in TaskPlan, receipts' \in [Step -> Seq(ReceiptStatus)],
         approvals' \in Seq(Approval), checkpoint' \in 0..MaxSteps,
         holder' \in Proc \cup {NoProc}, proc' \in [Proc -> GoodProcess],
         plan' \in [Proc -> TaskPlan], moved' \in BOOLEAN, invoked' \in [Step -> Nat],
         disturbances' \in 0..MaxDisturbances
  PROVE  TypeInv'
<1>1. proc' \in [Proc -> Process]
  BY DEF GoodProcess
<1>2. QED BY <1>1 DEF TypeInv, TypeOK

\* task_run, task_resume and the recovery of a restarted process.
LEMMA TypeStart ==
  ASSUME SetFacts, TypeInv, NEW p \in Proc,
         \/ Run(p) \/ RestartSkips(p) \/ RecoverSettled(p) \/ RecoverReceipt(p)
         \/ RecoverResumes(p) \/ \E a \in DOMAIN approvals : Resume(p, a)
  PROVE  TypeInv'
<1> USE DEF TypeInv, TypeOK
<1>1. task \in TaskPlan /\ proc[p].idx \in Nat
  BY AtStepFacts
<1>2. FirstIncomplete \in Step \cup {0} /\ StartStep(task) \in Step \cup {0}
  <2>1. StepsOf(task) \subseteq Step
    BY <1>1, SizeAssumption DEF StepsOf, TaskPlan, Step
  <2>2. \A st : StepsIn(task, st) \subseteq Step
    BY <2>1 DEF StepsIn
  <2>3. StepsOf(task) \ StepsIn(task, {"completed"}) \subseteq Step
    BY <2>1
  <2>4. FirstIncomplete \in Step \cup {0}
    BY <2>3, FirstStepType DEF FirstIncomplete
  <2>5. First(StepsIn(task, {"pending"})) \in Step \cup {0}
    BY <2>2, FirstStepType
  <2>6. First(StepsIn(task, {"failed", "pending_approval"})) \in Step \cup {0}
    BY <2>2, FirstStepType
  <2>7. QED BY <2>4, <2>5, <2>6 DEF StartStep
<1>3. \A s \in Step \cup {0} : s # 0 => s \in Nat \ {0} /\ s \in Step
  BY SizeAssumption DEF Step
<1>4. CASE Run(p)
  <2> DEFINE pl == [task EXCEPT !.runs = @ + 1]  s == StartStep(task)
  <2>1. pl \in TaskPlan
    BY <1>1, CountRunType
  <2>2. Begin(p, "entering", pl, s, "run", 0) /\ s # 0
    BY <1>4 DEF Run
  <2>3. s \in Nat \ {0}
    BY <1>2, <1>3, <2>2
  <2> HIDE DEF pl, s
  <2>4. /\ proc' \in [Proc -> GoodProcess] /\ plan' \in [Proc -> TaskPlan]
        /\ holder' \in Proc \cup {NoProc}
    BY <2>1, <2>2, <2>3, BeginType
  <2>5. QED BY <1>4, <2>4, TypeInvParts DEF Run
<1>5. CASE \E a \in DOMAIN approvals : Resume(p, a)
  <2>1. PICK a \in DOMAIN approvals : Resume(p, a)
    BY <1>5
  <2> DEFINE s == approvals[a].step
  <2>2. a \in Nat /\ approvals[a] \in Approval
    OBVIOUS
  <2>3. s \in Step /\ s \in Nat \ {0}
    BY <2>2, SizeAssumption, SMTT(30) DEF Approval, Step
  <2>4. SetStep(task, s, "pending") \in TaskPlan
    BY <1>1, SetStepType DEF StepStatus
  <2>5. /\ proc' \in [Proc -> GoodProcess] /\ plan' \in [Proc -> TaskPlan]
        /\ holder' \in Proc \cup {NoProc}
    BY <2>1, <2>2, <2>3, <2>4, BeginType DEF Resume
  <2>6. approvals' \in Seq(Approval)
    <3>1. [approvals[a] EXCEPT !.status = "consumed"] \in Approval
      BY <2>2, Zenon DEF Approval
    <3>2. [approvals EXCEPT ![a] = [approvals[a] EXCEPT !.status = "consumed"]] \in Seq(Approval)
      BY <3>1
    <3>3. QED BY <2>1, <3>2 DEF Resume
  <2>7. QED BY <2>1, <2>5, <2>6, TypeInvParts DEF Resume
<1>6. CASE RestartSkips(p)
  <2>1. Goto(p, "idle") /\ "idle" \in ControlState /\ "idle" \in Away /\ "idle" \notin AtOneStep
    BY <1>6, Zenon DEF RestartSkips, ControlState, Away, AtOneStep
  <2>2. proc' \in [Proc -> GoodProcess]
    BY <2>1, GotoType
  <2>3. QED BY <1>6, <2>2, TypeInvParts, Zenon DEF RestartSkips
<1>7. CASE RecoverSettled(p)
  <2>1. Goto(p, "idle") /\ "idle" \in ControlState /\ "idle" \in Away /\ "idle" \notin AtOneStep
    BY <1>7 DEF RecoverSettled, ControlState, Away, AtOneStep
  <2>2. proc' \in [Proc -> GoodProcess]
    BY <2>1, GotoType
  <2>3. task' \in TaskPlan
    BY <1>1, <1>7, SaveStatusType DEF RecoverSettled, State, TaskState
  <2>4. QED BY <1>7, <2>2, <2>3, TypeInvParts DEF RecoverSettled
<1>8. CASE RecoverReceipt(p)
  <2> DEFINE s == FirstIncomplete
  <2>1. s # 0 /\ Begin(p, "orphan", SetStep(task, s, "outcome_unknown"), s, "recover", 0)
    BY <1>8 DEF RecoverReceipt
  <2>2. s \in Step /\ s \in Nat \ {0}
    BY <1>2, <1>3, <2>1
  <2>3. SetStep(task, s, "outcome_unknown") \in TaskPlan
    BY <1>1, SetStepType DEF StepStatus
  <2>4. /\ proc' \in [Proc -> GoodProcess] /\ plan' \in [Proc -> TaskPlan]
        /\ holder' \in Proc \cup {NoProc}
    BY <2>1, <2>2, <2>3, BeginType
  <2>5. receipts' \in [Step -> Seq(ReceiptStatus)]
    BY <1>8, <2>2, FinishType, SMTT(30) DEF RecoverReceipt, ReceiptStatus
  <2>6. QED BY <1>8, <2>4, <2>5, TypeInvParts DEF RecoverReceipt
<1>9. CASE RecoverResumes(p)
  <2> DEFINE s == FirstIncomplete
             pl == IF task.status[s] = "running" THEN SetStep(task, s, "pending") ELSE task
  <2>1. s # 0 /\ Begin(p, "entering", pl, s, "recover", 0)
    BY <1>9, Zenon DEF RecoverResumes
  <2>2. s \in Nat \ {0}
    BY <1>2, <1>3, <2>1, Zenon
  <2>3. pl \in TaskPlan
    BY <1>1, SetStepType DEF StepStatus
  <2> HIDE DEF pl
  <2>4. /\ proc' \in [Proc -> GoodProcess] /\ plan' \in [Proc -> TaskPlan]
        /\ holder' \in Proc \cup {NoProc}
    BY <2>1, <2>2, <2>3, BeginType
  <2>5. task' \in TaskPlan
    BY <1>1, <1>9, SaveStatusType, SMTT(30) DEF RecoverResumes, State, TaskState
  <2>6. QED BY <1>9, <2>4, <2>5, TypeInvParts, Zenon DEF RecoverResumes
<1>10. QED BY <1>4, <1>5, <1>6, <1>7, <1>8, <1>9

\* One step of the loop.
LEMMA TypeLoop ==
  ASSUME SetFacts, TypeInv, NEW p \in Proc, LoopStep(p)
  PROVE  TypeInv'
<1> USE DEF TypeInv, TypeOK
<1> DEFINE s == proc[p].idx
<1>1. /\ proc[p].pc \in AtOneStep => s \in Step /\ s # 0
      /\ proc[p].pc \notin Away => s # 0
      /\ AtStep(p) => s \in Step
      /\ plan[p] \in TaskPlan /\ task \in TaskPlan /\ s \in Nat
  BY AtStepFacts
<1>2. \A st \in StepStatus : SetStep(plan[p], s, st) \in TaskPlan
  BY <1>1, SetStepType
<1>3. CASE EnterLoop(p)
  <2>1. task' \in TaskPlan
    BY <1>1, <1>3, SaveStatusType, SMTT(30) DEF EnterLoop, State, TaskState
  <2>2. [plan[p] EXCEPT !.state = "executing"] \in TaskPlan
    BY <1>1, StateType, Zenon DEF State, TaskState
  <2>3. plan' \in [Proc -> TaskPlan]
    BY <1>3, <2>2 DEF EnterLoop
  <2> DEFINE pc == IF HasUnknown(plan[p]) THEN "failing" ELSE "loop"
             i == NextOpen(plan[p], s)
  <2>4. i \in Nat \ {0}
    BY <1>1, NextOpenType, Zenon
  <2>5. pc \in {"failing", "loop"}
    OBVIOUS
  <2>6. proc' = [proc EXCEPT ![p] = [proc[p] EXCEPT !.pc = pc, !.idx = i]]
    BY <1>3, Zenon DEF EnterLoop
  <2> HIDE DEF pc, i
  <2>7. [proc[p] EXCEPT !.pc = pc, !.idx = i] \in GoodProcess
    BY <2>4, <2>5, GoodMove, Zenon
  <2>8. proc' \in [Proc -> GoodProcess]
    BY <2>6, <2>7
  <2>9. QED BY <1>3, <2>1, <2>3, <2>8, TypeInvParts DEF EnterLoop
<1>4. CASE SkipByRunWhen(p)
  <2> DEFINE pl == SetStep(plan[p], s, "cancelled")
  <2>1. s \in Step /\ pl \in TaskPlan
    BY <1>1, <1>2, <1>4 DEF SkipByRunWhen, StepStatus
  <2>2. /\ task' = saveTaskStep(pl, s) /\ plan' = [plan EXCEPT ![p] = pl]
        /\ Advance(p, pl) /\ CheckpointStep(s)
    BY <1>4 DEF SkipByRunWhen
  <2> HIDE DEF pl, s
  <2>3. /\ task' \in TaskPlan /\ plan' \in [Proc -> TaskPlan]
        /\ proc' \in [Proc -> GoodProcess] /\ checkpoint' \in 0..MaxSteps
    BY <2>1, <2>2, StepWriteType, AdvanceType, CheckpointType, Zenon
  <2>4. QED BY <1>4, <2>3, TypeInvParts DEF SkipByRunWhen
<1>5. CASE EnterStep(p)
  <2>1. s \in Step
    BY <1>1, <1>5 DEF EnterStep
  <2>2. task' \in TaskPlan
    BY <1>1, <1>5, SaveStatusType DEF EnterStep, State, TaskState
  <2>3. [plan[p] EXCEPT !.state = "executing"] \in TaskPlan
    BY <1>1, StateType, Zenon DEF State, TaskState
  <2>4. plan' \in [Proc -> TaskPlan]
    BY <1>5, <2>3 DEF EnterStep
  <2>5. Goto(p, "step") /\ "step" \in ControlState /\ CheckpointStep(s) /\ s # 0
    BY <1>5, <2>1, SizeAssumption DEF EnterStep, ControlState, Step
  <2>6. proc' \in [Proc -> GoodProcess] /\ checkpoint' \in 0..MaxSteps
    BY <2>1, <2>5, GotoType, CheckpointType, SMTT(30)
  <2>7. QED BY <1>5, <2>2, <2>4, <2>6, TypeInvParts DEF EnterStep
<1>6. CASE FailUndispatched(p)
  <2>1. PICK status \in {"failed", "blocked"} :
          /\ task' = saveTaskStep(SetStep(plan[p], s, status), s)
          /\ plan' = [plan EXCEPT ![p] = SetStep(plan[p], s, status)]
          /\ Advance(p, SetStep(plan[p], s, status))
    BY <1>6, Zenon DEF FailUndispatched
  <2> DEFINE pl == SetStep(plan[p], s, status)
  <2>2. s \in Step /\ pl \in TaskPlan /\ CheckpointStep(s)
    BY <1>1, <1>2, <1>6, Zenon DEF FailUndispatched, StepStatus, AtOneStep
  <2>3. task' = saveTaskStep(pl, s) /\ plan' = [plan EXCEPT ![p] = pl] /\ Advance(p, pl)
    BY <2>1
  <2> HIDE DEF pl, s
  <2>4. /\ task' \in TaskPlan /\ plan' \in [Proc -> TaskPlan]
        /\ proc' \in [Proc -> GoodProcess] /\ checkpoint' \in 0..MaxSteps
    BY <2>2, <2>3, StepWriteType, AdvanceType, CheckpointType, ZenonT(30)
  <2>5. QED BY <1>6, <2>4, TypeInvParts, SMTT(30) DEF FailUndispatched
<1>7. CASE MarkPendingApproval(p)
  <2> DEFINE pl == SetStep(plan[p], s, "pending_approval")
  <2>1. s \in Step /\ s # 0 /\ pl \in TaskPlan
    BY <1>1, <1>2, <1>7, SMTT(30) DEF MarkPendingApproval, StepStatus, AtOneStep
  <2>2. /\ task' = saveTaskStep(pl, s) /\ plan' = [plan EXCEPT ![p] = pl]
        /\ Goto(p, "asking") /\ "asking" \in ControlState
    BY <1>7, Zenon DEF MarkPendingApproval, ControlState
  <2> HIDE DEF pl
  <2>3. task' \in TaskPlan /\ plan' \in [Proc -> TaskPlan] /\ proc' \in [Proc -> GoodProcess]
    BY <2>1, <2>2, StepWriteType, GotoType, ZenonT(30)
  <2>4. QED BY <1>7, <2>3, TypeInvParts, Zenon DEF MarkPendingApproval
<1>8. CASE MoveWaiting(p)
  <2>1. s \in Step /\ s # 0
    BY <1>1, <1>8 DEF MoveWaiting, AtOneStep
  <2>2. task' \in TaskPlan
    BY <1>1, <1>8, SavePlanType DEF MoveWaiting, State, TaskState
  <2>3. [plan[p] EXCEPT !.state = "waiting_approval"] \in TaskPlan
    BY <1>1, StateType, Zenon DEF State, TaskState
  <2>4. plan' \in [Proc -> TaskPlan]
    BY <1>8, <2>3 DEF MoveWaiting
  <2>5. Goto(p, "waiting") /\ "waiting" \in ControlState /\ CheckpointStep(s)
    BY <1>8 DEF MoveWaiting, ControlState
  <2>6. proc' \in [Proc -> GoodProcess] /\ checkpoint' \in 0..MaxSteps
    BY <2>1, <2>5, GotoType, CheckpointType
  <2>7. QED BY <1>8, <2>2, <2>4, <2>6, TypeInvParts DEF MoveWaiting
<1>9. CASE CreateApproval(p)
  <2>1. s \in Step /\ s # 0
    BY <1>1, <1>9 DEF CreateApproval, AtOneStep
  <2>2. Goto(p, "asked") /\ "asked" \in ControlState
    BY <1>9 DEF CreateApproval, ControlState
  <2>3. proc' \in [Proc -> GoodProcess]
    BY <2>1, <2>2, GotoType
  <2>4. approvals' \in Seq(Approval)
    BY <1>9, <2>1 DEF CreateApproval, Approval
  <2>5. QED BY <1>9, <2>3, <2>4, TypeInvParts DEF CreateApproval
<1>10. CASE ReturnPending(p)
  <2>1. task' \in TaskPlan
    BY <1>1, <1>10, SavePlanType DEF ReturnPending, State, TaskState
  <2>2. QED BY <1>10, <2>1, LeaveType, TypeInvParts DEF ReturnPending
<1>11. \A pl \in TaskPlan : s \in Step => Attempt(pl, s) \in TaskPlan
  BY AttemptType
<1>12. ReadyToDispatch(p) => s \in Step /\ s # 0 /\ Dispatched(p) \in TaskPlan
  BY <1>1, <1>11 DEF ReadyToDispatch, Dispatched, AtOneStep
<1>13. CASE StoreResolved(p)
  <2> DEFINE pl == Attempt(plan[p], s)
  <2>1. s \in Step /\ s # 0 /\ pl \in TaskPlan
    BY <1>1, <1>11, <1>13 DEF StoreResolved, AtOneStep
  <2>2. /\ task' = saveTaskStep(pl, s) /\ plan' = [plan EXCEPT ![p] = pl]
        /\ Goto(p, "resolved") /\ "resolved" \in ControlState
    BY <1>13 DEF StoreResolved, ControlState
  <2> HIDE DEF pl
  <2>3. task' \in TaskPlan /\ plan' \in [Proc -> TaskPlan] /\ proc' \in [Proc -> GoodProcess]
    BY <2>1, <2>2, StepWriteType, GotoType, ZenonT(30)
  <2>4. QED BY <1>13, <2>3, TypeInvParts DEF StoreResolved
<1>14. CASE Dispatch(p)
  <2> DEFINE pl == Dispatched(p)
  <2>1. s \in Step /\ s # 0 /\ pl \in TaskPlan
    BY <1>12, <1>14, SMTT(30) DEF Dispatch
  <2>2. /\ task' = saveTaskStep(pl, s) /\ plan' = [plan EXCEPT ![p] = pl]
        /\ Goto(p, "awaiting") /\ "awaiting" \in ControlState
    BY <1>14, Zenon DEF Dispatch, ControlState
  <2> HIDE DEF pl
  <2>3. task' \in TaskPlan /\ plan' \in [Proc -> TaskPlan] /\ proc' \in [Proc -> GoodProcess]
    BY <2>1, <2>2, StepWriteType, GotoType, Zenon
  <2>4. Append(receipts[s], "started") \in Seq(ReceiptStatus)
    BY <2>1 DEF ReceiptStatus
  <2>5. receipts' \in [Step -> Seq(ReceiptStatus)]
    BY <1>14, <2>4, Zenon DEF Dispatch
  <2>6. QED BY <1>14, <2>3, <2>5, TypeInvParts, Zenon DEF Dispatch
<1>15. CASE DispatchStale(p)
  <2> DEFINE pl == SetStep(Dispatched(p), s, "outcome_unknown")
  <2>1. s \in Step /\ s # 0 /\ Dispatched(p) \in TaskPlan
    BY <1>12, <1>15 DEF DispatchStale
  <2>2. pl \in TaskPlan
    BY <2>1, SetStepType DEF StepStatus
  <2>3. /\ task' = saveTaskStep(pl, s) /\ plan' = [plan EXCEPT ![p] = pl]
        /\ Goto(p, "failing") /\ "failing" \in ControlState /\ "failing" \notin AtOneStep
    BY <1>15, Zenon DEF DispatchStale, ControlState, AtOneStep
  <2> HIDE DEF pl
  <2>4. task' \in TaskPlan /\ plan' \in [Proc -> TaskPlan] /\ proc' \in [Proc -> GoodProcess]
    BY <2>1, <2>2, <2>3, StepWriteType, GotoType, Zenon
  <2>5. QED BY <1>15, <2>4, TypeInvParts, Zenon DEF DispatchStale
<1>16. CASE Invoke(p)
  <2> DEFINE a == proc[p].grant
  <2>1. s \in Step /\ s # 0
    BY <1>1, <1>16 DEF Invoke, AtOneStep
  <2>2. Goto(p, "invoked") /\ "invoked" \in ControlState
    BY <1>16 DEF Invoke, ControlState
  <2>3. proc' \in [Proc -> GoodProcess]
    BY <2>1, <2>2, GotoType
  <2>4. [approvals EXCEPT ![a].dispatched = TRUE] \in Seq(Approval)
    <3>1. CASE a \in DOMAIN approvals
      <4>1. approvals[a] \in Approval
        BY <3>1
      <4>2. [approvals[a] EXCEPT !.dispatched = TRUE] \in Approval
        BY <4>1, Zenon DEF Approval
      <4>3. QED BY <3>1, <4>2
    <3>2. CASE a \notin DOMAIN approvals
      <4>1. [approvals EXCEPT ![a].dispatched = TRUE] = approvals
        BY <3>2
      <4>2. QED BY <4>1, Zenon
    <3>3. QED BY <3>1, <3>2
  <2>5. approvals' \in Seq(Approval)
    BY <1>16, <2>4 DEF Invoke
  <2>6. invoked' \in [Step -> Nat]
    <3>1. invoked[s] + 1 \in Nat /\ invoked' = [invoked EXCEPT ![s] = invoked[s] + 1]
      BY <1>16, <2>1 DEF Invoke
    <3>2. QED BY <3>1, Zenon
  <2>7. QED BY <1>16, <2>3, <2>5, <2>6, TypeInvParts, Zenon DEF Invoke
<1>17. ASSUME NEW o \in Outcome, Settle(p, o), proc[p].pc \in AtOneStep PROVE TypeInv'
  <2>1. s \in Step /\ s # 0
    BY <1>1, <1>17
  <2>2. receipts' \in [Step -> Seq(ReceiptStatus)]
    <3>1. ReceiptFor(o) \in ReceiptStatus
      BY SMTT(30) DEF ReceiptFor, ReceiptStatus
    <3>2. QED BY <1>17, <2>1, <3>1, FinishType DEF Settle
  <2>3. [proc[p] EXCEPT !.pc = "settling", !.result = o] \in GoodProcess
    BY <1>17, GoodSettle, Zenon
  <2>4. proc' \in [Proc -> GoodProcess]
    BY <1>17, <2>3 DEF Settle
  <2>5. QED BY <1>17, <2>2, <2>4, TypeInvParts DEF Settle
<1>18. CASE ToolReturns(p) \/ ToolDenied(p)
  BY <1>17, <1>18, Zenon DEF ToolReturns, ToolDenied, Refused, Outcome, AtOneStep
<1>19. CASE SettleStep(p)
  <2> DEFINE o == proc[p].result  pl == SetStep(plan[p], s, StatusFor(o))
  <2>1. s \in Step /\ s # 0
    BY <1>1, <1>19 DEF SettleStep, AtOneStep
  <2>2. pl \in TaskPlan
    BY <1>2 DEF StatusFor, StepStatus
  <2>3. /\ task' = saveTaskStep(pl, s) /\ plan' = [plan EXCEPT ![p] = pl] /\ CheckpointStep(s)
        /\ Goto(p, "failing") \/ Goto(p, "retrying") \/ Advance(p, pl)
    BY <1>19 DEF SettleStep
  <2>4. /\ "failing" \in ControlState /\ "failing" \notin AtOneStep
        /\ "retrying" \in ControlState
    BY DEF ControlState, AtOneStep
  <2> HIDE DEF pl
  <2>5. proc' \in [Proc -> GoodProcess]
    <3>1. CASE Goto(p, "failing")
      BY <2>1, <2>4, <3>1, GotoType
    <3>2. CASE Goto(p, "retrying")
      BY <2>1, <2>4, <3>2, GotoType
    <3>3. CASE Advance(p, pl)
      BY <2>2, <3>3, AdvanceType
    <3>4. QED BY <2>3, <3>1, <3>2, <3>3
  <2>6. /\ task' \in TaskPlan /\ plan' \in [Proc -> TaskPlan]
        /\ checkpoint' \in 0..MaxSteps
    BY <2>1, <2>2, <2>3, StepWriteType, CheckpointType, Zenon
  <2>7. QED BY <1>19, <2>5, <2>6, TypeInvParts DEF SettleStep
<1>20. CASE MoveFailed(p)
  <2>1. task' \in TaskPlan
    BY <1>1, <1>20, SavePlanType DEF MoveFailed, State, TaskState
  <2>2. QED BY <1>20, <2>1, LeaveType, TypeInvParts, Zenon DEF MoveFailed
<1>21. CASE MoveRecovering(p)
  <2>1. task' \in TaskPlan
    BY <1>1, <1>21, SavePlanType, SMTT(30) DEF MoveRecovering, State, TaskState
  <2>2. [plan[p] EXCEPT !.state = "recovering"] \in TaskPlan
    BY <1>1, StateType, Zenon DEF State, TaskState
  <2>3. plan' \in [Proc -> TaskPlan]
    BY <1>21, <2>2 DEF MoveRecovering
  <2> DEFINE i == NextOpen(plan[p], s + 1)
  <2>4. i \in Nat \ {0}
    <3>1. plan[p] \in TaskPlan /\ s + 1 \in Nat
      BY <1>1
    <3>2. QED BY <3>1, NextOpenType, ZenonT(30)
  <2>5. /\ [proc[p] EXCEPT !.pc = "backoff", !.retries = @ + 1] \in GoodProcess
        /\ [proc[p] EXCEPT !.pc = "loop", !.retries = @ + 1, !.idx = i] \in GoodProcess
    BY <1>21, <2>4, GoodMove, GoodSettle, Zenon DEF MoveRecovering, AtOneStep, Outcome
  <2>6. \/ proc' = [proc EXCEPT ![p] = [proc[p] EXCEPT !.pc = "backoff", !.retries = @ + 1]]
        \/ proc' = [proc EXCEPT ![p] = [proc[p] EXCEPT !.pc = "loop", !.retries = @ + 1, !.idx = i]]
    BY <1>21, Zenon DEF MoveRecovering
  <2> HIDE DEF i
  <2>7. proc' \in [Proc -> GoodProcess]
    BY <2>5, <2>6, Zenon
  <2>8. QED BY <1>21, <2>1, <2>3, <2>7, TypeInvParts DEF MoveRecovering
<1>22. CASE Retry(p)
  <2>1. s \in Step /\ s # 0
    BY <1>1, <1>22 DEF Retry, AtOneStep
  <2>2. task' \in TaskPlan
    BY <1>1, <1>22, SaveStatusType DEF Retry, State, TaskState
  <2>3. SetStep(plan[p], s, "pending") \in TaskPlan
    BY <1>2, SMTT(30) DEF StepStatus
  <2>4. [SetStep(plan[p], s, "pending") EXCEPT !.state = "executing"] \in TaskPlan
    BY <2>3, StateType, Zenon DEF State, TaskState
  <2>5. plan' \in [Proc -> TaskPlan]
    BY <1>22, <2>4 DEF Retry
  <2>6. Goto(p, "loop") /\ "loop" \in ControlState /\ "loop" \notin AtOneStep
    BY <1>22 DEF Retry, ControlState, AtOneStep
  <2>7. proc' \in [Proc -> GoodProcess]
    BY <2>1, <2>6, GotoType
  <2>8. QED BY <1>22, <2>2, <2>5, <2>7, TypeInvParts DEF Retry
<1>23. CASE Verify(p)
  <2>1. s # 0
    BY <1>1, <1>23 DEF Verify, Away
  <2>2. task' \in TaskPlan
    BY <1>1, <1>23, SaveStatusType, SMTT(30) DEF Verify, State, TaskState
  <2>3. [plan[p] EXCEPT !.state = "verifying"] \in TaskPlan
    BY <1>1, StateType, Zenon DEF State, TaskState
  <2>4. plan' \in [Proc -> TaskPlan]
    BY <1>23, <2>3 DEF Verify
  <2>5. Goto(p, "verifying") /\ "verifying" \in ControlState /\ "verifying" \notin AtOneStep
    BY <1>23 DEF Verify, ControlState, AtOneStep
  <2>6. proc' \in [Proc -> GoodProcess]
    BY <2>1, <2>5, GotoType
  <2>7. QED BY <1>23, <2>2, <2>4, <2>6, TypeInvParts DEF Verify
<1>24. CASE Finish(p) \/ RecoverOrphan(p)
  <2>1. task' \in TaskPlan
    BY <1>1, <1>24, SavePlanType, SMTT(30) DEF Finish, RecoverOrphan, State, TaskState
  <2>2. QED BY <1>24, <2>1, LeaveType, TypeInvParts, Zenon DEF Finish, RecoverOrphan
<1>25. CASE Fenced(p)
  BY <1>25, LeaveType, TypeInvParts, Zenon DEF Fenced
<1>26. QED
  BY <1>3, <1>4, <1>5, <1>6, <1>7, <1>8, <1>9, <1>10, <1>13, <1>14, <1>15, <1>16, <1>18,
     <1>19, <1>20, <1>21, <1>22, <1>23, <1>24, <1>25, Zenon DEF LoopStep

\* Revoking the open approvals keeps the table a table of approvals.
LEMMA RevokeType ==
  ASSUME TypeInv
  PROVE  revokeTaskApprovals \in Seq(Approval)
<1>1. approvals \in Seq(Approval) /\ DOMAIN approvals = 1..Len(approvals) /\ Len(approvals) \in Nat
  BY DEF TypeInv, TypeOK
<1>2. \A a \in DOMAIN approvals : [approvals[a] EXCEPT !.status = "revoked"] \in Approval
  <2>1. \A r \in Approval : [r EXCEPT !.status = "revoked"] \in Approval
    BY DEF Approval
  <2>2. QED BY <1>1, <2>1
<1>3. revokeTaskApprovals \in [1..Len(approvals) -> Approval]
  BY <1>1, <1>2 DEF revokeTaskApprovals
<1>4. QED BY <1>1, <1>3

\* Cancelling, and crashes, on the side of a process.
LEMMA TypeCancel ==
  ASSUME TypeInv, NEW p \in Proc,
         Crash(p) \/ CancelRead(p) \/ CancelWrite(p) \/ CancelRevoke(p)
  PROVE  TypeInv'
<1> USE DEF TypeInv, TypeOK
<1>1. "down" \in Away /\ "idle" \in Away /\ "revoking" \in Away /\ "cancelling" \in Away
  BY DEF Away
<1>2. plan[p] \in TaskPlan /\ task \in TaskPlan
  BY AtStepFacts
<1>3. Away \subseteq ControlState /\ Away \cap AtOneStep = {}
  BY DEF Away, ControlState, AtOneStep
<1>4. CASE Crash(p)
  <2>1. proc' \in [Proc -> GoodProcess] /\ plan' \in [Proc -> TaskPlan]
    BY <1>1, <1>4, ForgetType DEF Crash
  <2>2. disturbances' \in 0..MaxDisturbances
    BY <1>4, BoundAssumption DEF Crash
  <2>3. QED BY <1>4, <2>1, <2>2, TypeInvParts, Zenon DEF Crash
<1>5. CASE CancelRead(p)
  <2>1. proc' \in [Proc -> GoodProcess]
    BY <1>1, <1>3, <1>5, GotoType DEF CancelRead
  <2>2. QED BY <1>2, <1>5, <2>1, TypeInvParts, Zenon DEF CancelRead
<1>6. CASE CancelWrite(p)
  <2>1. Forget(p, "revoking") \/ Forget(p, "idle")
    BY <1>6 DEF CancelWrite
  <2>2. proc' \in [Proc -> GoodProcess] /\ plan' \in [Proc -> TaskPlan]
    BY <1>1, <2>1, ForgetType
  <2>3. task' \in TaskPlan
    BY <1>2, <1>6, SavePlanType DEF CancelWrite, State, TaskState
  <2>4. QED BY <1>6, <2>2, <2>3, TypeInvParts DEF CancelWrite
<1>7. CASE CancelRevoke(p)
  <2>1. proc' \in [Proc -> GoodProcess]
    BY <1>1, <1>3, <1>7, GotoType, SMTT(30) DEF CancelRevoke
  <2>2. QED BY <1>7, <2>1, RevokeType, TypeInvParts, Zenon DEF CancelRevoke
<1>8. QED BY <1>4, <1>5, <1>6, <1>7, Zenon

\* What happens to the Task from outside any invocation.
LEMMA TypeOutside ==
  ASSUME TypeInv,
         \/ \E a \in DOMAIN approvals : Approve(a) \/ ApprovalExpires(a)
         \/ AppendSteps
         \/ \E s \in Step, d \in Decision : Reconcile(s, d)
         \/ LeaseExpires \/ ContextMoves
  PROVE  TypeInv'
<1> USE DEF TypeInv, TypeOK
<1>1. \A a \in DOMAIN approvals : a \in 1..Len(approvals) /\ approvals[a] \in Approval
  OBVIOUS
<1>2. ASSUME NEW a \in DOMAIN approvals, NEW r \in Approval
      PROVE  [approvals EXCEPT ![a] = r] \in Seq(Approval)
  BY <1>1
<1>3. ASSUME NEW a \in DOMAIN approvals, Approve(a) PROVE TypeInv'
  <2>1. [approvals[a] EXCEPT !.status = "approved"] \in Approval
    BY <1>1, Zenon DEF Approval
  <2>2. [approvals EXCEPT ![a].status = "approved"] \in Seq(Approval)
    BY <1>2, <2>1
  <2>3. approvals' \in Seq(Approval)
    BY <1>3, <2>2, RevokeType DEF Approve
  <2>4. QED BY <1>3, <2>3, TypeInvParts DEF Approve
<1>4. ASSUME NEW a \in DOMAIN approvals, ApprovalExpires(a) PROVE TypeInv'
  <2>1. [approvals[a] EXCEPT !.expired = TRUE] \in Approval
    BY <1>1, Zenon DEF Approval
  <2>2. [approvals EXCEPT ![a].expired = TRUE] \in Seq(Approval)
    BY <1>2, <2>1
  <2>3. QED BY <1>4, <2>2, TypeInvParts DEF ApprovalExpires
<1>5. CASE AppendSteps
  <2> DEFINE q == [task EXCEPT !.state = "planning"]  r == [q EXCEPT !.n = @ + 1]
  <2>1. q \in TaskPlan /\ q.n = task.n
    BY Zenon DEF TaskPlan, TaskState
  <2>2. task.n + 1 \in Step
    <3>1. task.n \in Step /\ task.n < MaxSteps
      BY <1>5 DEF AppendSteps, TaskPlan
    <3>2. QED BY <3>1, SizeAssumption, SMTT(30) DEF Step
  <2>3. r \in TaskPlan
    <3> HIDE DEF q
    <3>1. QED BY <2>1, <2>2, Zenon DEF TaskPlan
  <2>4. [r EXCEPT !.runs = 0] \in TaskPlan
    <3> HIDE DEF r
    <3>1. QED BY <2>3, Zenon DEF TaskPlan
  <2>5. task' \in TaskPlan
    BY <1>5, <2>4 DEF AppendSteps
  <2>6. QED BY <1>5, <2>5, TypeInvParts DEF AppendSteps
<1>6. ASSUME NEW s \in Step, NEW d \in Decision, Reconcile(s, d) PROVE TypeInv'
  <2> DEFINE st == CASE d = "confirmed_succeeded" -> "reconciled_succeeded"
                     [] d = "confirmed_failed" -> "reconciled_failed"
                     [] OTHER -> "pending"
             pl == SetStep(task, s, st)
             ts == CASE d = "confirmed_failed" -> "failed"
                     [] d = "confirmed_succeeded" /\ unresolvedTaskSteps(pl) = {} -> "completed"
                     [] OTHER -> "planning"
  <2>1. st \in StepStatus /\ ts \in State
    BY DEF StepStatus, State, TaskState
  <2>2. task' = [pl EXCEPT !.state = ts]
    BY <1>6 DEF Reconcile
  <2> HIDE DEF st, ts
  <2>3. pl \in TaskPlan
    BY <2>1, SetStepType
  <2>4. task' \in TaskPlan
    BY <2>1, <2>2, <2>3, StateType
  <2>5. receipts' \in [Step -> Seq(ReceiptStatus)]
    BY <1>6, FinishType DEF Reconcile, ReceiptStatus
  <2>6. QED BY <1>6, <2>4, <2>5, TypeInvParts, Zenon DEF Reconcile
<1>7. CASE LeaseExpires
  <2>1. disturbances' \in 0..MaxDisturbances
    BY <1>7, BoundAssumption DEF LeaseExpires
  <2>2. QED BY <1>7, <2>1, TypeInvParts, Zenon DEF LeaseExpires
<1>8. CASE ContextMoves
  BY <1>8, TypeInvParts DEF ContextMoves
<1>9. QED BY <1>3, <1>4, <1>5, <1>6, <1>7, <1>8, Zenon

\* Every step of the specification.
LEMMA TypeStep ==
  ASSUME SetFacts, TypeInv, [Next]_vars
  PROVE  TypeInv'
<1>1. CASE UNCHANGED vars
  BY <1>1 DEF vars, TypeInv, TypeOK
<1>2. CASE Next
  BY <1>2, TypeStart, TypeLoop, TypeCancel, TypeOutside DEF Next
<1>3. QED BY <1>1, <1>2

\* The new task satisfies the type invariant.
LEMMA TypeInit ==
  Init => TypeInv
<1> SUFFICES ASSUME Init PROVE TypeInv
  OBVIOUS
<1>1. NewTask \in TaskPlan
  BY SizeAssumption DEF NewTask, TaskPlan, TaskState, StepStatus, Step
<1>2. IdleProcess \in GoodProcess /\ IdleProcess \in Process
  BY DEF IdleProcess, GoodProcess, Process, ControlState, Away, AtOneStep, Outcome
<1>3. checkpoint \in 0..MaxSteps /\ disturbances \in 0..MaxDisturbances
  BY SizeAssumption, BoundAssumption DEF Init
<1>4. receipts \in [Step -> Seq(ReceiptStatus)] /\ approvals \in Seq(Approval)
  BY DEF Init
<1>5. QED BY <1>1, <1>2, <1>3, <1>4, Zenon DEF Init, TypeInv, TypeOK

-----------------------------------------------------------------------------
(* Cancellation is final. *)

\* Nobody holds the lease of a cancelled task: a runner that starts finds the task
\* in another state, and cancel writes only while the lease is free.
NoRunnerOnCancelled == holder # NoProc => task.state # "cancelled"

\* What CancelledIsFinal asks of one step.
StaysCancelled == task.state = "cancelled" => task'.state = "cancelled" /\ receipts' = receipts

\* A start takes the lease of a task that is not cancelled.
LEMMA CancelStart ==
  ASSUME TypeInv, NoRunnerOnCancelled, NEW p \in Proc,
         \/ Run(p) \/ RestartSkips(p) \/ RecoverSettled(p) \/ RecoverReceipt(p)
         \/ RecoverResumes(p) \/ \E a \in DOMAIN approvals : Resume(p, a)
  PROVE  NoRunnerOnCancelled' /\ StaysCancelled
<1>1. task \in TaskPlan
  BY DEF TypeInv, TypeOK
<1>2. CASE Run(p)
  <2>1. task.state # "cancelled"
    BY <1>2 DEF Run, CanEnter, Transitions
  <2>2. QED BY <1>2, <2>1 DEF Run, NoRunnerOnCancelled, StaysCancelled
<1>3. CASE \E a \in DOMAIN approvals : Resume(p, a)
  <2>1. PICK a \in DOMAIN approvals : Resume(p, a)
    BY <1>3
  <2>2. task.state # "cancelled" /\ task' = task
    BY <2>1 DEF Resume
  <2>3. QED BY <2>2 DEF NoRunnerOnCancelled, StaysCancelled
<1>4. CASE RestartSkips(p)
  BY <1>4, Zenon DEF RestartSkips, NoRunnerOnCancelled, StaysCancelled
<1>5. CASE RecoverSettled(p)
  <2>1. task.state # "cancelled"
    <3>1. Interrupted BY <1>5, Zenon DEF RecoverSettled
    <3> QED BY <3>1, SMTT(30) DEF Interrupted
  <2>2. holder' = NoProc
    BY <1>5, Zenon DEF RecoverSettled
  <2>3. QED BY <2>1, <2>2 DEF NoRunnerOnCancelled, StaysCancelled
<1>6. CASE RecoverReceipt(p)
  <2>1. task.state # "cancelled" /\ task' = task
    BY <1>6, Zenon DEF RecoverReceipt, Interrupted
  <2>2. QED BY <2>1, SMTT(30) DEF NoRunnerOnCancelled, StaysCancelled
<1>7. CASE RecoverResumes(p)
  <2>1. task.state # "cancelled"
    <3>1. Interrupted BY <1>7, Zenon DEF RecoverResumes
    <3> QED BY <3>1, SMTT(30) DEF Interrupted
  <2>2. task'.state = "executing"
    BY <1>1, <1>7, SaveStatusType, Zenon DEF RecoverResumes, State, TaskState
  <2>3. QED BY <2>1, <2>2, SMTT(30) DEF NoRunnerOnCancelled, StaysCancelled
<1>8. QED BY <1>2, <1>3, <1>4, <1>5, <1>6, <1>7

\* The loop writes under its lease, hence not to a cancelled task, and never
\* writes that state.
LEMMA CancelLoop ==
  ASSUME TypeInv, NoRunnerOnCancelled, NEW p \in Proc, LoopStep(p)
  PROVE  NoRunnerOnCancelled' /\ StaysCancelled
<1>1. plan[p] \in TaskPlan /\ task \in TaskPlan
  BY AtStepFacts, Zenon
<1>2. LeasedWrite(p) => task.state # "cancelled"
  BY ProcAssumption DEF LeasedWrite, NoRunnerOnCancelled
<1>3. ASSUME LeasedWrite(p), task'.state # "cancelled"
      PROVE  NoRunnerOnCancelled' /\ StaysCancelled
  BY <1>2, <1>3 DEF NoRunnerOnCancelled, StaysCancelled
<1>4. ASSUME task' = task, holder' \in {holder, NoProc}, LeasedWrite(p) \/ receipts' = receipts
      PROVE  NoRunnerOnCancelled' /\ StaysCancelled
  BY <1>2, <1>4 DEF NoRunnerOnCancelled, StaysCancelled
<1>5. {"executing", "verifying", "failed", "completed", "recovering", "waiting_approval",
       "pending_approval"} \subseteq State
  BY DEF State, TaskState
<1>6. CASE EnterLoop(p) \/ EnterStep(p) \/ Retry(p) \/ Verify(p)
  <2>1. LeasedWrite(p) /\ task' \in {saveTaskStatus("executing"), saveTaskStatus("verifying")}
    BY <1>6 DEF EnterLoop, EnterStep, Retry, Verify
  <2>2. task'.state # "cancelled"
    BY <1>1, <1>5, <2>1, SaveStatusType
  <2>3. QED BY <1>3, <2>1, <2>2
<1>7. CASE MoveWaiting(p) \/ ReturnPending(p) \/ MoveFailed(p) \/ MoveRecovering(p)
           \/ Finish(p) \/ RecoverOrphan(p)
  <2>1. LeasedWrite(p)
    BY <1>7 DEF MoveWaiting, ReturnPending, MoveFailed, MoveRecovering, Finish, RecoverOrphan
  <2>2. \E st \in {"waiting_approval", "pending_approval", "failed", "recovering", "completed"} :
          task' = saveTaskPlan(plan[p], st)
    BY <1>7 DEF MoveWaiting, ReturnPending, MoveFailed, MoveRecovering, Finish, RecoverOrphan
  <2>3. task'.state # "cancelled"
    BY <1>1, <1>5, <2>2, SavePlanType, ZenonT(30)
  <2>4. QED BY <1>3, <2>1, <2>3
<1>8. CASE SkipByRunWhen(p) \/ FailUndispatched(p) \/ MarkPendingApproval(p) \/ StoreResolved(p)
           \/ Dispatch(p) \/ DispatchStale(p) \/ SettleStep(p)
  <2>1. LeasedWrite(p) /\ \E pl : task' = saveTaskStep(pl, proc[p].idx)
    BY <1>8, Zenon DEF SkipByRunWhen, FailUndispatched, MarkPendingApproval, StoreResolved, Dispatch,
                DispatchStale, SettleStep
  <2>2. task'.state = task.state
    <3>1. PICK pl : task' = saveTaskStep(pl, proc[p].idx)
      BY <2>1
    <3>2. QED BY <1>1, <3>1, SaveStepState
  <2>3. QED BY <1>2, <1>3, <2>1, <2>2
<1>9. CASE CreateApproval(p) \/ Invoke(p)
  BY <1>4, <1>9 DEF CreateApproval, Invoke
<1>10. CASE ToolReturns(p) \/ ToolDenied(p)
  <2>1. \E o \in Outcome : Settle(p, o)
    BY <1>10 DEF ToolReturns, ToolDenied, Refused, Outcome
  <2>2. QED BY <1>4, <2>1 DEF Settle
<1>11. CASE Fenced(p)
  BY <1>4, <1>11 DEF Fenced, Leave
<1>12. QED BY <1>6, <1>7, <1>8, <1>9, <1>10, <1>11 DEF LoopStep

\* Cancelling, crashes and what happens from outside.
LEMMA CancelRest ==
  ASSUME TypeInv, NoRunnerOnCancelled,
         \/ \E p \in Proc : Crash(p) \/ CancelRead(p) \/ CancelWrite(p) \/ CancelRevoke(p)
         \/ \E a \in DOMAIN approvals : Approve(a) \/ ApprovalExpires(a)
         \/ AppendSteps
         \/ \E s \in Step, d \in Decision : Reconcile(s, d)
         \/ LeaseExpires \/ ContextMoves
  PROVE  NoRunnerOnCancelled' /\ StaysCancelled
<1>1. ASSUME NEW p \in Proc, CancelWrite(p) PROVE NoRunnerOnCancelled' /\ StaysCancelled
  <2>1. plan[p] \in TaskPlan /\ task \in TaskPlan
    BY SMTT(30) DEF TypeInv, TypeOK
  <2>2. /\ receipts' = receipts
        /\ holder' = holder
        /\ \/ UnleasedWrite /\ task' = saveTaskPlan(plan[p], "cancelled")
           \/ task' = task
    BY <1>1, ZenonT(30) DEF CancelWrite
  <2>3. CASE task' = task
    BY <2>2, <2>3, Zenon DEF NoRunnerOnCancelled, StaysCancelled
  <2>4. CASE UnleasedWrite /\ task' = saveTaskPlan(plan[p], "cancelled")
    <3>1. task'.state = "cancelled"
      BY <2>1, <2>4, SavePlanType, SMTT(30) DEF State, TaskState
    <3>2. holder' = NoProc
      BY <2>2, <2>4, Zenon DEF UnleasedWrite
    <3>3. QED BY <2>2, <3>1, <3>2, Zenon DEF NoRunnerOnCancelled, StaysCancelled
  <2>5. QED BY <2>2, <2>3, <2>4, Zenon
<1> USE DEF NoRunnerOnCancelled, StaysCancelled
<1>2. ASSUME NEW p \in Proc, Crash(p) \/ CancelRead(p) \/ CancelRevoke(p)
      PROVE  NoRunnerOnCancelled' /\ StaysCancelled
  BY <1>2, Zenon DEF Crash, CancelRead, CancelRevoke
<1>3. ASSUME NEW a \in DOMAIN approvals, Approve(a) \/ ApprovalExpires(a)
      PROVE  NoRunnerOnCancelled' /\ StaysCancelled
  BY <1>3 DEF Approve, ApprovalExpires
<1>4. CASE AppendSteps
  BY <1>4 DEF AppendSteps, UnleasedWrite
<1>5. ASSUME NEW s \in Step, NEW d \in Decision, Reconcile(s, d)
      PROVE  NoRunnerOnCancelled' /\ StaysCancelled
  <2>1. /\ UnleasedWrite /\ holder' = holder
        /\ task.state = "failed"
    BY <1>5, ZenonT(30) DEF Reconcile
  <2>2. task.state # "cancelled" BY <2>1, SMTT(30)
  <2>3. QED BY <2>1, <2>2, Zenon DEF UnleasedWrite
<1>6. CASE LeaseExpires \/ ContextMoves
  BY <1>6, Zenon DEF LeaseExpires, ContextMoves
<1>7. QED BY <1>1, <1>2, <1>3, <1>4, <1>5, <1>6

\* Every step of the specification keeps a cancelled task cancelled.
LEMMA CancelStep ==
  ASSUME TypeInv, NoRunnerOnCancelled, [Next]_vars
  PROVE  NoRunnerOnCancelled' /\ (UNCHANGED vars \/ StaysCancelled)
<1>1. CASE UNCHANGED vars
  BY <1>1 DEF vars, NoRunnerOnCancelled
<1>2. CASE Next
  BY <1>2, CancelStart, CancelLoop, CancelRest DEF Next
<1>3. QED BY <1>1, <1>2

-----------------------------------------------------------------------------
(* What the steps of the loop write *)

\* Only process p, and its plan object, change.
OthersKept(p) == \A q \in Proc \ {p} : proc'[q] = proc[q] /\ plan'[q] = plan[q]

\* Process p goes from one control state to another, at step i.
Moves(p, from, to, i) ==
  /\ proc[p].pc = from
  /\ proc'[p].pc = to /\ proc'[p].idx = i /\ proc'[p].grant = proc[p].grant

\* Process p ends its invocation.
Leaves(p) ==
  /\ proc'[p].pc = "idle" /\ proc'[p].grant = 0 /\ plan'[p] = NewTask
  /\ holder' = IF holder = p THEN NoProc ELSE holder

\* p writes the task's state alone; its plan object gets the step statuses f.
StatusWrite(p, f) ==
  /\ holder = p /\ holder' = p /\ receipts' = receipts
  /\ task'.n = task.n /\ task'.status = task.status /\ task'.state \in {"executing", "verifying"}
  /\ plan'[p].n = plan[p].n /\ plan'[p].status = f

\* p writes status v of its step, to the row and to its plan object.
StepWrite(p, v) ==
  /\ holder = p /\ holder' = p
  /\ task'.n = task.n /\ task'.state = task.state
  /\ task'.status = [task.status EXCEPT ![proc[p].idx] = v]
  /\ plan'[p].n = plan[p].n
  /\ plan'[p].status = [plan[p].status EXCEPT ![proc[p].idx] = v]

\* p writes its whole plan object, with the state st.
PlanWrite(p, st) ==
  /\ holder = p /\ receipts' = receipts
  /\ task'.n = task.n /\ task'.state = st
  /\ task'.status = [s \in Step |-> IF s <= plan[p].n THEN plan[p].status[s] ELSE task.status[s]]

\* p takes the free lease and a copy of the task with step statuses f.
Begins(p, pc, i, a, f) ==
  /\ holder = NoProc /\ holder' = p
  /\ proc'[p].pc = pc /\ proc'[p].idx = i /\ proc'[p].grant = a
  /\ plan'[p].n = task.n /\ plan'[p].status = f

KeepsPlan(p) == plan'[p].n = plan[p].n /\ plan'[p].status = plan[p].status

\* The fields of a plan whose step is attempted.
LEMMA AttemptFields ==
  ASSUME NEW pl \in TaskPlan, NEW s \in Step
  PROVE  /\ Attempt(pl, s).status = [pl.status EXCEPT ![s] = "running"]
         /\ Attempt(pl, s).n = pl.n
<1> DEFINE q == SetStep(pl, s, "running")
<1>1. q \in TaskPlan
  BY SetStepType DEF StepStatus
<1>2. q.status = [pl.status EXCEPT ![s] = "running"] /\ q.n = pl.n
  BY DEF SetStep, TaskPlan
<1> HIDE DEF q
<1>3. [q EXCEPT !.attempts[s] = @ + 1].status = q.status /\ [q EXCEPT !.attempts[s] = @ + 1].n = q.n
  BY <1>1 DEF TaskPlan
<1>4. QED BY <1>2, <1>3 DEF Attempt, q

\* The row after saveTaskStep of a plan whose step s has just been set to v.
LEMMA StepWritten ==
  ASSUME TypeInv, NEW p \in Proc, proc[p].idx \in Step, holder = p, holder' = holder,
         NEW pl \in TaskPlan, NEW v,
         pl.status = [plan[p].status EXCEPT ![proc[p].idx] = v], pl.n = plan[p].n,
         task' = saveTaskStep(pl, proc[p].idx), plan' = [plan EXCEPT ![p] = pl]
  PROVE  StepWrite(p, v)
<1>1. task \in TaskPlan /\ plan[p] \in TaskPlan /\ plan \in [Proc -> TaskPlan]
  BY DEF TypeInv, TypeOK
<1>2. pl.status[proc[p].idx] = v
  BY <1>1 DEF TaskPlan
<1>3. plan'[p] = pl
  BY <1>1
<1>4. /\ task'.status = [task.status EXCEPT ![proc[p].idx] = pl.status[proc[p].idx]]
      /\ task'.n = task.n /\ task'.state = task.state
  BY <1>1 DEF saveTaskStep, TaskPlan
<1>5. QED BY <1>2, <1>3, <1>4 DEF StepWrite

\* Where each way of moving leaves the processes.
LEMMA GotoMoves ==
  ASSUME TypeInv, NEW p \in Proc, NEW pc, Goto(p, pc)
  PROVE  /\ Moves(p, proc[p].pc, pc, proc[p].idx)
         /\ \A q \in Proc \ {p} : proc'[q] = proc[q]
<1>1. proc \in [Proc -> GoodProcess] /\ proc[p] \in Process
  BY DEF TypeInv, GoodProcess
<1>2. proc'[p] = [proc[p] EXCEPT !.pc = pc] /\ \A q \in Proc \ {p} : proc'[q] = proc[q]
  BY <1>1 DEF Goto
<1>3. QED BY <1>1, <1>2 DEF Moves, Process

\* The loop goes on to the next open step.
LEMMA AdvanceMoves ==
  ASSUME TypeInv, NEW p \in Proc, NEW pl, Advance(p, pl)
  PROVE  /\ Moves(p, proc[p].pc, "loop", NextOpen(pl, proc[p].idx + 1))
         /\ \A q \in Proc \ {p} : proc'[q] = proc[q]
<1> DEFINE i == NextOpen(pl, proc[p].idx + 1)
<1>1. proc \in [Proc -> GoodProcess] /\ proc[p] \in Process
  BY DEF TypeInv, GoodProcess
<1>2. proc'[p] = [proc[p] EXCEPT !.pc = "loop", !.idx = i] /\ \A q \in Proc \ {p} : proc'[q] = proc[q]
  <2> HIDE DEF i
  <2>1. proc' = [proc EXCEPT ![p] = [proc[p] EXCEPT !.pc = "loop", !.idx = i]]
    BY Zenon DEF Advance, i
  <2>2. QED BY <1>1, <2>1
<1> HIDE DEF i
<1>3. Moves(p, proc[p].pc, "loop", i)
  BY <1>1, <1>2 DEF Moves, Process
<1>4. QED BY <1>2, <1>3 DEF i

\* A process that forgets its plan carries no approval any more.
LEMMA ForgetMoves ==
  ASSUME TypeInv, NEW p \in Proc, NEW pc, Forget(p, pc)
  PROVE  /\ proc'[p].pc = pc /\ proc'[p].grant = 0 /\ plan'[p] = NewTask
         /\ OthersKept(p)
<1>1. proc \in [Proc -> GoodProcess] /\ plan \in [Proc -> TaskPlan]
  BY DEF TypeInv, TypeOK
<1>2. [IdleProcess EXCEPT !.pc = pc].pc = pc /\ [IdleProcess EXCEPT !.pc = pc].grant = 0
  BY DEF IdleProcess
<1>3. QED BY <1>1, <1>2 DEF Forget, OthersKept

\* Leaving forgets the plan and gives back a lease that is still held.
LEMMA LeaveMoves ==
  ASSUME TypeInv, NEW p \in Proc, Leave(p)
  PROVE  Leaves(p) /\ OthersKept(p)
BY ForgetMoves, Zenon DEF Leave, Leaves

\* What a process that begins takes with it.
LEMMA BeginMoves ==
  ASSUME TypeInv, NEW p \in Proc, NEW pc, NEW pl, NEW i, NEW m, NEW a, Begin(p, pc, pl, i, m, a)
  PROVE  /\ proc'[p].pc = pc /\ proc'[p].idx = i /\ proc'[p].grant = a
         /\ plan'[p] = pl /\ holder' = p /\ OthersKept(p)
<1>1. proc \in [Proc -> GoodProcess] /\ plan \in [Proc -> TaskPlan]
  BY DEF TypeInv, TypeOK
<1>2. QED BY <1>1 DEF Begin, OthersKept

\* The writes of the task's state alone.
LEMMA StatusEffects ==
  ASSUME TypeInv, NEW p \in Proc
  PROVE  /\ EnterLoop(p) =>
              /\ StatusWrite(p, plan[p].status) /\ OthersKept(p)
              /\ Moves(p, "entering", IF HasUnknown(plan[p]) THEN "failing" ELSE "loop",
                       NextOpen(plan[p], proc[p].idx))
         /\ EnterStep(p) =>
              /\ StatusWrite(p, plan[p].status) /\ OthersKept(p)
              /\ Moves(p, "loop", "step", proc[p].idx)
         /\ Verify(p) =>
              /\ StatusWrite(p, plan[p].status) /\ OthersKept(p)
              /\ Moves(p, "loop", "verifying", proc[p].idx)
         /\ Retry(p) =>
              /\ StatusWrite(p, [plan[p].status EXCEPT ![proc[p].idx] = "pending"]) /\ OthersKept(p)
              /\ Moves(p, "backoff", "loop", proc[p].idx)
<1>1. /\ task \in TaskPlan /\ plan[p] \in TaskPlan /\ plan \in [Proc -> TaskPlan]
      /\ proc \in [Proc -> GoodProcess] /\ proc[p] \in Process
  BY DEF TypeInv, TypeOK
<1>2. \A st : /\ saveTaskStatus(st).state = st /\ saveTaskStatus(st).n = task.n
              /\ saveTaskStatus(st).status = task.status
  BY <1>1 DEF saveTaskStatus, TaskPlan
<1>3. \A pl \in TaskPlan : \A st : /\ [pl EXCEPT !.state = st].n = pl.n
                                   /\ [pl EXCEPT !.state = st].status = pl.status
  BY DEF TaskPlan
<1>4. ASSUME NEW pl, plan' = [plan EXCEPT ![p] = pl], \A q \in Proc \ {p} : proc'[q] = proc[q]
      PROVE  plan'[p] = pl /\ OthersKept(p)
  BY <1>1, <1>4 DEF OthersKept
<1>5. ASSUME EnterLoop(p) 
      PROVE  /\ StatusWrite(p, plan[p].status) /\ OthersKept(p)
             /\ Moves(p, "entering", IF HasUnknown(plan[p]) THEN "failing" ELSE "loop",
                       NextOpen(plan[p], proc[p].idx))
  <2> DEFINE pc == IF HasUnknown(plan[p]) THEN "failing" ELSE "loop"  i == NextOpen(plan[p], proc[p].idx)
  <2>1. proc' = [proc EXCEPT ![p] = [proc[p] EXCEPT !.pc = pc, !.idx = i]]
    BY <1>5, Zenon DEF EnterLoop
  <2>2. plan' = [plan EXCEPT ![p] = [plan[p] EXCEPT !.state = "executing"]]
    BY <1>5, Zenon DEF EnterLoop
  <2>3. /\ task' = saveTaskStatus("executing") /\ holder = p /\ holder' = holder /\ receipts' = receipts
        /\ proc[p].pc = "entering"
    BY <1>5, Zenon DEF EnterLoop, LeasedWrite
  <2> HIDE DEF pc, i
  <2>4. proc'[p] = [proc[p] EXCEPT !.pc = pc, !.idx = i] /\ \A q \in Proc \ {p} : proc'[q] = proc[q]
    BY <1>1, <2>1
  <2>5. Moves(p, "entering", pc, i)
    BY <1>1, <2>3, <2>4 DEF Moves, Process
  <2>6. plan'[p] = [plan[p] EXCEPT !.state = "executing"] /\ OthersKept(p)
    BY <1>4, <2>2, <2>4, Zenon
  <2>7. StatusWrite(p, plan[p].status)
    <3>1. plan'[p].n = plan[p].n /\ plan'[p].status = plan[p].status
      BY <1>1, <2>6 DEF TaskPlan
    <3>2. task'.n = task.n /\ task'.status = task.status /\ task'.state = "executing"
      BY <1>2, <2>3, Zenon
    <3>3. QED BY <2>3, <3>1, <3>2 DEF StatusWrite
  <2>8. QED BY <2>5, <2>6, <2>7 DEF pc, i
<1>6. ASSUME NEW pc, NEW st \in {"executing", "verifying"}, NEW pl \in TaskPlan, pl.n = plan[p].n,
             Goto(p, pc), plan' = [plan EXCEPT ![p] = [pl EXCEPT !.state = st]], task' = saveTaskStatus(st),
             LeasedWrite(p), UNCHANGED <<holder, receipts>>
      PROVE  /\ StatusWrite(p, pl.status) /\ OthersKept(p)
             /\ Moves(p, proc[p].pc, pc, proc[p].idx)
  <2>1. Moves(p, proc[p].pc, pc, proc[p].idx) /\ \A q \in Proc \ {p} : proc'[q] = proc[q]
    BY <1>6, GotoMoves, Zenon
  <2>2. plan'[p] = [pl EXCEPT !.state = st] /\ OthersKept(p)
    BY <1>4, <1>6, <2>1, Zenon
  <2>3. StatusWrite(p, pl.status)
    <3>1. plan'[p].n = plan[p].n /\ plan'[p].status = pl.status
      BY <1>3, <1>6, <2>2, Zenon
    <3>2. task'.n = task.n /\ task'.status = task.status /\ task'.state = st
      BY <1>2, <1>6, Zenon
    <3>3. QED BY <1>6, <3>1, <3>2 DEF StatusWrite, LeasedWrite
  <2>4. QED BY <2>1, <2>2, <2>3
<1>7. ASSUME EnterStep(p)
      PROVE  /\ StatusWrite(p, plan[p].status) /\ OthersKept(p)
             /\ Moves(p, "loop", "step", proc[p].idx)
  BY <1>1, <1>6, <1>7, Zenon DEF EnterStep, AtStep
<1>8. ASSUME Verify(p)
      PROVE  /\ StatusWrite(p, plan[p].status) /\ OthersKept(p)
             /\ Moves(p, "loop", "verifying", proc[p].idx)
  BY <1>1, <1>6, <1>8, Zenon DEF Verify
<1>9. ASSUME Retry(p)
      PROVE  /\ StatusWrite(p, [plan[p].status EXCEPT ![proc[p].idx] = "pending"]) /\ OthersKept(p)
             /\ Moves(p, "backoff", "loop", proc[p].idx)
  <2> DEFINE pl == SetStep(plan[p], proc[p].idx, "pending")
  <2>1. pl \in TaskPlan
    BY <1>1, SetStepType DEF StepStatus
  <2>2. pl.n = plan[p].n /\ pl.status = [plan[p].status EXCEPT ![proc[p].idx] = "pending"]
    BY <1>1 DEF SetStep, TaskPlan
  <2>3. /\ plan' = [plan EXCEPT ![p] = [pl EXCEPT !.state = "executing"]] /\ Goto(p, "loop")
        /\ task' = saveTaskStatus("executing") /\ LeasedWrite(p) /\ UNCHANGED <<holder, receipts>>
        /\ proc[p].pc = "backoff"
    BY <1>9, Zenon DEF Retry
  <2> HIDE DEF pl
  <2>4. /\ StatusWrite(p, pl.status) /\ OthersKept(p)
        /\ Moves(p, "backoff", "loop", proc[p].idx)
    BY <1>6, <2>1, <2>2, <2>3, Zenon
  <2>5. QED BY <2>2, <2>4, Zenon
<1>10. QED BY <1>5, <1>7, <1>8, <1>9, Zenon

\* The writes of one step.
LEMMA StepEffects ==
  ASSUME TypeInv, NEW p \in Proc
  PROVE  LET i == proc[p].idx  next == NextOpen(plan'[p], i + 1) IN
         /\ SkipByRunWhen(p) =>
              /\ StepWrite(p, "cancelled") /\ receipts' = receipts /\ OthersKept(p)
              /\ Moves(p, "loop", "loop", next)
         /\ FailUndispatched(p) =>
              /\ \E v \in {"failed", "blocked"} : StepWrite(p, v)
              /\ receipts' = receipts /\ OthersKept(p) /\ Moves(p, "step", "loop", next)
         /\ MarkPendingApproval(p) =>
              /\ StepWrite(p, "pending_approval") /\ receipts' = receipts /\ OthersKept(p)
              /\ Moves(p, "step", "asking", i)
         /\ StoreResolved(p) =>
              /\ StepWrite(p, "running") /\ receipts' = receipts /\ OthersKept(p)
              /\ Moves(p, "step", "resolved", i)
         /\ Dispatch(p) =>
              /\ StepWrite(p, IF proc[p].pc = "resolved" THEN plan[p].status[i] ELSE "running")
              /\ OthersKept(p)
              /\ proc[p].pc \in {"step", "resolved"} /\ Moves(p, proc[p].pc, "awaiting", i)
         /\ DispatchStale(p) =>
              /\ StepWrite(p, "outcome_unknown") /\ receipts' = receipts /\ OthersKept(p)
              /\ proc[p].pc \in {"step", "resolved"} /\ Moves(p, proc[p].pc, "failing", i)
         /\ SettleStep(p) =>
              /\ StepWrite(p, StatusFor(proc[p].result)) /\ receipts' = receipts /\ OthersKept(p)
              /\ \/ proc[p].result = "unknown" /\ Moves(p, "settling", "failing", i)
                 \/ proc[p].result = "transient" /\ Moves(p, "settling", "retrying", i)
                 \/ proc[p].result # "unknown" /\ Moves(p, "settling", "loop", next)
<1> DEFINE i == proc[p].idx
<1>1. /\ plan[p] \in TaskPlan /\ plan \in [Proc -> TaskPlan] /\ i \in Nat
      /\ proc[p].pc \in AtOneStep => i \in Step
      /\ AtStep(p) => i \in Step
  BY AtStepFacts DEF TypeInv, TypeOK
<1>2. ASSUME NEW v \in StepStatus
      PROVE  LET pl == SetStep(plan[p], i, v) IN
             pl \in TaskPlan /\ pl.n = plan[p].n /\ pl.status = [plan[p].status EXCEPT ![i] = v]
  BY <1>1, SetStepType, Zenon DEF SetStep, TaskPlan
<1>3. ASSUME NEW pl, plan' = [plan EXCEPT ![p] = pl], \A q \in Proc \ {p} : proc'[q] = proc[q]
      PROVE  plan'[p] = pl /\ OthersKept(p)
  BY <1>1, <1>3 DEF OthersKept
\* An action that stores step i of pl, set to v, and goes to another control state ...
<1>4. ASSUME NEW pl \in TaskPlan, NEW v, NEW pc, i \in Step,
             pl.n = plan[p].n, pl.status = [plan[p].status EXCEPT ![i] = v],
             task' = saveTaskStep(pl, i), plan' = [plan EXCEPT ![p] = pl], Goto(p, pc),
             LeasedWrite(p), holder' = holder
      PROVE  StepWrite(p, v) /\ OthersKept(p) /\ Moves(p, proc[p].pc, pc, i)
  <2>1. Moves(p, proc[p].pc, pc, i) /\ \A q \in Proc \ {p} : proc'[q] = proc[q]
    BY <1>4, GotoMoves, Zenon
  <2>2. StepWrite(p, v)
    BY <1>4, StepWritten, Zenon DEF LeasedWrite
  <2>3. QED BY <1>3, <1>4, <2>1, <2>2, Zenon
\* ... or on to the next open step.
<1>5. ASSUME NEW pl \in TaskPlan, NEW v, i \in Step,
             pl.n = plan[p].n, pl.status = [plan[p].status EXCEPT ![i] = v],
             task' = saveTaskStep(pl, i), plan' = [plan EXCEPT ![p] = pl], Advance(p, pl),
             LeasedWrite(p), holder' = holder
      PROVE  /\ StepWrite(p, v) /\ OthersKept(p)
             /\ Moves(p, proc[p].pc, "loop", NextOpen(plan'[p], i + 1))
  <2>1. Moves(p, proc[p].pc, "loop", NextOpen(pl, i + 1)) /\ \A q \in Proc \ {p} : proc'[q] = proc[q]
    BY <1>5, AdvanceMoves, Zenon
  <2>2. StepWrite(p, v)
    BY <1>5, StepWritten, Zenon DEF LeasedWrite
  <2>3. plan'[p] = pl /\ OthersKept(p)
    BY <1>3, <1>5, <2>1, Zenon
  <2>4. QED BY <2>1, <2>2, <2>3, Zenon
<1>6. {"cancelled", "failed", "blocked", "pending_approval", "running", "outcome_unknown",
       "completed"} \subseteq StepStatus
  BY DEF StepStatus
<1>7. ASSUME SkipByRunWhen(p)
      PROVE  /\ StepWrite(p, "cancelled") /\ receipts' = receipts /\ OthersKept(p)
             /\ Moves(p, "loop", "loop", NextOpen(plan'[p], i + 1))
  <2> DEFINE pl == SetStep(plan[p], i, "cancelled")
  <2>1. /\ AtStep(p) /\ task' = saveTaskStep(pl, i) /\ plan' = [plan EXCEPT ![p] = pl]
        /\ Advance(p, pl) /\ LeasedWrite(p) /\ holder' = holder /\ receipts' = receipts
    BY <1>7, Zenon DEF SkipByRunWhen
  <2>2. pl \in TaskPlan /\ pl.n = plan[p].n /\ pl.status = [plan[p].status EXCEPT ![i] = "cancelled"]
    BY <1>2, <1>6
  <2> HIDE DEF pl
  <2>3. i \in Step /\ proc[p].pc = "loop"
    BY <1>1, <2>1, Zenon DEF AtStep
  <2>4. QED BY <1>5, <2>1, <2>2, <2>3, Zenon
<1>8. ASSUME FailUndispatched(p)
      PROVE  /\ \E v \in {"failed", "blocked"} : StepWrite(p, v)
             /\ receipts' = receipts /\ OthersKept(p)
             /\ Moves(p, "step", "loop", NextOpen(plan'[p], i + 1))
  <2>1. PICK v \in {"failed", "blocked"} :
          /\ task' = saveTaskStep(SetStep(plan[p], i, v), i)
          /\ plan' = [plan EXCEPT ![p] = SetStep(plan[p], i, v)]
          /\ Advance(p, SetStep(plan[p], i, v))
    BY <1>8, Zenon DEF FailUndispatched
  <2> DEFINE pl == SetStep(plan[p], i, v)
  <2>2. pl \in TaskPlan /\ pl.n = plan[p].n /\ pl.status = [plan[p].status EXCEPT ![i] = v]
    BY <1>2, <1>6
  <2>3. LeasedWrite(p) /\ holder' = holder /\ receipts' = receipts /\ proc[p].pc = "step"
    BY <1>8, Zenon DEF FailUndispatched
  <2>4. i \in Step
    BY <1>1, <2>3 DEF AtOneStep
  <2>5. task' = saveTaskStep(pl, i) /\ plan' = [plan EXCEPT ![p] = pl] /\ Advance(p, pl)
    BY <2>1
  <2> HIDE DEF pl
  <2>6. StepWrite(p, v) /\ OthersKept(p) /\ Moves(p, proc[p].pc, "loop", NextOpen(plan'[p], i + 1))
    BY <1>5, <2>2, <2>3, <2>4, <2>5, Zenon
  <2>7. QED BY <2>3, <2>6, Zenon
<1>9. ASSUME MarkPendingApproval(p)
      PROVE  /\ StepWrite(p, "pending_approval") /\ receipts' = receipts /\ OthersKept(p)
             /\ Moves(p, "step", "asking", i)
  <2> DEFINE pl == SetStep(plan[p], i, "pending_approval")
  <2>1. /\ proc[p].pc = "step" /\ task' = saveTaskStep(pl, i) /\ plan' = [plan EXCEPT ![p] = pl]
        /\ Goto(p, "asking") /\ LeasedWrite(p) /\ holder' = holder /\ receipts' = receipts
    BY <1>9, Zenon DEF MarkPendingApproval
  <2>2. pl \in TaskPlan /\ pl.n = plan[p].n /\ pl.status = [plan[p].status EXCEPT ![i] = "pending_approval"]
    BY <1>2, <1>6
  <2> HIDE DEF pl
  <2>3. i \in Step
    BY <1>1, <2>1 DEF AtOneStep
  <2>4. StepWrite(p, "pending_approval") /\ OthersKept(p) /\ Moves(p, proc[p].pc, "asking", i)
    BY <1>4, <2>1, <2>2, <2>3, Zenon
  <2>5. QED BY <2>1, <2>4
<1>10. ASSUME i \in Step
       PROVE  LET pl == Attempt(plan[p], i) IN
              pl \in TaskPlan /\ pl.n = plan[p].n /\ pl.status = [plan[p].status EXCEPT ![i] = "running"]
  BY <1>1, <1>10, AttemptType, AttemptFields, Zenon
<1>11. ASSUME StoreResolved(p)
       PROVE  /\ StepWrite(p, "running") /\ receipts' = receipts /\ OthersKept(p)
              /\ Moves(p, "step", "resolved", i)
  <2> DEFINE pl == Attempt(plan[p], i)
  <2>1. /\ proc[p].pc = "step" /\ task' = saveTaskStep(pl, i) /\ plan' = [plan EXCEPT ![p] = pl]
        /\ Goto(p, "resolved") /\ LeasedWrite(p) /\ holder' = holder /\ receipts' = receipts
    BY <1>11, Zenon DEF StoreResolved
  <2>2. i \in Step
    BY <1>1, <2>1 DEF AtOneStep
  <2>3. pl \in TaskPlan /\ pl.n = plan[p].n /\ pl.status = [plan[p].status EXCEPT ![i] = "running"]
    BY <1>10, <2>2
  <2> HIDE DEF pl
  <2>4. StepWrite(p, "running") /\ OthersKept(p) /\ Moves(p, proc[p].pc, "resolved", i)
    BY <1>4, <2>1, <2>2, <2>3, Zenon
  <2>5. QED BY <2>1, <2>4
<1> DEFINE v == IF proc[p].pc = "resolved" THEN plan[p].status[i] ELSE "running"
<1>12. ASSUME ReadyToDispatch(p)
       PROVE  /\ proc[p].pc \in {"step", "resolved"} /\ i \in Step
              /\ Dispatched(p) \in TaskPlan /\ Dispatched(p).n = plan[p].n
              /\ Dispatched(p).status = [plan[p].status EXCEPT ![i] = v]
  <2>1. proc[p].pc \in {"step", "resolved"}
    BY <1>12, Zenon DEF ReadyToDispatch
  <2>2. i \in Step
    BY <1>1, <2>1 DEF AtOneStep
  <2>3. CASE proc[p].pc = "resolved"
    <3>1. Dispatched(p) = plan[p] /\ v = plan[p].status[i]
      BY <2>3, Zenon DEF Dispatched
    <3>2. plan[p].status = [plan[p].status EXCEPT ![i] = plan[p].status[i]]
      BY <1>1, <2>2 DEF TaskPlan
    <3>3. QED BY <1>1, <2>1, <2>2, <3>1, <3>2, Zenon
  <2>4. CASE proc[p].pc # "resolved"
    <3>1. Dispatched(p) = Attempt(plan[p], i) /\ v = "running"
      BY <2>4, Zenon DEF Dispatched
    <3>2. QED BY <1>10, <2>1, <2>2, <3>1
  <2>5. QED BY <2>3, <2>4
<1>13. ASSUME Dispatch(p)
       PROVE  /\ StepWrite(p, v) /\ OthersKept(p)
              /\ proc[p].pc \in {"step", "resolved"} /\ Moves(p, proc[p].pc, "awaiting", i)
  <2> DEFINE pl == Dispatched(p)
  <2>1. /\ ReadyToDispatch(p) /\ task' = saveTaskStep(pl, i) /\ plan' = [plan EXCEPT ![p] = pl]
        /\ Goto(p, "awaiting") /\ LeasedWrite(p) /\ holder' = holder
    BY <1>13, Zenon DEF Dispatch
  <2>2. /\ proc[p].pc \in {"step", "resolved"} /\ i \in Step
        /\ pl \in TaskPlan /\ pl.n = plan[p].n /\ pl.status = [plan[p].status EXCEPT ![i] = v]
    BY <1>12, <2>1, Zenon
  <2> HIDE DEF pl, v
  <2>3. QED BY <1>4, <2>1, <2>2, Zenon
<1>14. ASSUME DispatchStale(p)
       PROVE  /\ StepWrite(p, "outcome_unknown") /\ receipts' = receipts /\ OthersKept(p)
              /\ proc[p].pc \in {"step", "resolved"} /\ Moves(p, proc[p].pc, "failing", i)
  <2> DEFINE d == Dispatched(p)  pl == SetStep(d, i, "outcome_unknown")
  <2>1. /\ ReadyToDispatch(p) /\ task' = saveTaskStep(pl, i) /\ plan' = [plan EXCEPT ![p] = pl]
        /\ Goto(p, "failing") /\ LeasedWrite(p) /\ holder' = holder /\ receipts' = receipts
    BY <1>14, Zenon DEF DispatchStale
  <2>2. /\ proc[p].pc \in {"step", "resolved"} /\ i \in Step
        /\ d \in TaskPlan /\ d.n = plan[p].n /\ d.status = [plan[p].status EXCEPT ![i] = v]
    BY <1>12, <2>1, Zenon
  <2> HIDE DEF d, v
  <2>3. pl \in TaskPlan /\ pl.n = d.n /\ pl.status = [d.status EXCEPT ![i] = "outcome_unknown"]
    BY <2>2, SetStepType, Zenon DEF SetStep, TaskPlan, StepStatus
  <2>4. pl.status = [plan[p].status EXCEPT ![i] = "outcome_unknown"]
    BY <1>1, <2>2, <2>3 DEF TaskPlan
  <2> HIDE DEF pl
  <2>5. QED BY <1>4, <2>1, <2>2, <2>3, <2>4, Zenon
<1>15. ASSUME SettleStep(p)
       PROVE  /\ StepWrite(p, StatusFor(proc[p].result)) /\ receipts' = receipts /\ OthersKept(p)
              /\ \/ proc[p].result = "unknown" /\ Moves(p, "settling", "failing", i)
                 \/ proc[p].result = "transient" /\ Moves(p, "settling", "retrying", i)
                 \/ /\ proc[p].result # "unknown"
                    /\ Moves(p, "settling", "loop", NextOpen(plan'[p], i + 1))
  <2> DEFINE o == proc[p].result  w == StatusFor(o)  pl == SetStep(plan[p], i, w)
  <2>1. /\ proc[p].pc = "settling" /\ task' = saveTaskStep(pl, i) /\ plan' = [plan EXCEPT ![p] = pl]
        /\ LeasedWrite(p) /\ holder' = holder /\ receipts' = receipts
    BY <1>15, Zenon DEF SettleStep
  <2>2. \/ o = "unknown" /\ Goto(p, "failing")
        \/ o = "transient" /\ Goto(p, "retrying")
        \/ o # "unknown" /\ Advance(p, pl)
    BY <1>15 DEF SettleStep
  <2>3. w \in StepStatus
    BY DEF StatusFor, StepStatus
  <2>4. pl \in TaskPlan /\ pl.n = plan[p].n /\ pl.status = [plan[p].status EXCEPT ![i] = w]
    BY <1>2, <2>3
  <2>5. i \in Step
    BY <1>1, <2>1 DEF AtOneStep
  <2> HIDE DEF o, w, pl
  <2>6. CASE o = "unknown" /\ Goto(p, "failing")
    <3>1. StepWrite(p, w) /\ OthersKept(p) /\ Moves(p, proc[p].pc, "failing", i)
      BY <1>4, <2>1, <2>4, <2>5, <2>6, Zenon
    <3>2. QED BY <2>1, <2>6, <3>1 DEF o, w
  <2>7. CASE o = "transient" /\ Goto(p, "retrying")
    <3>1. StepWrite(p, w) /\ OthersKept(p) /\ Moves(p, proc[p].pc, "retrying", i)
      BY <1>4, <2>1, <2>4, <2>5, <2>7, Zenon
    <3>2. QED BY <2>1, <2>7, <3>1 DEF o, w
  <2>8. CASE o # "unknown" /\ Advance(p, pl)
    <3>1. /\ StepWrite(p, w) /\ OthersKept(p)
          /\ Moves(p, proc[p].pc, "loop", NextOpen(plan'[p], i + 1))
      BY <1>5, <2>1, <2>4, <2>5, <2>8, Zenon
    <3>2. QED BY <2>1, <2>8, <3>1, Zenon DEF o, w
  <2>9. QED BY <2>2, <2>6, <2>7, <2>8, Zenon
<1>16. QED BY <1>7, <1>8, <1>9, <1>11, <1>13, <1>14, <1>15, Zenon

\* The writes of the whole plan, and the ends of an invocation.
LEMMA PlanEffects ==
  ASSUME TypeInv, NEW p \in Proc
  PROVE  LET i == proc[p].idx IN
         /\ MoveWaiting(p) =>
              /\ PlanWrite(p, "waiting_approval") /\ holder' = p /\ KeepsPlan(p) /\ OthersKept(p)
              /\ Moves(p, "asking", "waiting", i)
         /\ MoveRecovering(p) =>
              /\ PlanWrite(p, "recovering") /\ holder' = p /\ KeepsPlan(p) /\ OthersKept(p)
              /\ \/ Moves(p, "retrying", "backoff", i)
                 \/ Moves(p, "retrying", "loop", NextOpen(plan[p], i + 1))
         /\ ReturnPending(p) =>
              /\ \E st \in {"waiting_approval", "pending_approval"} : PlanWrite(p, st)
              /\ Leaves(p) /\ OthersKept(p) /\ proc[p].pc = "asked"
         /\ MoveFailed(p) =>
              PlanWrite(p, "failed") /\ Leaves(p) /\ OthersKept(p) /\ proc[p].pc = "failing"
         /\ RecoverOrphan(p) =>
              PlanWrite(p, "failed") /\ Leaves(p) /\ OthersKept(p) /\ proc[p].pc = "orphan"
         /\ Finish(p) =>
              /\ PlanWrite(p, IF unresolvedTaskSteps(plan[p]) = {} THEN "completed" ELSE "failed")
              /\ Leaves(p) /\ OthersKept(p) /\ proc[p].pc = "verifying"
         /\ Fenced(p) => Leaves(p) /\ OthersKept(p) /\ holder # p /\ task' = task /\ receipts' = receipts
<1> DEFINE i == proc[p].idx
<1>1. /\ task \in TaskPlan /\ plan[p] \in TaskPlan /\ plan \in [Proc -> TaskPlan]
      /\ proc \in [Proc -> GoodProcess] /\ proc[p] \in Process
  BY DEF TypeInv, TypeOK
<1>2. ASSUME NEW st, task' = saveTaskPlan(plan[p], st), LeasedWrite(p), receipts' = receipts
      PROVE  PlanWrite(p, st)
  BY <1>2 DEF PlanWrite, saveTaskPlan, LeasedWrite
<1>3. ASSUME NEW st, plan' = [plan EXCEPT ![p] = [plan[p] EXCEPT !.state = st]],
             \A q \in Proc \ {p} : proc'[q] = proc[q]
      PROVE  KeepsPlan(p) /\ OthersKept(p)
  <2>1. plan'[p] = [plan[p] EXCEPT !.state = st] /\ OthersKept(p)
    BY <1>1, <1>3 DEF OthersKept
  <2>2. QED BY <1>1, <2>1 DEF KeepsPlan, TaskPlan
<1>4. ASSUME MoveWaiting(p)
      PROVE  /\ PlanWrite(p, "waiting_approval") /\ holder' = p /\ KeepsPlan(p) /\ OthersKept(p)
             /\ Moves(p, "asking", "waiting", i)
  <2>1. /\ proc[p].pc = "asking" /\ task' = saveTaskPlan(plan[p], "waiting_approval") /\ LeasedWrite(p)
        /\ receipts' = receipts /\ holder' = holder /\ Goto(p, "waiting")
        /\ plan' = [plan EXCEPT ![p] = [plan[p] EXCEPT !.state = "waiting_approval"]]
    BY <1>4, Zenon DEF MoveWaiting
  <2>2. Moves(p, proc[p].pc, "waiting", i) /\ \A q \in Proc \ {p} : proc'[q] = proc[q]
    BY <2>1, GotoMoves, Zenon
  <2>3. PlanWrite(p, "waiting_approval") /\ KeepsPlan(p) /\ OthersKept(p)
    BY <1>2, <1>3, <2>1, <2>2, Zenon
  <2>4. QED BY <2>1, <2>2, <2>3 DEF LeasedWrite
<1>5. ASSUME MoveRecovering(p)
      PROVE  /\ PlanWrite(p, "recovering") /\ holder' = p /\ KeepsPlan(p) /\ OthersKept(p)
             /\ \/ Moves(p, "retrying", "backoff", i)
                \/ Moves(p, "retrying", "loop", NextOpen(plan[p], i + 1))
  <2> DEFINE r == [proc[p] EXCEPT !.pc = "backoff", !.retries = @ + 1]
             j == NextOpen(plan[p], i + 1)
             u == [proc[p] EXCEPT !.pc = "loop", !.retries = @ + 1, !.idx = j]
  <2>1. /\ proc[p].pc = "retrying" /\ task' = saveTaskPlan(plan[p], "recovering") /\ LeasedWrite(p)
        /\ receipts' = receipts /\ holder' = holder
        /\ plan' = [plan EXCEPT ![p] = [plan[p] EXCEPT !.state = "recovering"]]
        /\ \/ proc' = [proc EXCEPT ![p] = r]
           \/ proc' = [proc EXCEPT ![p] = u]
    BY <1>5, Zenon DEF MoveRecovering
  <2> HIDE DEF j
  <2>2. /\ r.pc = "backoff" /\ r.idx = i /\ r.grant = proc[p].grant
        /\ u.pc = "loop" /\ u.idx = j /\ u.grant = proc[p].grant
    BY <1>1 DEF Process
  <2> HIDE DEF r, u
  <2>3. /\ \A q \in Proc \ {p} : proc'[q] = proc[q]
        /\ proc'[p] = r \/ proc'[p] = u
    BY <1>1, <2>1
  <2>4. Moves(p, "retrying", "backoff", i) \/ Moves(p, "retrying", "loop", j)
    BY <2>1, <2>2, <2>3, Zenon DEF Moves
  <2>5. PlanWrite(p, "recovering") /\ KeepsPlan(p) /\ OthersKept(p)
    BY <1>2, <1>3, <2>1, <2>3, Zenon
  <2>6. QED BY <2>1, <2>4, <2>5, Zenon DEF LeasedWrite, j
<1>6. ASSUME ReturnPending(p)
      PROVE  /\ \E st \in {"waiting_approval", "pending_approval"} : PlanWrite(p, st)
             /\ Leaves(p) /\ OthersKept(p) /\ proc[p].pc = "asked"
  <2> DEFINE st == IF proc[p].mode = "recover" THEN "pending_approval" ELSE "waiting_approval"
  <2>1. /\ proc[p].pc = "asked" /\ task' = saveTaskPlan(plan[p], st) /\ LeasedWrite(p)
        /\ receipts' = receipts /\ Leave(p)
    BY <1>6, Zenon DEF ReturnPending
  <2>2. st \in {"waiting_approval", "pending_approval"}
    OBVIOUS
  <2> HIDE DEF st
  <2>3. PlanWrite(p, st) /\ Leaves(p) /\ OthersKept(p)
    BY <1>2, <2>1, LeaveMoves, Zenon
  <2>4. QED BY <2>1, <2>2, <2>3
<1>7. MoveFailed(p) => PlanWrite(p, "failed") /\ Leaves(p) /\ OthersKept(p) /\ proc[p].pc = "failing"
  BY <1>2, LeaveMoves, Zenon DEF MoveFailed
<1>8. RecoverOrphan(p) => PlanWrite(p, "failed") /\ Leaves(p) /\ OthersKept(p) /\ proc[p].pc = "orphan"
  BY <1>2, LeaveMoves, Zenon DEF RecoverOrphan
<1>9. Finish(p) => /\ PlanWrite(p, IF unresolvedTaskSteps(plan[p]) = {} THEN "completed" ELSE "failed")
                   /\ Leaves(p) /\ OthersKept(p) /\ proc[p].pc = "verifying"
  BY <1>2, LeaveMoves, Zenon DEF Finish
<1>10. Fenced(p) => Leaves(p) /\ OthersKept(p) /\ holder # p /\ task' = task /\ receipts' = receipts
  BY LeaveMoves, Zenon DEF Fenced, LeasedWrite
<1>11. QED BY <1>4, <1>5, <1>6, <1>7, <1>8, <1>9, <1>10, Zenon

\* Requests for approval and calls of a tool write no row of the task.
LEMMA CallEffects ==
  ASSUME TypeInv, NEW p \in Proc
  PROVE  LET i == proc[p].idx IN
         /\ CreateApproval(p) =>
              /\ UNCHANGED <<task, receipts, holder, plan>> /\ OthersKept(p)
              /\ Moves(p, "waiting", "asked", i)
         /\ Invoke(p) =>
              /\ UNCHANGED <<task, receipts, holder, plan>> /\ OthersKept(p)
              /\ Moves(p, "awaiting", "invoked", i)
         /\ \A o \in Outcome : Settle(p, o) =>
              /\ UNCHANGED <<task, holder, plan>> /\ OthersKept(p)
              /\ proc'[p].result = o /\ Moves(p, proc[p].pc, "settling", i)
<1> DEFINE i == proc[p].idx
<1>1. proc \in [Proc -> GoodProcess] /\ proc[p] \in Process
  BY DEF TypeInv, GoodProcess
<1>2. CreateApproval(p) => /\ UNCHANGED <<task, receipts, holder, plan>> /\ OthersKept(p)
                           /\ Moves(p, "waiting", "asked", i)
  <2> SUFFICES ASSUME CreateApproval(p)
               PROVE  /\ UNCHANGED <<task, receipts, holder, plan>> /\ OthersKept(p)
                      /\ Moves(p, "waiting", "asked", i)
    OBVIOUS
  <2>1. UNCHANGED <<task, receipts, holder, plan>> /\ proc[p].pc = "waiting" /\ Goto(p, "asked")
    BY Zenon DEF CreateApproval
  <2>2. Moves(p, proc[p].pc, "asked", i) /\ \A q \in Proc \ {p} : proc'[q] = proc[q]
    BY <2>1, GotoMoves, Zenon
  <2>3. QED BY <2>1, <2>2 DEF OthersKept
<1>3. Invoke(p) => /\ UNCHANGED <<task, receipts, holder, plan>> /\ OthersKept(p)
                   /\ Moves(p, "awaiting", "invoked", i)
  <2> SUFFICES ASSUME Invoke(p)
               PROVE  /\ UNCHANGED <<task, receipts, holder, plan>> /\ OthersKept(p)
                      /\ Moves(p, "awaiting", "invoked", i)
    OBVIOUS
  <2>1. UNCHANGED <<task, receipts, holder, plan>> /\ proc[p].pc = "awaiting" /\ Goto(p, "invoked")
    BY Zenon DEF Invoke
  <2>2. Moves(p, proc[p].pc, "invoked", i) /\ \A q \in Proc \ {p} : proc'[q] = proc[q]
    BY <2>1, GotoMoves, Zenon
  <2>3. QED BY <2>1, <2>2 DEF OthersKept
<1>4. ASSUME NEW o \in Outcome, Settle(p, o)
      PROVE  /\ UNCHANGED <<task, holder, plan>> /\ OthersKept(p)
             /\ proc'[p].result = o /\ Moves(p, proc[p].pc, "settling", i)
  <2>1. UNCHANGED <<task, holder, plan>>
        /\ proc' = [proc EXCEPT ![p] = [proc[p] EXCEPT !.pc = "settling", !.result = o]]
    BY <1>4, Zenon DEF Settle
  <2>2. /\ proc'[p] = [proc[p] EXCEPT !.pc = "settling", !.result = o]
        /\ \A q \in Proc \ {p} : proc'[q] = proc[q]
    BY <1>1, <2>1
  <2>3. proc'[p].result = o /\ Moves(p, proc[p].pc, "settling", i)
    BY <1>1, <2>2 DEF Moves, Process
  <2>4. QED BY <2>1, <2>2, <2>3, Zenon DEF OthersKept
<1>5. QED BY <1>2, <1>3, <1>4, Zenon

\* The step that recovery looks at is 0 or a step of the task.
LEMMA FirstIncompleteType ==
  ASSUME SetFacts, TypeInv
  PROVE  FirstIncomplete \in Step \cup {0}
<1>1. StepsOf(task) \subseteq Step
  BY SizeAssumption DEF TypeInv, TypeOK, StepsOf, TaskPlan, Step
<1>2. StepsOf(task) \ StepsIn(task, {"completed"}) \subseteq Step
  BY <1>1
<1>3. QED BY <1>2, FirstStepType DEF FirstIncomplete

\* The starts of an invocation.
LEMMA StartEffects ==
  ASSUME TypeInv, NEW p \in Proc
  PROVE  /\ Run(p) =>
              /\ Begins(p, "entering", StartStep(task), 0, task.status) /\ OthersKept(p)
              /\ UNCHANGED <<task, receipts>>
         /\ \A a \in DOMAIN approvals : Resume(p, a) =>
              /\ Begins(p, "entering", approvals[a].step, a,
                        [task.status EXCEPT ![approvals[a].step] = "pending"])
              /\ OthersKept(p) /\ UNCHANGED <<task, receipts>>
         /\ RecoverReceipt(p) =>
              /\ Begins(p, "orphan", FirstIncomplete, 0,
                        [task.status EXCEPT ![FirstIncomplete] = "outcome_unknown"])
              /\ OthersKept(p) /\ task' = task
         /\ RecoverResumes(p) =>
              /\ Begins(p, "entering", FirstIncomplete, 0,
                        IF task.status[FirstIncomplete] = "running"
                        THEN [task.status EXCEPT ![FirstIncomplete] = "pending"] ELSE task.status)
              /\ OthersKept(p) /\ receipts' = receipts
              /\ task'.n = task.n /\ task'.status = task.status /\ task'.state = "executing"
<1>1. task \in TaskPlan /\ approvals \in Seq(Approval)
  BY DEF TypeInv, TypeOK
<1>2. ASSUME NEW pc, NEW pl, NEW i, NEW m, NEW a, NEW f, Begin(p, pc, pl, i, m, a), holder = NoProc,
             pl.n = task.n, pl.status = f
      PROVE  Begins(p, pc, i, a, f) /\ OthersKept(p)
  BY <1>2, BeginMoves, Zenon DEF Begins
<1>3. ASSUME Run(p)
      PROVE  /\ Begins(p, "entering", StartStep(task), 0, task.status) /\ OthersKept(p)
             /\ UNCHANGED <<task, receipts>>
  <2> DEFINE pl == [task EXCEPT !.runs = @ + 1]
  <2>1. pl.n = task.n /\ pl.status = task.status
    BY <1>1 DEF TaskPlan
  <2>2. /\ Begin(p, "entering", pl, StartStep(task), "run", 0) /\ holder = NoProc
        /\ UNCHANGED <<task, receipts>>
    BY <1>3, Zenon DEF Run
  <2> HIDE DEF pl
  <2>3. QED BY <1>2, <2>1, <2>2, Zenon
<1>4. ASSUME NEW a \in DOMAIN approvals, Resume(p, a)
      PROVE  /\ Begins(p, "entering", approvals[a].step, a,
                       [task.status EXCEPT ![approvals[a].step] = "pending"])
             /\ OthersKept(p) /\ UNCHANGED <<task, receipts>>
  <2> DEFINE s == approvals[a].step  pl == SetStep(task, s, "pending")
             f == [task.status EXCEPT ![s] = "pending"]
  <2>1. pl.n = task.n /\ pl.status = f
    BY <1>1 DEF SetStep, TaskPlan
  <2>2. /\ Begin(p, "entering", pl, s, "resume", a) /\ holder = NoProc
        /\ UNCHANGED <<task, receipts>>
    BY <1>4, Zenon DEF Resume
  <2> HIDE DEF pl, f
  <2>3. Begins(p, "entering", s, a, f) /\ OthersKept(p)
    BY <1>2, <2>1, <2>2, Zenon
  <2>4. QED BY <2>2, <2>3 DEF f
<1>5. ASSUME RecoverReceipt(p)
      PROVE  /\ Begins(p, "orphan", FirstIncomplete, 0,
                       [task.status EXCEPT ![FirstIncomplete] = "outcome_unknown"])
             /\ OthersKept(p) /\ task' = task
  <2> DEFINE s == FirstIncomplete  pl == SetStep(task, s, "outcome_unknown")
             f == [task.status EXCEPT ![s] = "outcome_unknown"]
  <2>1. pl.n = task.n /\ pl.status = f
    BY <1>1 DEF SetStep, TaskPlan
  <2>2. Begin(p, "orphan", pl, s, "recover", 0) /\ holder = NoProc /\ task' = task
    BY <1>5, Zenon DEF RecoverReceipt
  <2> HIDE DEF pl, f
  <2>3. Begins(p, "orphan", s, 0, f) /\ OthersKept(p)
    BY <1>2, <2>1, <2>2, Zenon
  <2>4. QED BY <2>2, <2>3 DEF f
<1>6. ASSUME RecoverResumes(p)
      PROVE  /\ Begins(p, "entering", FirstIncomplete, 0,
                       IF task.status[FirstIncomplete] = "running"
                       THEN [task.status EXCEPT ![FirstIncomplete] = "pending"] ELSE task.status)
             /\ OthersKept(p) /\ receipts' = receipts
             /\ task'.n = task.n /\ task'.status = task.status /\ task'.state = "executing"
  <2> DEFINE s == FirstIncomplete
             pl == IF task.status[s] = "running" THEN SetStep(task, s, "pending") ELSE task
             f == IF task.status[s] = "running" THEN [task.status EXCEPT ![s] = "pending"]
                  ELSE task.status
  <2>1. pl.n = task.n /\ pl.status = f
    BY <1>1 DEF SetStep, TaskPlan
  <2>2. /\ Begin(p, "entering", pl, s, "recover", 0) /\ holder = NoProc /\ receipts' = receipts
        /\ task' = saveTaskStatus("executing")
    BY <1>6, Zenon DEF RecoverResumes
  <2>3. task'.n = task.n /\ task'.status = task.status /\ task'.state = "executing"
    BY <1>1, <2>2 DEF saveTaskStatus, TaskPlan
  <2> HIDE DEF pl, f
  <2>4. Begins(p, "entering", s, 0, f) /\ OthersKept(p)
    BY <1>2, <2>1, <2>2, Zenon
  <2>5. QED BY <2>2, <2>3, <2>4 DEF f
<1>7. QED BY <1>3, <1>4, <1>5, <1>6, Zenon

\* Restarts without work, crashes and cancellations.
LEMMA AsideEffects ==
  ASSUME TypeInv, NEW p \in Proc
  PROVE  /\ RestartSkips(p) \/ RecoverSettled(p) \/ CancelRead(p) \/ CancelRevoke(p)
            \/ CancelWrite(p) \/ Crash(p) =>
              /\ OthersKept(p) /\ UNCHANGED <<receipts, holder, invoked>>
              /\ proc'[p].pc \in Away /\ proc'[p].grant \in {0, proc[p].grant}
         /\ RestartSkips(p) \/ CancelRead(p) \/ CancelRevoke(p) \/ Crash(p) => task' = task
         /\ RecoverSettled(p) =>
              /\ holder = NoProc /\ task'.n = task.n /\ task'.status = task.status
              /\ task'.state = IF FirstIncomplete = 0 THEN "completed" ELSE "failed"
         /\ CancelWrite(p) => task' = task \/ (holder = NoProc /\ task'.state = "cancelled")
<1>1. task \in TaskPlan /\ plan \in [Proc -> TaskPlan]
  BY DEF TypeInv, TypeOK
<1>2. {"idle", "down", "cancelling", "revoking"} = Away
  BY DEF Away
<1>3. ASSUME RestartSkips(p) \/ RecoverSettled(p) \/ CancelRead(p) \/ CancelRevoke(p)
      PROVE  /\ OthersKept(p) /\ UNCHANGED <<receipts, holder, invoked>>
             /\ proc'[p].pc \in Away /\ proc'[p].grant \in {0, proc[p].grant}
  <2>1. /\ Goto(p, "idle") \/ Goto(p, "cancelling")
        /\ plan' = plan \/ plan' = [plan EXCEPT ![p] = task]
    BY <1>3, Zenon DEF RestartSkips, RecoverSettled, CancelRead, CancelRevoke
  <2>2. PICK pc \in Away : Goto(p, pc)
    BY <1>2, <2>1, Zenon
  <2>3. Moves(p, proc[p].pc, pc, proc[p].idx) /\ \A q \in Proc \ {p} : proc'[q] = proc[q]
    BY <2>2, GotoMoves, Zenon
  <2>4. \A q \in Proc \ {p} : plan'[q] = plan[q]
    BY <1>1, <2>1
  <2>5. QED BY <1>3, <2>3, <2>4, Zenon DEF OthersKept, Moves, RestartSkips, RecoverSettled, CancelRead, CancelRevoke
<1>4. ASSUME CancelWrite(p) \/ Crash(p)
      PROVE  /\ OthersKept(p) /\ UNCHANGED <<receipts, holder, invoked>>
             /\ proc'[p].pc \in Away /\ proc'[p].grant \in {0, proc[p].grant}
  <2>1. UNCHANGED <<receipts, holder, invoked>> /\ \E pc \in Away : Forget(p, pc)
    BY <1>2, <1>4, Zenon DEF CancelWrite, Crash
  <2>2. PICK pc \in Away : Forget(p, pc)
    BY <2>1, Zenon
  <2>3. proc'[p].pc = pc /\ proc'[p].grant = 0 /\ OthersKept(p)
    BY <2>2, ForgetMoves, Zenon
  <2>4. QED BY <2>1, <2>3
<1>5. RestartSkips(p) \/ CancelRead(p) \/ CancelRevoke(p) \/ Crash(p) => task' = task
  BY Zenon DEF RestartSkips, CancelRead, CancelRevoke, Crash
<1>6. ASSUME RecoverSettled(p)
      PROVE  /\ holder = NoProc /\ task'.n = task.n /\ task'.status = task.status
             /\ task'.state = IF FirstIncomplete = 0 THEN "completed" ELSE "failed"
  <2> DEFINE st == IF FirstIncomplete = 0 THEN "completed" ELSE "failed"
  <2>1. holder = NoProc /\ task' = saveTaskStatus(st)
    BY <1>6, Zenon DEF RecoverSettled
  <2> HIDE DEF st
  <2>2. task'.n = task.n /\ task'.status = task.status /\ task'.state = st
    BY <1>1, <2>1 DEF saveTaskStatus, TaskPlan
  <2>3. QED BY <2>1, <2>2 DEF st
<1>7. CancelWrite(p) => task' = task \/ (holder = NoProc /\ task'.state = "cancelled")
  BY DEF CancelWrite, UnleasedWrite, saveTaskPlan
<1>8. QED BY <1>3, <1>4, <1>5, <1>6, <1>7

\* What every step of the loop has in common, and which two lead to the call of a tool.
LEMMA LoopEffects ==
  ASSUME TypeInv, NEW p \in Proc, LoopStep(p)
  PROVE  /\ OthersKept(p) /\ proc'[p].grant \in {0, proc[p].grant}
         /\ proc'[p].pc = "resolved" => StoreResolved(p)
         /\ proc'[p].pc = "awaiting" => Dispatch(p)
         /\ proc'[p].pc = "invoked" => Invoke(p)
<1>1. CASE EnterLoop(p) \/ EnterStep(p) \/ Verify(p) \/ Retry(p)
  <2>1. OthersKept(p) /\ proc'[p].grant = proc[p].grant /\ proc'[p].pc \in {"failing", "loop", "step", "verifying"}
    BY <1>1, StatusEffects, Zenon DEF Moves
  <2>2. QED BY <2>1
<1>2. CASE Dispatch(p) \/ StoreResolved(p)
  <2>1. /\ OthersKept(p) /\ proc'[p].grant = proc[p].grant
        /\ \/ Dispatch(p) /\ proc'[p].pc = "awaiting"
           \/ StoreResolved(p) /\ proc'[p].pc = "resolved"
    BY <1>2, StepEffects, Zenon DEF Moves
  <2>2. QED BY <2>1
<1>3. CASE \/ SkipByRunWhen(p) \/ FailUndispatched(p) \/ MarkPendingApproval(p)
           \/ DispatchStale(p) \/ SettleStep(p)
  <2>1. OthersKept(p) /\ proc'[p].grant = proc[p].grant /\ proc'[p].pc \in {"loop", "asking", "failing", "retrying"}
    BY <1>3, StepEffects, Zenon DEF Moves
  <2>2. QED BY <2>1
<1>4. CASE \/ MoveWaiting(p) \/ ReturnPending(p) \/ MoveFailed(p) \/ MoveRecovering(p)
           \/ Finish(p) \/ RecoverOrphan(p) \/ Fenced(p)
  <2>1. OthersKept(p) /\ proc'[p].grant \in {0, proc[p].grant} /\ proc'[p].pc \in {"waiting", "backoff", "loop", "idle"}
    BY <1>4, PlanEffects, Zenon DEF Moves, Leaves
  <2>2. QED BY <2>1
<1>5. CASE CreateApproval(p) \/ Invoke(p) \/ \E o \in Outcome : Settle(p, o)
  <2>1. /\ OthersKept(p) /\ proc'[p].grant = proc[p].grant
        /\ proc'[p].pc \in {"asked", "settling"} \/ (Invoke(p) /\ proc'[p].pc = "invoked")
    BY <1>5, CallEffects, Zenon DEF Moves
  <2>2. QED BY <2>1
<1>6. ToolReturns(p) \/ ToolDenied(p) => \E o \in Outcome : Settle(p, o)
  BY DEF ToolReturns, ToolDenied, Outcome
<1>7. QED BY <1>1, <1>2, <1>3, <1>4, <1>5, <1>6, Zenon DEF LoopStep

\* The process that runs the task: it has the lease and is in the loop.
Runs(p) == holder = p /\ proc[p].pc \notin Away

\* The steps of the loop that do not end the invocation.
StaysInLoop(p) ==
  \/ EnterLoop(p) \/ EnterStep(p) \/ Verify(p) \/ Retry(p)
  \/ SkipByRunWhen(p) \/ FailUndispatched(p) \/ MarkPendingApproval(p) \/ StoreResolved(p)
  \/ Dispatch(p) \/ DispatchStale(p) \/ SettleStep(p)
  \/ MoveWaiting(p) \/ MoveRecovering(p)
  \/ CreateApproval(p) \/ Invoke(p) \/ ToolReturns(p) \/ ToolDenied(p)

\* Where a step of the loop starts and what becomes of the lease.
LEMMA LoopLease ==
  ASSUME TypeInv, NEW p \in Proc, LoopStep(p)
  PROVE  /\ proc[p].pc \notin Away
         /\ \/ StaysInLoop(p) /\ holder' = holder
            \/ Leaves(p)
         /\ holder = p \/ UNCHANGED <<task, receipts>>
<1>1. CASE EnterLoop(p) \/ EnterStep(p) \/ Verify(p) \/ Retry(p)
  <2>1. holder = p /\ holder' = holder
    BY <1>1, Zenon DEF EnterLoop, EnterStep, Verify, Retry, LeasedWrite
  <2>2. proc[p].pc \in {"entering", "loop", "backoff"}
    BY <1>1, Zenon DEF EnterLoop, EnterStep, Verify, Retry, AtStep
  <2>3. QED BY <1>1, <2>1, <2>2, Zenon DEF StaysInLoop, Away
<1>2. CASE \/ SkipByRunWhen(p) \/ FailUndispatched(p) \/ MarkPendingApproval(p) \/ StoreResolved(p)
           \/ Dispatch(p) \/ DispatchStale(p) \/ SettleStep(p)
  <2>1. holder = p /\ holder' = p
    BY <1>2, StepEffects, Zenon DEF StepWrite
  <2>2. proc[p].pc \in {"loop", "step", "resolved", "settling"}
    BY <1>2, StepEffects, Zenon DEF Moves
  <2>3. QED BY <1>2, <2>1, <2>2, Zenon DEF StaysInLoop, Away
<1>3. CASE MoveWaiting(p) \/ MoveRecovering(p)
  <2>1. holder = p /\ holder' = p /\ proc[p].pc \in {"asking", "retrying"}
    BY <1>3, PlanEffects, Zenon DEF PlanWrite, Moves
  <2>2. QED BY <1>3, <2>1, Zenon DEF StaysInLoop, Away
<1>4. CASE ReturnPending(p) \/ MoveFailed(p) \/ Finish(p) \/ RecoverOrphan(p)
  <2>1. holder = p /\ Leaves(p) /\ proc[p].pc \in {"asked", "failing", "verifying", "orphan"}
    BY <1>4, PlanEffects, Zenon DEF PlanWrite
  <2>2. QED BY <2>1 DEF Away
<1>5. CASE Fenced(p)
  <2>1. Leaves(p) /\ UNCHANGED <<task, receipts>> /\ proc[p].pc \in Writing \cup {"awaiting"}
    BY <1>5, PlanEffects, Zenon DEF Fenced, Refused
  <2>2. QED BY <2>1 DEF Away, Writing
<1>6. CASE CreateApproval(p) \/ Invoke(p)
  <2>1. UNCHANGED <<task, receipts, holder>> /\ proc[p].pc \in {"waiting", "awaiting"}
    BY <1>6, CallEffects, Zenon DEF Moves
  <2>2. QED BY <1>6, <2>1, Zenon DEF StaysInLoop, Away
<1>7. CASE ToolReturns(p) \/ ToolDenied(p)
  <2>1. proc[p].pc \in {"invoked", "awaiting"} /\ UNCHANGED <<task, holder>>
    BY <1>7, Zenon DEF ToolReturns, ToolDenied, Refused, Settle
  <2>2. holder = p \/ receipts' = receipts
    BY <1>7, Zenon DEF ToolReturns, ToolDenied, Settle, LeasedWrite
  <2>3. QED BY <1>7, <2>1, <2>2 DEF StaysInLoop, Away
<1>8. QED BY <1>1, <1>2, <1>3, <1>4, <1>5, <1>6, <1>7, Zenon DEF LoopStep

\* A process that runs the task after a step has just started, was running it and
\* took the step itself, or saw nothing of it.
LEMMA RunnerSteps ==
  ASSUME TypeInv, [Next]_vars, NEW q \in Proc, Runs(q)'
  PROVE  \/ Run(q) \/ RecoverReceipt(q) \/ RecoverResumes(q) \/ \E a \in DOMAIN approvals : Resume(q, a)
         \/ Runs(q) /\ StaysInLoop(q)
         \/ Runs(q) /\ UNCHANGED <<task, receipts>> /\ proc'[q] = proc[q] /\ plan'[q] = plan[q]
<1> DEFINE Start(p) == \/ Run(p) \/ RecoverReceipt(p) \/ RecoverResumes(p)
                       \/ \E a \in DOMAIN approvals : Resume(p, a)
           Aside(p) == \/ RestartSkips(p) \/ RecoverSettled(p) \/ CancelRead(p) \/ CancelRevoke(p)
                       \/ CancelWrite(p) \/ Crash(p)
           Same == Runs(q) /\ UNCHANGED <<task, receipts>> /\ proc'[q] = proc[q] /\ plan'[q] = plan[q]
<1>1. holder' = q /\ proc'[q].pc \notin Away /\ q # NoProc
  BY ProcAssumption DEF Runs
<1>2. ASSUME NEW p \in Proc, Start(p) PROVE Start(q)
  <2>1. holder' = p
    BY <1>2, StartEffects, Zenon DEF Begins
  <2>2. p = q
    BY <1>1, <2>1
  <2>3. QED BY <1>2, <2>2, Zenon
<1>3. ASSUME NEW p \in Proc, Aside(p) PROVE Same
  <2>1. OthersKept(p) /\ UNCHANGED <<receipts, holder>> /\ proc'[p].pc \in Away
    BY <1>3, AsideEffects, Zenon
  <2>2. task' = task \/ holder = NoProc
    BY <1>3, AsideEffects, Zenon
  <2>3. p # q
    BY <1>1, <2>1, Zenon
  <2>4. task' = task /\ proc'[q] = proc[q] /\ plan'[q] = plan[q] /\ holder = q
    BY <1>1, <2>1, <2>2, <2>3 DEF OthersKept
  <2>5. QED BY <1>1, <2>1, <2>4 DEF Runs
<1>4. ASSUME NEW p \in Proc, LoopStep(p) PROVE (Runs(q) /\ StaysInLoop(q)) \/ Same
  <2>1. /\ proc[p].pc \notin Away
        /\ (StaysInLoop(p) /\ holder' = holder) \/ Leaves(p)
        /\ holder = p \/ UNCHANGED <<task, receipts>>
    BY <1>4, LoopLease, Zenon
  <2>2. OthersKept(p)
    BY <1>4, LoopEffects, Zenon
  <2>3. CASE p = q
    <3>1. ~Leaves(p)
      BY <1>1, <2>3 DEF Leaves, Away
    <3>2. holder = q
      BY <1>1, <2>1, <3>1
    <3>3. QED BY <2>1, <2>3, <3>1, <3>2, Zenon DEF Runs
  <2>4. CASE p # q
    <3>1. holder = q
      BY <1>1, <2>1 DEF Leaves
    <3>2. UNCHANGED <<task, receipts>> /\ proc'[q] = proc[q] /\ plan'[q] = plan[q]
      BY <2>1, <2>2, <2>4, <3>1 DEF OthersKept
    <3>3. QED BY <1>1, <3>1, <3>2 DEF Runs
  <2>5. QED BY <2>3, <2>4
<1>5. ASSUME UNCHANGED <<task, receipts, holder, proc, plan>> PROVE Same
  BY <1>1, <1>5 DEF Runs
<1>6. ASSUME NEW a \in DOMAIN approvals, Approve(a) \/ ApprovalExpires(a) PROVE Same
  BY <1>5, <1>6, Zenon DEF Approve, ApprovalExpires
<1>7. ASSUME ContextMoves \/ UNCHANGED vars PROVE Same
  BY <1>5, <1>7, Zenon DEF ContextMoves, vars
<1>8. ~(AppendSteps \/ LeaseExpires \/ \E s \in Step, d \in Decision : Reconcile(s, d))
  BY <1>1, Zenon DEF AppendSteps, LeaseExpires, Reconcile, UnleasedWrite
<1> HIDE DEF Same
<1>9. Start(q) \/ (Runs(q) /\ StaysInLoop(q)) \/ Same
  BY <1>2, <1>3, <1>4, <1>6, <1>7, <1>8, Zenon DEF Next
<1>10. QED BY <1>9, Zenon DEF Same
================================================================================
