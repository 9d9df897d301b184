---------------------------- MODULE SnapshotTask ----------------------------
(***************************************************************************)
(* The two-step Task of GitSnapshot whose rollback refers to the snapshot  *)
(* of its first step ({{step1.output.snapshotId}}): the arguments of step  *)
(* 2 are validated and resolved before it runs (core/loop/                 *)
(* closed-agent-loop.ts, application/services/template-resolver.ts).       *)
(***************************************************************************)
EXTENDS GitSnapshot, StepTemplates

Context == buildStepContext({[steps[i] EXCEPT !.status = Text(@)] :
                               i \in {j \in 1..Len(steps) : steps[j].status = "completed"}})

\* What the approval is bound to: the declared arguments, resolved anew.
resolveApprovedTaskArgs(step) ==
  LET source == IF step.templateArguments = Null THEN step.arguments ELSE step.templateArguments
  IN IF ~hasTemplates(source) THEN source
     ELSE IF ~validateTemplates(source, Context) THEN Undefined
     ELSE resolveTemplates(source, Context)

\* The attempt resolves the arguments in place and keeps what was declared.
ResolveInPlace(step) ==
  IF ~hasTemplates(step.arguments) THEN step
  ELSE [step EXCEPT !.arguments = resolveTemplates(@, Context),
                    !.templateArguments = IF @ = Null THEN step.arguments ELSE @]

Resolvable(step) ==
  /\ resolveApprovedTaskArgs(step) # Undefined
  /\ hasTemplates(step.arguments) => validateTemplates(step.arguments, Context)

StepTwoStarts ==
  /\ StepTwoReady
  /\ \/ /\ Resolvable(steps[2])
        /\ LET ready == ResolveInPlace(steps[2])
           IN StepTwoRuns(ready.arguments, ready.templateArguments)
     \/ ~Resolvable(steps[2]) /\ StepTwoUnresolved

Next == SnapshotStep \/ StepTwoStarts

Spec == SnapshotInit /\ [][Next]_snapshotVars

-----------------------------------------------------------------------------
DeclaredId ==
  LET source == IF steps[2].templateArguments = Null THEN steps[2].arguments
                ELSE steps[2].templateArguments
  IN source.object.snapshotId

RefersToSnapshot(v) ==
  /\ IsString(v) /\ Len(v.string) = 1 /\ IsRef(v.string[1])
  /\ v.string[1].ref.parts = <<Segment("step1"), Segment("output"), Segment("snapshotId")>>

(***************************************************************************)
(* A rollback declared with {{step1.output.snapshotId}}, with or without a *)
(* helper, goes to the snapshot that step 1 took, whatever other chats     *)
(* have captured since and however often either step was tried; after a    *)
(* refused capture it goes nowhere (template-resolver.ts, 75-138; task-    *)
(* snapshot-handler.ts, 93-103 and 150).                                   *)
(***************************************************************************)
ReferenceReachesItsSnapshot ==
  rollback.snap # NoSnap /\ Len(steps) = 2 /\ RefersToSnapshot(DeclaredId)
    => LET taken == steps[1].output.object.snapshotId.string
       IN \E i \in DOMAIN rows : taken = <<[text |-> i]>> /\ rows[i] = rollback.snap

Documented(token) ==
  IsRef(token) => /\ Len(token.ref.parts) > 1
                  /\ IsHelperTemplate(token) \/ IsDirectTemplate(token)

(***************************************************************************)
(* Arguments in the documented syntax, in which no string runs from one    *)
(* reference to another, reach the tool with every reference replaced:     *)
(* what validation lets through, resolution resolves (template-            *)
(* resolver.ts, 75-103 against 216-245).                                   *)
(***************************************************************************)
NoPlaceholderExecuted ==
  Len(steps) = 2 /\ steps[2].status = "running"
    => LET declared == DeclaredId.string
           sent == steps[2].arguments.object.snapshotId
       IN /\ \A i \in 1..Len(declared) : Documented(declared[i])
          /\ Spans(declared) => Len(declared) = 1
          => ~hasTemplates(sent)
=============================================================================
