------------------------------ MODULE ToolGateway ------------------------------
(*****************************************************************************)
(* One tool call on its way through the gates: the governance of the Task    *)
(* loop, the executor that rebuilds the Task's identity, the application     *)
(* gateway with its authorization service and operation policy, the claim of *)
(* the approval, the service behind the handler with a gate of its own, the  *)
(* two audit records, and what the loop makes of the answer.  A direct call  *)
(* enters at the gateway.                                                    *)
(*                                                                           *)
(* The gates are pure and each is one operator.  What makes them interesting *)
(* is time: an approval takes hours, and the permission level, the grant of  *)
(* the workspace, the directory a command runs in and the approval itself may*)
(* have changed when the next gate looks.                                    *)
(*****************************************************************************)
EXTENDS Integers, FiniteSets

CONSTANTS ToolCall,    \* the calls to consider
          MaxFaults    \* bound: audit records that cannot be written

Level == {"READ", "PROJECT_ACCESS", "DEVELOPER", "ADMIN"}
Rank == [READ |-> 0, PROJECT_ACCESS |-> 1, DEVELOPER |-> 2, ADMIN |-> 3]

-----------------------------------------------------------------------------
(* The operation catalogue *)

FileReads == {"list_directory", "read_file", "search_files"}
FileWrites == {"write_file", "create_file", "modify_file", "delete_file", "restore_file"}
GitReads == {"git_status", "git_diff", "git_log"}
GitWrites == {"git_clone", "git_commit", "git_branch", "git_checkout", "git_add", "git_init"}
PackageTools == {"install_package", "remove_package", "update_package"}
PoolTools == {"set_workspace", "add_workspace_roots", "remove_workspace_root"}
InfoTools == {"get_system_info", "agent_metrics", "chat_isolation_probe", "get_workspace"}
TaskReads == {"task_get", "task_list", "task_report", "task_links", "task_step_risks"}
TaskRuns == {"task_run", "task_approve", "task_resume", "task_reconcile", "task_replay",
             "task_append_steps"}
RecordReads == {"help", "project_get", "project_list", "open_project", "close_project",
                "memory_list", "memory_get"}
RecordWrites == {"project_save", "project_delete", "project_archive", "memory_add",
                 "memory_update", "memory_delete"}

TOOL_NAMES == FileReads \cup FileWrites \cup GitReads \cup GitWrites \cup PackageTools \cup PoolTools
              \cup InfoTools \cup {"execute_command", "exec", "task_snapshot", "task_rollback"}

TaskControl == TaskReads \cup TaskRuns \cup {"task_create", "task_cancel", "task_link"}

CONTROL_TOOL_NAMES == TaskControl \cup RecordReads \cup RecordWrites

ReadOnly == FileReads \cup GitReads \cup InfoTools \cup TaskReads \cup RecordReads

requiredPermission(t) ==
  IF t \in ReadOnly \cup {"exec"} THEN "READ"
  ELSE IF t \in FileWrites \cup RecordWrites \cup {"task_create", "task_cancel"} THEN "PROJECT_ACCESS"
  ELSE "DEVELOPER"

\* approval: "always"; the others are "on-risk" or "never"
ApprovalAlways == {"delete_file", "task_rollback", "add_workspace_roots"} \cup GitWrites \cup PackageTools

\* workspaceScope other than "none" and "scope_mutation"
NeedsRoot == FileReads \cup FileWrites \cup GitReads \cup GitWrites \cup PackageTools
             \cup {"execute_command", "task_snapshot", "task_rollback"}

\* The OAuth scope that the security class and the effect ask for.
requiredScope(t) ==
  CASE t = "agent_metrics" -> "monitoring"
    [] t \in PoolTools -> "workspace"
    [] t \in TaskControl -> "task"
    [] t \in {"execute_command", "exec", "task_snapshot", "task_rollback"} \cup GitReads \cup GitWrites
             \cup PackageTools -> "execute"
    [] OTHER -> IF t \in ReadOnly THEN "read" ELSE "write"

-----------------------------------------------------------------------------
(* The state *)

VARIABLES req,       \* the call
          level,     \* configured permission level
          granted,   \* the workspace of the call is a stored root
          where,     \* where its path or cwd leads: "unset", "inside", "outside"
          gate,      \* the gate it has reached
          approval,  \* the approval row of the step
          foreseen,  \* what governance decided
          policy,    \* what the operation policy decided
          thrown,    \* what the handler threw, "ok" when it returned
          effect,    \* the tool has done its work
          result,    \* the answer of the gateway
          degraded,  \* observabilityDegraded
          step,      \* what the loop records
          moved,     \* the directory has moved (bound: once)
          faults

gatewayVars == <<req, level, granted, where, gate, approval, foreseen, policy, thrown, effect, result,
                 degraded, step, moved, faults>>

Gate == {"start", "waiting", "executor", "gateway", "authorized", "verified", "running", "ran",
         "logged", "answered", "done"}

GatewayTypeOK ==
  /\ req \in ToolCall /\ level \in Level /\ granted \in BOOLEAN
  /\ where \in {"unset", "inside", "outside"}
  /\ gate \in Gate
  /\ approval \in {"none", "unbound", "pending", "expired", "consumed", "claimed"}
  /\ foreseen \in {"none", "allow", "approval_required", "blocked"}
  /\ policy \in {"none", "allowed", "approval_required", "blocked"}
  /\ effect \in BOOLEAN /\ degraded \in BOOLEAN /\ moved \in BOOLEAN
  /\ result \in {"none", "succeeded", "failed", "blocked", "approval_required"}
  /\ step \in {"none", "completed", "blocked", "failed", "outcome_unknown", "retry", "answered"}
  /\ faults \in 0..MaxFaults

IsTask == req.mode = "task"
Root == req.root # "none"
Mutating(t) == t \notin ReadOnly

\* requestsUnrestrictedEffect and hasInvalidUnrestrictedArgument
UNRESTRICTED_FILE_OPERATIONS == FileReads \cup {"write_file", "create_file", "modify_file", "delete_file"}
requestsUnrestrictedEffect == req.tool \in UNRESTRICTED_FILE_OPERATIONS /\ req.elevation = "true"
hasInvalidUnrestrictedArgument ==
  req.elevation = "other" \/ (req.elevation = "true" /\ req.tool \notin UNRESTRICTED_FILE_OPERATIONS)

\* A Task step is unrestricted by its arguments, a direct call never is.
Unrestricted == IsTask /\ requestsUnrestrictedEffect

\* Without a workspace nothing is inside.
Outside == where = "outside" \/ (where = "inside" /\ ~Root)

GatewayInit ==
  /\ req \in ToolCall
  /\ level = req.level /\ granted = TRUE /\ where = req.where
  /\ gate = IF IsTask THEN "start" ELSE "gateway"
  /\ approval = "none" /\ foreseen = "none" /\ policy = "none" /\ thrown = "none"
  /\ effect = FALSE /\ result = "none" /\ degraded = FALSE /\ step = "none" /\ moved = FALSE /\ faults = 0

-----------------------------------------------------------------------------
(* The policy decision point *)

\* evaluateCommandPermission, for the kinds of command line its patterns tell apart
CommandKind == {"destructive", "git_no_index", "version", "gh_read", "git_read", "script", "unlisted"}
evaluateCommandPermission(k) ==
  CASE k \in {"destructive", "git_no_index"} -> "blocked"
    [] k \in {"version", "gh_read", "git_read"} -> "allow"
    [] OTHER -> "approval_required"

\* validateCommand: only the listed programs
validateCommand(k) == k # "unlisted"

APPROVAL_TOOLS_NoPackages == (ApprovalAlways \ PackageTools) \cup {"remove_workspace_root"}
APPROVAL_TOOLS == ApprovalAlways \cup {"remove_workspace_root"}

Permitted(t) == Rank[level] >= Rank[requiredPermission(t)]

\* evaluate: an outside cwd is decided before the command is looked at.
evaluate ==
  IF ~Permitted(req.tool) THEN "blocked"
  ELSE IF req.tool = "execute_command" /\ Outside THEN "approval_required"
  ELSE IF req.tool = "execute_command" THEN evaluateCommandPermission(req.command)
  ELSE IF req.tool \in APPROVAL_TOOLS THEN "approval_required" ELSE "allow"

\* HOOSHIX_DIRECT_AUTO_APPROVE stands in for an approval, except where a root or
\* an outside directory is concerned.
isDirectApprovalBypassEnabled ==
  /\ req.bypass
  /\ req.tool \notin {"add_workspace_roots", "remove_workspace_root"}
  /\ ~(req.tool = "execute_command" /\ Outside)

\* assertAllowed: the gate of the services, opened by the approval of this very tool.
assertAllowed_Trusting == evaluate # "blocked"
assertAllowed ==
  \/ evaluate = "allow"
  \/ evaluate = "approval_required" /\ (approval = "claimed" \/ isDirectApprovalBypassEnabled)

-----------------------------------------------------------------------------
(* Governance of a Task step *)

FILE_PATH_TOOLS == UNRESTRICTED_FILE_OPERATIONS
CWD_TOOLS == (GitReads \cup GitWrites \cup PackageTools) \ {"git_clone", "git_init"}

checkStepGovernance ==
  IF \/ req.tool \in FILE_PATH_TOOLS /\ req.elevation # "true" /\ Outside
     \/ req.tool \in CWD_TOOLS /\ Outside
  THEN "blocked"
  ELSE IF evaluate # "blocked" /\ req.tool \in FILE_PATH_TOOLS /\ req.elevation = "true"
       THEN "approval_required" ELSE evaluate

stepDecision ==
  IF hasInvalidUnrestrictedArgument THEN "blocked"
  ELSE IF requestsUnrestrictedEffect /\ checkStepGovernance # "blocked" THEN "approval_required"
  ELSE checkStepGovernance

\* fingerprintTaskEffect needs a workspace, except for the pool tools.
Fingerprintable_AnyPlan == req.tool \in TOOL_NAMES
Fingerprintable == Root \/ req.tool \in PoolTools

\* resolveTaskWorkspace at the start of a run and of a resume
WorkspaceValid == Root => granted

\* run: the step is governed, and waits, ends blocked, or goes on.
govern ==
  /\ gate = "start" /\ WorkspaceValid
  /\ foreseen' = stepDecision
  /\ CASE stepDecision = "approval_required" ->
            /\ gate' = "waiting" /\ UNCHANGED step
            /\ approval' = IF Fingerprintable THEN "pending" ELSE "unbound"
       [] stepDecision = "blocked" -> gate' = "done" /\ step' = "blocked" /\ UNCHANGED approval
       [] stepDecision = "allow" -> gate' = "executor" /\ UNCHANGED <<step, approval>>
  /\ UNCHANGED <<req, moved, level, granted, where, policy, thrown, effect, result, degraded, faults>>

\* approve and resume: the row is consumed, and the step is governed again.
resume ==
  /\ gate = "waiting" /\ approval = "pending" /\ WorkspaceValid
  /\ approval' = "consumed"
  /\ IF stepDecision = "blocked" THEN gate' = "done" /\ step' = "blocked"
     ELSE gate' = "executor" /\ UNCHANGED step
  /\ UNCHANGED <<req, moved, level, granted, where, foreseen, policy, thrown, effect, result, degraded, faults>>

\* The call cannot start any more: its workspace is gone, or its approval is void.
cannotRun ==
  /\ \/ gate = "start" /\ ~WorkspaceValid
     \/ gate = "waiting" /\ (~WorkspaceValid \/ approval \in {"unbound", "expired"})
  /\ gate' = "done"
  /\ UNCHANGED <<req, moved, level, granted, where, approval, foreseen, policy, thrown, effect, result,
                 degraded, step, faults>>

-----------------------------------------------------------------------------
(* The executor and the gateway *)

\* createLocalToolExecutor: the checks before the gateway, which throw.
localExecutor ==
  /\ gate = "executor"
  /\ IF hasInvalidUnrestrictedArgument \/ req.root = "uncaptured" \/ ~WorkspaceValid
     THEN gate' = "answered" /\ result' = "failed"
     ELSE gate' = "gateway" /\ UNCHANGED result
  /\ UNCHANGED <<req, moved, level, granted, where, approval, foreseen, policy, thrown, effect, degraded,
                 step, faults>>

\* The refusals of the authorization service that no approval lifts.
Unentitled ==
  \/ req.origin \notin {"local_stdio", "http_oauth"}
  \/ ~Permitted(req.tool)
  \/ req.origin = "http_oauth" /\ requiredScope(req.tool) \notin req.scopes
  \/ Unrestricted /\ (~req.allowUnrestricted \/ level # "ADMIN")
  \/ Unrestricted /\ req.origin = "http_oauth" /\ "admin" \notin req.scopes

\* decide, for an operation policy ("none" in the first call) and a verified approval
decide(p, verified) ==
  IF Unentitled THEN "blocked"
  ELSE IF Unrestricted /\ ~verified THEN "approval_required"
  ELSE IF req.tool \in NeedsRoot /\ ~Root THEN "blocked"
  ELSE IF ~verified /\ \/ p = "approval_required" \/ req.tool \in ApprovalAlways
                       \/ Mutating(req.tool) /\ p # "allowed"
       THEN "approval_required"
  ELSE "allowed"

\* operationPolicy.classify
classify ==
  IF \/ hasInvalidUnrestrictedArgument
     \/ req.elevation = "true" /\ ~Unrestricted
     \/ req.tool \in TaskControl /\ ~req.owned
     \/ req.tool = "set_workspace" /\ where # "inside"
  THEN "blocked"
  ELSE IF Unrestricted THEN "approval_required"
  ELSE IF req.tool \in CONTROL_TOOL_NAMES \/ evaluate = "allow" THEN "allowed"
  ELSE evaluate

Deny(kind) == result' = kind /\ gate' = "answered"

\* execute, up to the approval: validation, first decision, operation policy.
authorize ==
  /\ gate = "gateway"
  /\ policy' = classify
  /\ IF ~req.complete \/ decide("none", FALSE) = "blocked" \/ classify = "blocked"
     THEN Deny("blocked")
     ELSE gate' = "authorized" /\ UNCHANGED result
  /\ UNCHANGED <<req, moved, level, granted, where, approval, foreseen, thrown, effect, degraded, step, faults>>

\* approvals.verify: the consumed row, not expired, of exactly this effect, is claimed.
verify == approval = "consumed" /\ Fingerprintable

\* A call that carries an approval stands or falls with it.
verifyApproval ==
  /\ gate = "authorized" /\ approval \in {"consumed", "expired"}
  /\ IF verify THEN gate' = "verified" /\ approval' = "claimed" /\ UNCHANGED result
     ELSE Deny("blocked") /\ UNCHANGED approval
  /\ UNCHANGED <<req, moved, level, granted, where, foreseen, policy, thrown, effect, degraded, step, faults>>

\* A call without one needs none, or is told to get one.
needNoApproval ==
  /\ gate = "authorized" /\ approval = "none"
  /\ IF req.tool \in ApprovalAlways \/ policy = "approval_required" THEN Deny("approval_required")
     ELSE gate' = "verified" /\ UNCHANGED result
  /\ UNCHANGED <<req, moved, level, granted, where, approval, foreseen, policy, thrown, effect, degraded,
                 step, faults>>

\* The second decision, with the policy and the approval.
finalDecision ==
  /\ gate = "verified"
  /\ LET d == decide(policy, approval = "claimed") IN
     IF d = "allowed" THEN gate' = "running" /\ UNCHANGED result ELSE Deny(d)
  /\ UNCHANGED <<req, moved, level, granted, where, approval, foreseen, policy, thrown, effect, degraded,
                 step, faults>>

-----------------------------------------------------------------------------
(* The handler and the records *)

\* What a handler may throw, by what the classifier tells apart.
Refusals == {"outside", "access", "no_workspace", "approval", "not_allowed"}
Errors == Refusals \cup {"coded_timeout", "timed_out", "network", "missing", "stale_write", "invalid",
                         "denied", "git", "other"}

classifyHandlerFailure(e) ==
  CASE e \in {"coded_timeout", "timed_out"} -> "timeout"
    [] e = "network" -> "network"
    [] e = "outside" -> "path_outside_workspace"
    [] e = "access" -> "security_policy"
    [] e = "no_workspace" -> "workspace_missing_or_ungranted"
    [] e = "approval" -> "approval_required"
    [] e = "missing" -> "resource_not_found"
    [] e = "stale_write" -> "stale_write"
    [] e = "invalid" -> "invalid_argument"
    [] e = "denied" -> "permission_denied"
    [] e = "git" -> "not_a_git_repository"
    [] OTHER -> "tool_handler_failure"

\* The services check the path, the cwd and the policy once more, then work.
ServiceRefuses ==
  \/ req.tool \in FILE_PATH_TOOLS \cup CWD_TOOLS /\ Outside /\ ~Unrestricted
  \/ req.tool \in NeedsRoot /\ ~Root
  \/ req.tool = "set_workspace" /\ where # "inside"
  \/ req.tool = "execute_command" /\ ~validateCommand(req.command)
  \/ req.tool \in TOOL_NAMES \ (InfoTools \cup {"exec", "set_workspace", "task_snapshot"}) /\ ~assertAllowed

runHandler ==
  /\ gate = "running"
  /\ IF ServiceRefuses
     THEN /\ thrown' \in Refusals /\ result' = "failed"
          /\ UNCHANGED effect
     ELSE \/ thrown' = "ok" /\ effect' = TRUE /\ result' = "succeeded"
          \/ /\ thrown' \in Errors \ Refusals
             /\ result' = "failed"
             /\ effect' \in IF thrown' \in {"coded_timeout", "timed_out", "network", "other"}
                            THEN BOOLEAN ELSE {FALSE}
  /\ gate' = "ran"
  /\ UNCHANGED <<req, moved, level, granted, where, approval, foreseen, policy, degraded, step, faults>>

\* The security event of an elevated or scope-changing success.
recordSecurityEvent ==
  /\ gate = "ran" /\ gate' = "logged"
  /\ \/ UNCHANGED <<degraded, faults>>
     \/ /\ faults < MaxFaults /\ faults' = faults + 1
        /\ result = "succeeded" /\ (Unrestricted \/ req.tool \in PoolTools)
        /\ degraded' = TRUE
  /\ UNCHANGED <<req, moved, level, granted, where, approval, foreseen, policy, thrown, effect, result, step>>

\* The audit record of every call.
recordAudit ==
  /\ gate = "logged" /\ gate' = "answered"
  /\ \/ UNCHANGED <<degraded, faults>>
     \/ /\ faults < MaxFaults /\ faults' = faults + 1
        /\ degraded' = (degraded \/ result = "succeeded")
  /\ UNCHANGED <<req, moved, level, granted, where, approval, foreseen, policy, thrown, effect, result, step>>

-----------------------------------------------------------------------------
(* What the loop makes of it *)

\* The text that reaches the loop: a label, or the reason of a refusal.
Message ==
  IF result = "approval_required" THEN "Approval required"
  ELSE IF thrown \in Errors THEN classifyHandlerFailure(thrown)
  ELSE IF ~req.complete \/ hasInvalidUnrestrictedArgument THEN "invalid" ELSE "refused"

\* classifyError on that text
classifyError_Labels(m) ==
  CASE m = "network" -> "NETWORK"
    [] m = "Approval required" -> "APPROVAL_REQUIRED"
    [] m \in {"invalid", "invalid_argument"} -> "INVALID_ARGUMENT"
    [] OTHER -> "EXECUTION"
classifyError(m) ==
  CASE m = "timeout" -> "TIMEOUT"
    [] m = "network" -> "NETWORK"
    [] m = "security_policy" -> "SECURITY_POLICY"
    [] m = "Approval required" -> "APPROVAL_REQUIRED"
    [] m \in {"invalid", "invalid_argument"} -> "INVALID_ARGUMENT"
    [] OTHER -> "EXECUTION"

isTransientError(m) == classifyError(m) \in {"TIMEOUT", "NETWORK"}

\* The catch of the loop, with recoveries left or not; a read-only step has no receipt.
settle ==
  /\ gate = "answered" /\ gate' = "done"
  /\ IF result = "succeeded" THEN step' = IF IsTask THEN "completed" ELSE "answered"
     ELSE IF ~IsTask THEN step' = "answered"
     ELSE IF classifyError(Message) = "TIMEOUT" /\ Mutating(req.tool) THEN step' = "outcome_unknown"
     ELSE IF classifyError(Message) \in {"SECURITY_POLICY", "APPROVAL_REQUIRED"} THEN step' = "blocked"
     ELSE step' \in IF isTransientError(Message) THEN {"failed", "retry"} ELSE {"failed"}
  /\ UNCHANGED <<req, moved, level, granted, where, approval, foreseen, policy, thrown, effect, result,
                 degraded, faults>>

-----------------------------------------------------------------------------
(* The surroundings *)

\* The operator restarts the server with another level while the step waits.
LevelChanges ==
  /\ gate = "waiting" /\ level' \in Level \ {level}
  /\ UNCHANGED <<req, moved, granted, where, gate, approval, foreseen, policy, thrown, effect, result,
                 degraded, step, faults>>

\* Another process removes the root from the pool.
RootRevoked ==
  /\ gate \notin {"answered", "done"} /\ granted /\ granted' = FALSE
  /\ UNCHANGED <<req, moved, level, where, gate, approval, foreseen, policy, thrown, effect, result,
                 degraded, step, faults>>

\* The directory is moved or replaced by a link.
DirectoryMoves ==
  /\ gate \notin {"answered", "done", "ran", "logged"} /\ where # "unset"
  /\ ~moved /\ moved' = TRUE
  /\ where' = IF where = "inside" THEN "outside" ELSE "inside"
  /\ UNCHANGED <<req, level, granted, gate, approval, foreseen, policy, thrown, effect, result,
                 degraded, step, faults>>

\* expires_at passes.
ApprovalExpires ==
  /\ approval \in {"pending", "consumed"} /\ gate \notin {"answered", "done"}
  /\ approval' = "expired"
  /\ UNCHANGED <<req, moved, level, granted, where, gate, foreseen, policy, thrown, effect, result,
                 degraded, step, faults>>

GatewayNext ==
  \/ govern \/ resume \/ cannotRun \/ localExecutor \/ authorize \/ verifyApproval \/ needNoApproval
  \/ finalDecision \/ runHandler \/ recordSecurityEvent \/ recordAudit \/ settle
  \/ LevelChanges \/ RootRevoked \/ DirectoryMoves \/ ApprovalExpires

GatewaySpec == GatewayInit /\ [][GatewayNext]_gatewayVars

-----------------------------------------------------------------------------
(* Properties *)

\* What must be true of a call that has an effect, said without any order of gates.
NeedsClaim ==
  \/ req.tool \in ApprovalAlways \cup {"remove_workspace_root"}
  \/ req.elevation = "true"
  \/ req.tool = "execute_command" /\ (where = "outside" \/ evaluateCommandPermission(req.command) # "allow")

\* Correct authorization (createExecuteToolUseCase, createAuthorizationService):
\* whatever changed between the gates, a tool works only for a caller with the
\* level and the scope it asks for, in a workspace, with a claimed approval where
\* one is needed, and a forbidden command never works in the workspace.
EffectEntitled ==
  effect =>
    /\ ~Unentitled
    /\ req.tool \in NeedsRoot => Root
    /\ NeedsClaim => approval = "claimed"
    /\ req.tool = "execute_command" /\ evaluateCommandPermission(req.command) = "blocked" => Outside

\* The claim is the last word (verifyApproval, finalDecision): an approval that
\* has been claimed, which nobody can use again, is never followed by a refusal
\* of the gateway.
ClaimNotWasted == approval = "claimed" => result \notin {"blocked", "approval_required"}

\* Governance foresees the gateway (checkStepGovernance): a step that governance
\* let through without an approval is not sent back for one while nothing moved.
GovernanceForesees ==
  foreseen = "allow" /\ ~moved => result # "approval_required"

\* No blind repetition (classifyHandlerFailure, classifyError, settle): through
\* both translations of an error a mutation that timed out ends as
\* outcome_unknown, and only a transient error of the tool itself is retried.
OnlyTransientRetried ==
  /\ gate = "done" /\ IsTask /\ Mutating(req.tool) /\ thrown \in {"coded_timeout", "timed_out"}
       => step = "outcome_unknown"
  /\ step = "retry" => thrown \in {"coded_timeout", "timed_out", "network"}

\* Known success stays success (recordSecurityEvent, recordAudit): "An audit sink
\* failure after a known side effect is degradation, not an execution failure".
DoneIsReported ==
  gate = "done" /\ thrown = "ok" => step \in {"completed", "answered"} /\ result = "succeeded"
                                   /\ (faults > 0 => degraded)

=============================================================================
