---------------------------- MODULE GitSnapshot ----------------------------
(***************************************************************************)
(* task_snapshot and task_rollback over a Git repository that Git tools    *)
(* and other programs go on changing, as the two steps of a Task.  How the *)
(* second step's arguments are resolved is in SnapshotTask.                *)
(* Sources: core/executor/handlers/task-snapshot-handler.ts, services/git/ *)
(* and, for the steps, core/loop/closed-agent-loop.ts.                     *)
(*                                                                         *)
(* Every git subprocess is an await: the repository may move between any   *)
(* two of them.  The approval of the rollback is modelled in ToolGateway;  *)
(* here the effect has been approved.                                      *)
(***************************************************************************)
EXTENDS StepValues, Integers, Sequences

CONSTANTS
  Branches,       \* names of branches
  Commits,        \* 1..n, the commits that may come to exist; 0 is none
  NewId,          \* the id randomUUID returns
  InitialRepos,   \* the repositories a behaviour may start from
  InitialRows,    \* rows of file_backups already stored, by id
  Declared,       \* the snapshotId arguments step 2 may be declared with
  MaxMoves,       \* changes of the repository by others
  MaxAttempts,    \* attempts of each step
  MaxFaults       \* failed or timed-out subprocesses, step timeouts, crashes

Detached == ""

\* A directory: its place in a repository, what is checked out, the tips of the
\* branches, a detached HEAD, what differs from it, the commits and the next one.
Repo == [root : {"here", "parent", "none", "absent"}, branch : Branches \cup {Detached},
         tips : [Branches -> Nat], at : Nat, objects : SUBSET Nat, next : Nat,
         dirt : SUBSET {"staged", "edited", "untracked", "nested"}]

ASSUME RepoAssumption == /\ Commits \subseteq Nat /\ Detached \notin Branches
                         /\ InitialRepos \subseteq Repo
ASSUME LimitsAssumption == MaxMoves \in Nat /\ MaxAttempts \in Nat /\ MaxFaults \in Nat

VARIABLES
  repo,       \* the directory "here": [root, branch, tips, at, dirt, objects, next]
  rows,       \* table file_backups: id -> [path, cwd, kind, head, branch]
  capture,    \* the capture in flight: [pc, head, branch]
  rollback,   \* the rollback in flight: [pc, id, snap, headOk, branchOk]
  steps,      \* the Task's steps: the capture and, once appended, the rollback
  moves, faults,
  seen        \* history for the properties: [disturbed, quiet, during, resetOn],
              \* quiet being what undisturbed captures found, by id

snapshotVars == <<repo, rows, capture, rollback, steps, moves, faults, seen>>

HeadOf(r) == IF r.branch = Detached THEN r.at ELSE r.tips[r.branch]
Visible(r) == [head |-> HeadOf(r), branch |-> r.branch, dirt |-> r.dirt]
HasRepo == repo.root = "here"

NoCapture == [pc |-> "idle", head |-> 0, branch |-> Detached]
NoSnap == [path |-> "none", cwd |-> "none", kind |-> "none", head |-> 0, branch |-> Detached]
NoRollback == [pc |-> "idle", id |-> <<>>, snap |-> NoSnap, headOk |-> FALSE, branchOk |-> FALSE]

Resting == {"idle", "succeeded", "threw"}

PlannedStep(key, args) ==
  [key |-> key, status |-> "pending", attempts |-> 0, output |-> Undefined,
   error |-> Undefined, arguments |-> [object |-> args], templateArguments |-> Null]

SnapshotInit ==
  /\ repo \in InitialRepos
  /\ rows = InitialRows
  /\ capture = NoCapture
  /\ rollback = NoRollback
  /\ steps = <<PlannedStep("step1", [cwd |-> Text("here")])>>
  /\ moves = 0 /\ faults = 0
  /\ seen = [disturbed |-> FALSE, quiet |-> <<>>, during |-> 0, resetOn |-> "none"]

-----------------------------------------------------------------------------
(***************************************************************************)
(* Who else changes the repository: the Git tools and programs outside.    *)
(***************************************************************************)
Moves(r) ==
  /\ moves < MaxMoves
  /\ repo' = r /\ r # repo
  /\ moves' = moves + 1
  /\ seen' = [seen EXCEPT !.disturbed = @ \/ capture.pc # "idle",
                          !.during = IF rollback.pc \in Resting THEN @ ELSE @ + 1]
  /\ UNCHANGED <<rows, capture, rollback, steps, faults>>

\* runGit: the command runs in a directory that exists.  Native Git or, when it
\* refuses the owner of the directory, the owner's worker carries it out; after
\* a failure or a timeout the repository has or has not taken the effect.
runGit(effect) == repo.root # "absent" /\ Moves(effect)

gitCommit ==
  /\ HasRepo /\ "staged" \in repo.dirt /\ repo.next \in Commits
  /\ LET c == repo.next
         moved == [repo EXCEPT !.dirt = @ \ {"staged"}, !.objects = @ \cup {c}, !.next = c + 1]
     IN runGit(IF repo.branch = Detached THEN [moved EXCEPT !.at = c]
               ELSE [moved EXCEPT !.tips[repo.branch] = c])

gitBranch(b) ==
  /\ HasRepo /\ HeadOf(repo) # 0 /\ repo.tips[b] = 0
  /\ runGit([repo EXCEPT !.tips[b] = HeadOf(repo)])

\* git switch, with -c when the branch is to be created.  Edits are carried along.
gitCheckout(b, create) ==
  /\ HasRepo /\ b # repo.branch
  /\ IF create THEN repo.tips[b] = 0 /\ HeadOf(repo) # 0 ELSE repo.tips[b] # 0
  /\ runGit([repo EXCEPT !.branch = b,
                         !.tips[b] = IF create THEN HeadOf(repo) ELSE @])

gitAdd(kind) ==
  /\ HasRepo /\ kind \in repo.dirt
  /\ runGit([repo EXCEPT !.dirt = (@ \ {kind}) \cup {"staged"}])

NewRepo(b) == [repo EXCEPT !.root = "here", !.branch = b]

gitInit(b) == repo.root \in {"none", "parent"} /\ runGit(NewRepo(b))

\* The target must not exist: this directory, or one inside the repository.
gitClone ==
  \/ /\ repo.root = "absent" /\ repo.next \in Commits
     /\ \E b \in Branches :
          Moves([NewRepo(b) EXCEPT !.tips[b] = repo.next, !.objects = {repo.next},
                                   !.next = @ + 1])
  \/ HasRepo /\ runGit([repo EXCEPT !.dirt = @ \cup {"nested"}])

GitTool ==
  \/ gitCommit
  \/ \E b \in Branches : gitBranch(b) \/ gitInit(b)
  \/ \E b \in Branches, create \in BOOLEAN : gitCheckout(b, create)
  \/ \E kind \in {"edited", "untracked"} : gitAdd(kind)
  \/ gitClone

\* Editors, builds and hand-typed git commands.
Outside ==
  \/ \E kind \in {"edited", "untracked"} :
       HasRepo /\ HeadOf(repo) # 0 /\ Moves([repo EXCEPT !.dirt = @ \cup {kind}])
  \/ /\ HasRepo /\ HeadOf(repo) # 0
     /\ Moves([repo EXCEPT !.branch = Detached, !.at = HeadOf(repo)])
  \/ Moves([root |-> "absent", branch |-> Detached, tips |-> [b \in Branches |-> 0], at |-> 0,
            dirt |-> {}, objects |-> {}, next |-> repo.next])

-----------------------------------------------------------------------------
(***************************************************************************)
(* The steps.  A step that timed out no longer listens: the call behind it *)
(* goes on, and its answer is dropped.                                     *)
(***************************************************************************)
Settle(i, status, output, error) ==
  IF steps[i].status # "running" THEN steps
  ELSE [steps EXCEPT ![i].status = status, ![i].output = output, ![i].error = error]

MayRun(i) ==
  /\ i <= Len(steps)
  /\ steps[i].status \in {"pending", "failed"} /\ steps[i].attempts < MaxAttempts
  /\ \A j \in 1..Len(steps) : steps[j].status \notin {"running", "outcome_unknown"}

\* The second step is appended when the first one has come to an end.  What it
\* declares has no influence on the first.
AppendStep ==
  /\ Len(steps) = 1 /\ steps[1].status \in {"completed", "failed"}
  /\ \E d \in Declared :
       steps' = Append(steps, PlannedStep("step2", [cwd |-> Text("here"), snapshotId |-> d]))
  /\ UNCHANGED <<repo, rows, capture, rollback, moves, faults, seen>>

Fault == faults < MaxFaults /\ faults' = faults + 1
NoFault == UNCHANGED faults
GitFails == Fault \/ (~HasRepo /\ NoFault)

-----------------------------------------------------------------------------
(***************************************************************************)
(* captureTaskSnapshot: four subprocesses, then the row.                   *)
(***************************************************************************)
Ends(status, output, error) ==
  /\ capture' = NoCapture /\ steps' = Settle(1, status, output, error)

\* A refusal is an ordinary result: the step completes, with an empty id.
Refuses(error) ==
  /\ Ends("completed",
          [object |-> [snapshotId |-> [string |-> <<>>], clean |-> [boolean |-> FALSE],
                       error |-> Text(error)]], Undefined)
  /\ UNCHANGED rows

Throws(error) == Ends("failed", Undefined, Text(error)) /\ UNCHANGED rows

CaptureAt(pc) == capture.pc = pc /\ UNCHANGED <<repo, rollback, moves>>

Goes(next) == capture' = next /\ UNCHANGED <<rows, steps>>

CaptureStarts ==
  /\ MayRun(1) /\ capture.pc = "idle"
  /\ steps' = [steps EXCEPT ![1].status = "running", ![1].attempts = @ + 1]
  /\ capture' = [NoCapture EXCEPT !.pc = "root"]
  /\ seen' = [seen EXCEPT !.disturbed = FALSE]
  /\ UNCHANGED <<repo, rows, rollback, moves, faults>>

ReadRoot ==
  /\ CaptureAt("root") /\ UNCHANGED seen
  /\ \/ /\ Fault \/ (repo.root \in {"absent", "none"} /\ NoFault)
        /\ Refuses("NOT_A_GIT_REPOSITORY")
     \/ repo.root = "parent" /\ NoFault /\ Throws("GIT_REPOSITORY_ROOT_REQUIRED")
     \/ HasRepo /\ NoFault /\ Goes([capture EXCEPT !.pc = "head"])

ReadHead ==
  /\ CaptureAt("head") /\ UNCHANGED seen
  /\ \/ /\ GitFails \/ (HasRepo /\ HeadOf(repo) = 0 /\ NoFault)
        /\ Refuses("GIT_NO_INITIAL_COMMIT")
     \/ /\ HasRepo /\ HeadOf(repo) # 0 /\ NoFault
        /\ Goes([capture EXCEPT !.pc = "branch", !.head = HeadOf(repo)])

ReadBranch ==
  /\ CaptureAt("branch") /\ UNCHANGED seen
  /\ \/ GitFails /\ Throws("GIT_BRANCH_UNVERIFIED")
     \/ HasRepo /\ NoFault /\ Goes([capture EXCEPT !.pc = "status", !.branch = repo.branch])

storeTaskGitSnapshot(id, snap) == rows' = [i \in DOMAIN rows \cup {id} |->
                                             IF i = id THEN snap ELSE rows[i]]

Clean_TrackedOnly == repo.dirt \cap {"staged", "edited"} = {}
Clean == repo.dirt = {}

\* The status of the worktree decides, and the row is stored in the same turn.
ReadStatus ==
  /\ CaptureAt("status")
  /\ \/ GitFails /\ Throws("GIT_STATUS_UNVERIFIED") /\ UNCHANGED seen
     \/ /\ HasRepo /\ ~Clean /\ NoFault /\ UNCHANGED seen
        /\ Refuses("GIT_DIRTY_SNAPSHOT_UNSUPPORTED")
     \/ /\ HasRepo /\ Clean /\ NoFault
        /\ storeTaskGitSnapshot(NewId, [path |-> "__task_snapshot__", cwd |-> "here",
                                        kind |-> "clean_git_snapshot",
                                        head |-> capture.head, branch |-> capture.branch])
        /\ Ends("completed",
                [object |-> [snapshotId |-> Text(NewId), clean |-> [boolean |-> TRUE]]],
                Undefined)
        /\ seen' = IF seen.disturbed THEN seen
                   ELSE [seen EXCEPT !.quiet = [i \in {NewId} |-> Visible(repo)]]

captureTaskSnapshot ==
  CaptureStarts \/ ReadRoot \/ ReadHead \/ ReadBranch \/ ReadStatus

-----------------------------------------------------------------------------
(***************************************************************************)
(* Step 2: its arguments are resolved, then rollbackTaskSnapshot checks,   *)
(* resets, cleans and verifies.                                            *)
(***************************************************************************)
\* Step 2 may be tried, and no rollback is in flight.
StepTwoReady == MayRun(2) /\ rollback.pc \in Resting

\* The step's arguments, resolved in place, and what was declared.  The handler
\* passes on a snapshotId that is a string, and "" for any other.
StepTwoRuns(arguments, declared) ==
  /\ StepTwoReady
  /\ steps' = [steps EXCEPT ![2].arguments = arguments, ![2].templateArguments = declared,
                            ![2].status = "running", ![2].attempts = @ + 1]
  /\ LET id == arguments.object.snapshotId
     IN rollback' = [NoRollback EXCEPT !.pc = "find",
                                       !.id = IF IsString(id) THEN id.string ELSE <<>>]
  /\ seen' = [seen EXCEPT !.during = 0, !.resetOn = "none"]
  /\ UNCHANGED <<repo, rows, capture, moves, faults>>

StepTwoUnresolved ==
  /\ StepTwoReady
  /\ steps' = [steps EXCEPT ![2].status = "failed", ![2].error = Text("missing")]
  /\ UNCHANGED <<repo, rows, capture, rollback, moves, faults, seen>>

RollbackAt(pc) == rollback.pc = pc /\ UNCHANGED <<rows, capture, moves>>

RollbackThrows(error) ==
  /\ rollback' = [rollback EXCEPT !.pc = "threw"]
  /\ steps' = Settle(2, "failed", Undefined, Text(error))

Continues(next) == rollback' = next /\ UNCHANGED steps

\* A lookup that answers with whatever snapshot of the directory is there.
findTaskGitSnapshot_AnyOfDirectory(id) ==
  LET mine == {i \in DOMAIN rows : rows[i].kind = "clean_git_snapshot" /\ rows[i].cwd = "here"}
  IN IF mine = {} THEN NoSnap ELSE rows[CHOOSE i \in mine : TRUE]

findTaskGitSnapshot(id) ==
  IF \E i \in DOMAIN rows : id = <<[text |-> i]>>
  THEN rows[CHOOSE i \in DOMAIN rows : id = <<[text |-> i]>>] ELSE NoSnap

\* The row proves an exact clean state of this directory.
Verified(snap) ==
  /\ snap.path = "__task_snapshot__" /\ snap.kind = "clean_git_snapshot"
  /\ snap.cwd = "here"

FindSnapshot ==
  /\ RollbackAt("find") /\ NoFault /\ UNCHANGED <<repo, seen>>
  /\ LET snap == findTaskGitSnapshot(rollback.id)
     IN IF Verified(snap)
        THEN Continues([rollback EXCEPT !.pc = "root", !.snap = snap])
        ELSE RollbackThrows("GIT_SNAPSHOT_UNVERIFIED")

CheckRoot ==
  /\ RollbackAt("root") /\ UNCHANGED <<repo, seen>>
  /\ \/ GitFails /\ RollbackThrows("GIT_SNAPSHOT_REPOSITORY_MISMATCH")
     \/ HasRepo /\ NoFault /\ Continues([rollback EXCEPT !.pc = "branch"])

CheckBranch ==
  /\ RollbackAt("branch") /\ UNCHANGED <<repo, seen>>
  /\ \/ GitFails /\ RollbackThrows("GIT_BRANCH_UNVERIFIED")
     \/ /\ HasRepo /\ NoFault
        /\ IF repo.branch = rollback.snap.branch
           THEN Continues([rollback EXCEPT !.pc = "target"])
           ELSE RollbackThrows("GIT_SNAPSHOT_BRANCH_MISMATCH")

CheckTarget ==
  /\ RollbackAt("target") /\ UNCHANGED <<repo, seen>>
  /\ \/ GitFails /\ RollbackThrows("GIT_SNAPSHOT_MISSING_COMMIT")
     \/ /\ HasRepo /\ NoFault
        /\ IF rollback.snap.head \in repo.objects
           THEN Continues([rollback EXCEPT !.pc = "status"])
           ELSE RollbackThrows("GIT_SNAPSHOT_MISSING_COMMIT")

CheckStatus ==
  /\ RollbackAt("status") /\ UNCHANGED <<repo, seen>>
  /\ \/ GitFails /\ RollbackThrows("GIT_STATUS_UNVERIFIED")
     \/ HasRepo /\ NoFault /\ Continues([rollback EXCEPT !.pc = "reset"])

\* git reset --hard moves the branch that is checked out now, whichever it is.
ResetTo(head) ==
  LET kept == [repo EXCEPT !.dirt = @ \ {"staged", "edited"}]
  IN IF repo.branch = Detached THEN [kept EXCEPT !.at = head]
     ELSE [kept EXCEPT !.tips[repo.branch] = head]

Reset ==
  /\ RollbackAt("reset")
  /\ LET possible == HasRepo /\ rollback.snap.head \in repo.objects
     IN \/ /\ possible /\ repo' = ResetTo(rollback.snap.head)
           /\ seen' = [seen EXCEPT !.resetOn = repo.branch]
           /\ \/ NoFault /\ Continues([rollback EXCEPT !.pc = "clean"])
              \/ Fault /\ RollbackThrows("git reset --hard failed")
        \/ /\ (~possible /\ NoFault) \/ Fault
           /\ RollbackThrows("git reset --hard failed") /\ UNCHANGED <<repo, seen>>

\* git clean -fd leaves a repository inside the worktree alone.
CleanUntracked == [repo EXCEPT !.dirt = @ \ {"untracked"}]

GitClean ==
  /\ RollbackAt("clean") /\ UNCHANGED seen
  /\ \/ /\ HasRepo /\ repo' = CleanUntracked
        /\ \/ NoFault /\ Continues([rollback EXCEPT !.pc = "verifyHead"])
           \/ Fault /\ RollbackThrows("git clean -fd failed")
     \/ GitFails /\ RollbackThrows("git clean -fd failed") /\ UNCHANGED repo

\* The three observations are all made before any of them is judged.
VerifyHead ==
  /\ RollbackAt("verifyHead") /\ UNCHANGED <<repo, seen>>
  /\ \/ GitFails /\ Continues([rollback EXCEPT !.pc = "verifyBranch"])
     \/ /\ HasRepo /\ NoFault
        /\ Continues([rollback EXCEPT !.pc = "verifyBranch",
                                      !.headOk = HeadOf(repo) = rollback.snap.head])

\* A symbolic-ref that fails reads as a detached HEAD.
BranchMatches_Unchecked(observed) == TRUE
BranchMatches(observed) == observed = rollback.snap.branch

VerifyBranch ==
  /\ RollbackAt("verifyBranch") /\ UNCHANGED <<repo, seen>>
  /\ \/ /\ GitFails
        /\ Continues([rollback EXCEPT !.pc = "verifyStatus", !.branchOk = BranchMatches(Detached)])
     \/ /\ HasRepo /\ NoFault
        /\ Continues([rollback EXCEPT !.pc = "verifyStatus", !.branchOk = BranchMatches(repo.branch)])

VerifyStatus ==
  /\ RollbackAt("verifyStatus") /\ UNCHANGED <<repo, seen>>
  /\ \/ GitFails /\ RollbackThrows("GIT_ROLLBACK_VERIFICATION_FAILED")
     \/ /\ HasRepo /\ NoFault
        /\ IF rollback.headOk /\ rollback.branchOk /\ Clean
           THEN /\ rollback' = [rollback EXCEPT !.pc = "succeeded"]
                /\ steps' = Settle(2, "completed", [object |-> [clean |-> [boolean |-> TRUE]]],
                                   Undefined)
           ELSE RollbackThrows("GIT_ROLLBACK_VERIFICATION_FAILED")

rollbackTaskSnapshot ==
  \/ FindSnapshot \/ CheckRoot \/ CheckBranch \/ CheckTarget \/ CheckStatus
  \/ Reset \/ GitClean \/ VerifyHead \/ VerifyBranch \/ VerifyStatus

-----------------------------------------------------------------------------
Unheard == [i \in 1..Len(steps) |-> [steps[i] EXCEPT !.status = IF @ = "running" THEN "outcome_unknown" ELSE @]]

\* The step's own deadline ends the waiting, not the subprocesses.
StepTimesOut ==
  /\ \E i \in 1..Len(steps) : steps[i].status = "running"
  /\ Fault /\ steps' = Unheard
  /\ UNCHANGED <<repo, rows, capture, rollback, moves, seen>>

\* The server dies between two subprocesses; the next one finds the receipts open.
Crash ==
  /\ Fault /\ steps' = Unheard
  /\ capture' = NoCapture /\ rollback' = NoRollback
  /\ UNCHANGED <<repo, rows, moves, seen>>

\* Everything but an attempt of step 2.
SnapshotStep ==
  \/ GitTool \/ Outside
  \/ captureTaskSnapshot \/ AppendStep \/ rollbackTaskSnapshot
  \/ StepTimesOut \/ Crash

\* What a snapshot promises does not depend on how the arguments of step 2 come
\* about: here they may be anything, or not be resolved.
AnyStepTwo == StepTwoUnresolved \/ \E arguments, declared : StepTwoRuns(arguments, declared)

SnapshotSpec == SnapshotInit /\ [][SnapshotStep \/ AnyStepTwo]_snapshotVars

-----------------------------------------------------------------------------
RollbackSucceeds == rollback.pc # "succeeded" /\ rollback'.pc = "succeeded"

(***************************************************************************)
(* A capture during which nobody touched the repository, followed at any   *)
(* later time by a rollback during which nobody touched it, is a round     *)
(* trip: when the rollback reports success the branch, its commit and the  *)
(* worktree are what the capture found, so that nothing was there that the *)
(* reset or the clean has destroyed (task-snapshot-handler.ts, 78 and      *)
(* 125-136).                                                               *)
(***************************************************************************)
RoundTripRestores ==
  [][\A i \in DOMAIN seen.quiet :
       RollbackSucceeds /\ seen.during = 0 /\ rollback.id = <<[text |-> i]>>
         => Visible(repo) = seen.quiet[i]]_snapshotVars

(***************************************************************************)
(* git reset --hard moves whatever branch is checked out when it runs, and *)
(* the branch was compared several subprocesses earlier.  If one change    *)
(* by another party falls into the rollback of a snapshot of a named       *)
(* branch, a reported success still means that this branch was the one     *)
(* reset (task-snapshot-handler.ts, 110-115 and 129-135).                  *)
(***************************************************************************)
OneMoveDetected ==
  [][RollbackSucceeds /\ seen.during <= 1 /\ rollback.snap.branch # Detached
       => seen.resetOn = rollback.snap.branch]_snapshotVars

=============================================================================
