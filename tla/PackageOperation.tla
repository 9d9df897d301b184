--------------------------- MODULE PackageOperation ---------------------------
(***************************************************************************)
(* The tools that run subprocesses: managePackage of                       *)
(* src/services/package/package-service.ts with its package_snapshots      *)
(* rows, and the shell commands of src/services/shell, all of which start  *)
(* their processes through src/services/spawn.ts.                          *)
(*                                                                         *)
(* A package call captures the manager's manifest files one by one,        *)
(* inserts a row, runs the package manager, asks it whether the package is *)
(* there, and either commits the row or puts the captured manifests back.  *)
(* Nothing serialises calls: several run in the same working directory,    *)
(* and a timeout, a cancellation, a failing database or a crash may fall   *)
(* between any two steps.  A shell command is one subprocess and its       *)
(* result; it may change manifests too.  A version number stands for a     *)
(* file's bytes.                                                           *)
(***************************************************************************)
EXTENDS Naturals, FiniteSets

CONSTANTS Op,         \* the calls
          Manifests,  \* how many manifest names a manager has, in one directory
          Present,    \* the ones that exist at first
          Job,        \* for each call, the managers and actions it may name
          ExecEnabled, \* HOOSHIX_EXEC_ENABLED
          MaxWrites,  \* bound on the writes of subprocesses
          MaxFaults   \* bound on database failures and crashes

\* "run" is a command line for the shell or for exec; its manager field says which.
Action == {"install", "remove", "update", "run"}

File == 1..Manifests

ASSUME BoundsAssumption ==
  ExecEnabled \in BOOLEAN /\ Manifests \in Nat /\ MaxWrites \in Nat /\ MaxFaults \in Nat
ASSUME JobAssumption ==
  \A o \in Op : Job[o] # {} /\ Job[o] \subseteq [manager : STRING, action : Action]

VARIABLES disk,    \* the manifests: a version per file, or Absent
          row,     \* status of each call's package_snapshots row, or "none"
          pc,      \* where each call stands
          job,     \* manager and action of each call
          snap,    \* snapshot.files of each call: a version, Absent, or Unseen
          todo,    \* the files the current loop of a call still has to visit
          child,   \* each call's latest subprocess
          wrote,   \* history: the files a call's compensation has written
          drift,   \* history: the files others changed since a call restored them
          writes, faults

calls == <<pc, job, snap, todo>>
history == <<wrote, drift>>
vars == <<disk, row, calls, child, history, writes, faults>>

Absent == 0
Unseen == MaxWrites + 2
Version == 0..(MaxWrites + 1)

Ended == {"ok", "failed", "gone"}
Place == {"idle", "capture", "run", "verify", "compensate", "restoring", "checking"} \cup Ended
Status == {"none", "created", "committed", "outcome_unknown", "manifest_restored",
           "manifest_restore_failed", "environment_reconciliation_required"}

\* A subprocess: what it was started for, whether it still runs, whether the
\* termination left descendants alive, its exit code ("none": ended without one)
\* and the flag decorate leaves on its result.
Process == [phase : {"none", "run", "verify"}, alive : BOOLEAN, stray : BOOLEAN,
            exit : {"zero", "nonzero", "none"}, flag : {"none", "timedOut", "isCanceled"}]

NoProcess == [phase |-> "none", alive |-> FALSE, stray |-> FALSE, exit |-> "none", flag |-> "none"]

NoSnapshot == [f \in File |-> Unseen]

TypeOK ==
  /\ disk \in [File -> Version] /\ row \in [Op -> Status] /\ pc \in [Op -> Place]
  /\ DOMAIN job = Op /\ \A o \in Op : job[o] \in Job[o]
  /\ snap \in [Op -> [File -> Version \cup {Unseen}]] /\ todo \in [Op -> SUBSET File]
  /\ child \in [Op -> Process]
  /\ wrote \in [Op -> SUBSET File] /\ drift \in [Op -> SUBSET File]
  /\ writes \in 0..MaxWrites /\ faults \in 0..MaxFaults
-------------------------------------------------------------------------------
(* The tables.                                                             *)

\* Managers without a manifest contract: they change the machine, not the workspace.
SNAPSHOT_FILES(m) ==
  IF m \in {"gem", "winget", "choco", "brew", "apt", "dnf", "pacman", "zypper"} THEN {} ELSE File

\* The loops visit the files in the order of the table.
Turn(o, f) == f \in todo[o] /\ \A g \in todo[o] : f <= g

\* dotnet's entries are globs: only files that exist match.
Globs(m) == m = "dotnet"

commandFor(m, a) ==
  CASE m = "gradle" -> FALSE
    [] m = "maven" -> a = "install"
    [] m = "go" -> a # "remove"
    [] OTHER -> TRUE

verificationCommandFor(m) == m \notin {"go", "maven", "gradle"}
-------------------------------------------------------------------------------
(* Subprocesses: spawn.                                                    *)

spawn(phase) == [phase |-> phase, alive |-> TRUE, stray |-> FALSE, exit |-> "none", flag |-> "none"]

exited(c, code, stray) == [c EXCEPT !.alive = FALSE, !.exit = code, !.stray = stray]

aborted(c, flag, stray) == [c EXCEPT !.alive = FALSE, !.flag = flag, !.stray = c.stray \/ stray]

\* Its agent is gone.
orphaned(c) == [c EXCEPT !.alive = FALSE, !.stray = c.stray \/ c.alive]

\* A process ends by itself: with an exit code, or without one when it is killed by
\* a signal or crosses maxBuffer, and then its descendants may live on.
Exits(o) ==
  /\ pc[o] \in {"run", "verify"} /\ child[o].alive
  /\ \E code \in {"zero", "nonzero", "none"}, stray \in BOOLEAN :
       /\ stray => code = "none" /\ child[o].phase = "run"
       /\ child' = [child EXCEPT ![o] = exited(@, code, stray)]
  /\ UNCHANGED <<disk, row, calls, history, writes, faults>>

\* The timer, or the caller's signal, aborts the controller: the process tree is
\* killed as well as can be.  The timer also wins over a process that has ended, and
\* over a cancellation, while the result is not delivered yet: decorate.
Interrupt_VerifyUntimed(o, flag) ==
  /\ pc[o] = "run" /\ child[o].flag # "timedOut" /\ flag # child[o].flag
  /\ \E stray \in BOOLEAN :
       /\ stray => child[o].alive /\ child[o].phase = "run"
       /\ child' = [child EXCEPT ![o] = aborted(@, flag, stray)]
  /\ UNCHANGED <<disk, row, calls, history, writes, faults>>

Interrupt(o, flag) ==
  /\ pc[o] \in {"run", "verify"} /\ child[o].flag # "timedOut" /\ flag # child[o].flag
  /\ \E stray \in BOOLEAN :
       /\ stray => child[o].alive /\ child[o].phase = "run"
       /\ child' = [child EXCEPT ![o] = aborted(@, flag, stray)]
  /\ UNCHANGED <<disk, row, calls, history, writes, faults>>

\* A package manager, a command, or a descendant that outlived it, rewrites or removes
\* a manifest.  The verification commands only list.
ProcessWrites(o, f) ==
  /\ child[o].phase = "run" /\ (child[o].alive \/ child[o].stray)
  /\ SNAPSHOT_FILES(job[o].manager) # {} /\ writes < MaxWrites
  /\ \E v \in {Absent, writes + 2} : disk[f] # v /\ disk' = [disk EXCEPT ![f] = v]
  /\ drift' = [p \in Op |-> IF f \in wrote[p] THEN drift[p] \cup {f} ELSE drift[p]]
  /\ writes' = writes + 1
  /\ UNCHANGED <<row, calls, child, wrote, faults>>
-------------------------------------------------------------------------------
(* Rows: insertPackageSnapshot and updateSnapshot.                         *)

Goto(o, place) == pc' = [pc EXCEPT ![o] = place] /\ UNCHANGED <<job, snap>>

updateSnapshot(o, status) == row' = [row EXCEPT ![o] = status] /\ UNCHANGED faults

\* An UPDATE that throws leaves the row as it was.
UpdateThrows == faults < MaxFaults /\ faults' = faults + 1 /\ UNCHANGED row

\* The last UPDATE of a call, on a path where the call fails whether it throws or not.
FailWith(o, status) ==
  /\ updateSnapshot(o, status) \/ UpdateThrows
  /\ Goto(o, "failed") /\ todo' = [todo EXCEPT ![o] = {}]

\* Inside the outer try: a failing UPDATE is caught there, like any other failure.
Commit(o) ==
  /\ \/ updateSnapshot(o, "committed") /\ Goto(o, "ok")
     \/ UpdateThrows /\ Goto(o, "compensate")
  /\ UNCHANGED <<todo, child>>
-------------------------------------------------------------------------------
(* managePackage.                                                          *)

\* Everything the call checks before it captures anything: the policy, the admin
\* permission, the name, the workspace and the working directory refuse as they may.
managePackage(o, j) ==
  /\ pc[o] = "idle" /\ j.action # "run"
  /\ \/ /\ commandFor(j.manager, j.action)
        /\ pc' = [pc EXCEPT ![o] = "capture"]
        /\ todo' = [todo EXCEPT ![o] = SNAPSHOT_FILES(j.manager)]
     \/ /\ pc' = [pc EXCEPT ![o] = "failed"]
        /\ UNCHANGED todo
  /\ job' = [job EXCEPT ![o] = j]
  /\ UNCHANGED <<disk, row, snap, child, history, writes, faults>>

\* One manifest, as it is when it is read; a glob has no entry for an absent file.
captureSnapshotFile(o, f) ==
  /\ pc[o] = "capture" /\ Turn(o, f)
  /\ snap' = [snap EXCEPT ![o][f] =
                IF disk[f] = Absent /\ Globs(job[o].manager) THEN Unseen ELSE disk[f]]
  /\ todo' = [todo EXCEPT ![o] = @ \ {f}]
  /\ UNCHANGED <<disk, row, pc, job, child, history, writes, faults>>

\* A manifest that is no plain file, too large, or changes under the read, and an
\* INSERT that throws: the call fails and leaves no row.
CaptureFails(o) ==
  /\ pc[o] = "capture"
  /\ pc' = [pc EXCEPT ![o] = "failed"] /\ todo' = [todo EXCEPT ![o] = {}]
  /\ snap' = [snap EXCEPT ![o] = NoSnapshot]
  /\ UNCHANGED <<disk, row, job, child, history, writes, faults>>

createPackageSnapshot_NoRow(o) ==
  /\ pc[o] = "capture" /\ todo[o] = {}
  /\ Goto(o, "run") /\ child' = [child EXCEPT ![o] = spawn("run")]
  /\ UNCHANGED <<row, todo, faults, disk, history, writes>>

\* The row goes in, and the subprocess starts without another I/O in between; or
\* spawn itself throws, with effectOutcomeKnown still false.
createPackageSnapshot(o) ==
  /\ pc[o] = "capture" /\ todo[o] = {}
  /\ \/ /\ updateSnapshot(o, "created")
        /\ Goto(o, "run") /\ child' = [child EXCEPT ![o] = spawn("run")]
     \/ /\ updateSnapshot(o, "outcome_unknown") /\ Goto(o, "failed")
        /\ UNCHANGED child
  /\ UNCHANGED <<todo, disk, history, writes>>

effectOutcomeKnown(o) == child[o].flag = "none"

\* The package manager's result.
AfterRun(o) ==
  /\ pc[o] = "run" /\ job[o].action # "run" /\ ~child[o].alive
  /\ IF ~effectOutcomeKnown(o) THEN FailWith(o, "outcome_unknown") /\ UNCHANGED child
     ELSE IF child[o].exit # "zero"
     THEN Goto(o, "compensate") /\ UNCHANGED <<row, todo, child, faults>>
     ELSE IF ~verificationCommandFor(job[o].manager) THEN Commit(o)
     ELSE \/ Goto(o, "verify") /\ child' = [child EXCEPT ![o] = spawn("verify")]
             /\ UNCHANGED <<row, todo, faults>>
          \/ Goto(o, "compensate") /\ UNCHANGED <<row, todo, child, faults>>
  /\ UNCHANGED <<disk, history, writes>>

\* Whether the listing names the package is the package manager's affair; a listing
\* that failed or was cut off does not.
verified(o) ==
  {(job[o].action = "remove") # present :
     present \in IF child[o].exit = "zero" THEN BOOLEAN ELSE {FALSE}}

\* The verification's result.
AfterVerify_TimeoutIsAbsence(o) ==
  /\ pc[o] = "verify" /\ ~child[o].alive
  /\ \E v \in verified(o) : IF v THEN Commit(o)
                            ELSE Goto(o, "compensate") /\ UNCHANGED <<row, todo, child, faults>>
  /\ UNCHANGED <<disk, history, writes>>

AfterVerify(o) ==
  /\ pc[o] = "verify" /\ ~child[o].alive
  /\ IF ~effectOutcomeKnown(o) THEN FailWith(o, "outcome_unknown") /\ UNCHANGED child
     ELSE \E v \in verified(o) : IF v THEN Commit(o)
                                 ELSE Goto(o, "compensate") /\ UNCHANGED <<row, todo, child, faults>>
  /\ UNCHANGED <<disk, history, writes>>
-------------------------------------------------------------------------------
(* The catch: restorePackageSnapshot.                                      *)

entries_OnlyExisting(o) == {f \in File : snap[o][f] \notin {Unseen, Absent}}

\* snapshot.files
entries(o) == {f \in File : snap[o][f] # Unseen}

\* Nothing was captured: nothing to restore.  Otherwise every entry is validated
\* before the first write, and a target that is no plain file fails the restore.
Compensate(o) ==
  /\ pc[o] = "compensate"
  /\ IF entries(o) = {} THEN FailWith(o, "environment_reconciliation_required")
     ELSE \/ /\ Goto(o, "restoring") /\ todo' = [todo EXCEPT ![o] = entries(o)]
             /\ UNCHANGED <<row, faults>>
          \/ FailWith(o, "manifest_restore_failed")
  /\ UNCHANGED <<disk, child, history, writes>>

\* Every file in turn is removed, or replaced by a rename.
RestoreFile(o, f) ==
  /\ pc[o] = "restoring" /\ Turn(o, f)
  /\ disk' = [disk EXCEPT ![f] = snap[o][f]]
  /\ wrote' = [wrote EXCEPT ![o] = @ \cup {f}]
  /\ drift' = [p \in Op |-> IF p # o /\ f \in wrote[p] THEN drift[p] \cup {f} ELSE drift[p]]
  /\ IF todo[o] = {f} THEN Goto(o, "checking") /\ todo' = [todo EXCEPT ![o] = entries(o)]
     ELSE UNCHANGED <<pc, job, snap>> /\ todo' = [todo EXCEPT ![o] = @ \ {f}]
  /\ UNCHANGED <<row, child, writes, faults>>

\* An I/O error of a write or of a read, in either loop.
RestoreThrows(o) ==
  /\ pc[o] \in {"restoring", "checking"}
  /\ FailWith(o, "manifest_restore_failed")
  /\ UNCHANGED <<disk, child, history, writes>>

\* Then every file is read back; the last one that agrees closes the row, and an
\* UPDATE that throws here is caught as a failed restore.
CheckFile(o, f) ==
  /\ pc[o] = "checking" /\ Turn(o, f)
  /\ IF disk[f] # snap[o][f] THEN FailWith(o, "manifest_restore_failed")
     ELSE IF todo[o] # {f}
     THEN todo' = [todo EXCEPT ![o] = @ \ {f}] /\ UNCHANGED <<row, pc, job, snap, faults>>
     ELSE /\ \/ updateSnapshot(o, "manifest_restored")
             \/ /\ faults < MaxFaults /\ faults' = faults + 1
                /\ row' = [row EXCEPT ![o] = "manifest_restore_failed"]
          /\ Goto(o, "failed") /\ todo' = [todo EXCEPT ![o] = {}]
  /\ UNCHANGED <<disk, child, history, writes>>

\* The agent dies: every call is lost, and the subprocesses, which are detached, may
\* go on.  Nothing reads the rows when it starts again.
Crash ==
  /\ faults < MaxFaults /\ faults' = faults + 1
  /\ \E o \in Op : pc[o] \notin Ended \cup {"idle"}
  /\ pc' = [o \in Op |-> IF pc[o] \in Ended \cup {"idle"} THEN pc[o] ELSE "gone"]
  /\ todo' = [o \in Op |-> {}]
  /\ snap' = [o \in Op |-> IF row[o] = "none" THEN NoSnapshot ELSE snap[o]]
  /\ child' = [o \in Op |-> orphaned(child[o])]
  /\ UNCHANGED <<disk, row, job, history, writes>>
-------------------------------------------------------------------------------
(* Shell commands.                                                         *)

\* A call that passes its checks starts one process; one that does not fails.
Run(o, j, mayRun) ==
  /\ pc[o] = "idle" /\ j.action = "run"
  /\ \/ /\ mayRun
        /\ pc' = [pc EXCEPT ![o] = "run"] /\ child' = [child EXCEPT ![o] = spawn("run")]
     \/ /\ pc' = [pc EXCEPT ![o] = "failed"] /\ UNCHANGED child
  /\ job' = [job EXCEPT ![o] = j]
  /\ UNCHANGED <<disk, row, snap, todo, history, writes, faults>>

\* The workspace, the working directory, the policy and the validator may all refuse.
executeShellCommand(o, j) == j.manager = "shell" /\ Run(o, j, TRUE)

\* exec has one gate, and refuses a shell it does not know or a missing directory.
executeUnrestrictedCommand(o, j) == j.manager = "exec" /\ Run(o, j, ExecEnabled)

\* A command that exited has a result, whatever its exit code; a command that was cut
\* short, or ended without an exit code, has none.
AfterCommand(o) ==
  /\ pc[o] = "run" /\ job[o].action = "run" /\ ~child[o].alive
  /\ Goto(o, IF child[o].flag = "none" /\ child[o].exit # "none" THEN "ok" ELSE "failed")
  /\ UNCHANGED <<disk, row, todo, child, history, writes, faults>>
-------------------------------------------------------------------------------
Init ==
  /\ disk = [f \in File |-> IF f \in Present THEN 1 ELSE Absent]
  /\ row = [o \in Op |-> "none"] /\ pc = [o \in Op |-> "idle"]
  /\ job = [o \in Op |-> CHOOSE j \in Job[o] : TRUE]
  /\ snap = [o \in Op |-> NoSnapshot] /\ todo = [o \in Op |-> {}]
  /\ child = [o \in Op |-> NoProcess]
  /\ wrote = [o \in Op |-> {}] /\ drift = [o \in Op |-> {}]
  /\ writes = 0 /\ faults = 0

\* What the agent itself goes on doing with a call once it has begun.
CallStep(o) ==
  \/ CaptureFails(o) \/ createPackageSnapshot(o)
  \/ AfterRun(o) \/ AfterCommand(o) \/ AfterVerify(o) \/ Compensate(o) \/ RestoreThrows(o)
  \/ \E f \in File : captureSnapshotFile(o, f) \/ RestoreFile(o, f) \/ CheckFile(o, f)

Next ==
  \/ \E o \in Op :
       \/ CallStep(o) \/ Exits(o)
       \/ \E j \in Job[o] : \/ managePackage(o, j)
                            \/ executeShellCommand(o, j) \/ executeUnrestrictedCommand(o, j)
       \/ \E flag \in {"timedOut", "isCanceled"} : Interrupt(o, flag)
       \/ \E f \in File : ProcessWrites(o, f)
  \/ Crash

\* The event loop goes on with every call, and the timer of a subprocess fires if
\* nothing else ends it.  The package managers themselves promise nothing.
Fairness == \A o \in Op : WF_vars(CallStep(o)) /\ WF_vars(Interrupt(o, "timedOut"))

Spec == Init /\ [][Next]_vars
FairSpec == Spec /\ Fairness
-------------------------------------------------------------------------------
(* Properties.                                                             *)

\* A call that was cut short, while its process ran or while the result was verified,
\* claims nothing: it does not succeed, it writes no manifest back, and its row does
\* not name an outcome.  The same holds of a command that ended without an exit code.
InterruptedClaimsNothing ==
  \A o \in Op :
    \/ child[o].flag # "none"
    \/ job[o].action = "run" /\ child[o].phase = "run" /\ child[o].exit = "none"
    => pc[o] # "ok" /\ wrote[o] = {} /\ row[o] \in {"none", "created", "outcome_unknown"}

\* What a closed row says holds.  "manifest_restored": every captured file holds the
\* captured bytes, or is absent if it was, unless somebody else changed it since.
\* "committed": the call put nothing back, unless the commit itself could not be
\* recorded.  "environment_reconciliation_required": there was nothing to put back.
StatusTellsTruth ==
  \A o \in Op :
    /\ row[o] = "manifest_restored" =>
         \A f \in File : snap[o][f] # Unseen /\ f \notin drift[o] => disk[f] = snap[o][f]
    /\ row[o] = "committed" => wrote[o] = {} /\ pc[o] = "ok"
    /\ row[o] = "environment_reconciliation_required" => \A f \in File : snap[o][f] = Unseen

\* No subprocess, not even one that outlives the agent, changes a manifest before the
\* row that holds the captured manifests is in the database.
EffectHasSnapshot ==
  \A o \in Op : child[o].phase # "none" /\ job[o].action # "run" =>
    /\ row[o] # "none"
    /\ ~Globs(job[o].manager) => \A f \in SNAPSHOT_FILES(job[o].manager) : snap[o][f] # Unseen

\* A call that has begun ends, or dies with the agent, whatever its subprocesses do.
OperationEnds ==
  \A o \in Op : pc[o] \notin Ended \cup {"idle"} ~> pc[o] \in Ended

================================================================================
