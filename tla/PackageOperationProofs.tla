----------------------- MODULE PackageOperationProofs -----------------------
(***************************************************************************)
(* Proofs about PackageOperation, for any set of calls and jobs, any number*)
(* of manifests and any bound on writes and faults.                        *)
(***************************************************************************)
EXTENDS PackageOperation, TLAPS

Captured(o) ==
  ~Globs(job[o].manager) => \A f \in SNAPSHOT_FILES(job[o].manager) \ todo[o] : snap[o][f] # Unseen

\* Before the subprocess: no row, no process, nothing written back.
Begins(o) ==
  /\ pc[o] \in {"idle", "capture"} =>
       row[o] = "none" /\ child[o].phase = "none" /\ child[o].flag = "none" /\ wrote[o] = {}
  /\ pc[o] = "capture" => job[o].action # "run" /\ Captured(o)

\* A command line has neither a row nor a compensation.
Commands(o) ==
  /\ job[o].action = "run" => row[o] = "none" /\ wrote[o] = {}
  /\ pc[o] = "verify" => job[o].action # "run"
  /\ pc[o] = "ok" /\ job[o].action = "run" => child[o].exit # "none"

\* While the subprocesses run the row is open, and nothing has been put back.
Works(o) ==
  /\ pc[o] \in {"run", "verify"} =>
       wrote[o] = {} /\ row[o] \in {"none", "created"} /\ child[o].phase # "none"
  /\ pc[o] \in {"compensate", "restoring", "checking"} =>
       child[o].flag = "none" /\ job[o].action # "run" /\ row[o] = "created"
  /\ row[o] = "none" => wrote[o] = {}

\* A process cut short is the last thing the call did.
Cut(o) ==
  child[o].flag # "none" =>
    /\ pc[o] \in {"run", "verify", "failed", "gone"} /\ wrote[o] = {}
    /\ row[o] \in {"none", "created", "outcome_unknown"}

\* What a closed row has behind it, and how far the two loops of the restore are.
Closes(o) ==
  /\ row[o] = "committed" => pc[o] = "ok" /\ wrote[o] = {}
  /\ row[o] = "manifest_restored" => pc[o] = "failed" /\ entries(o) \subseteq wrote[o]
  /\ row[o] = "environment_reconciliation_required" => pc[o] = "failed" /\ entries(o) = {}
  /\ pc[o] = "restoring" => todo[o] \subseteq entries(o) /\ entries(o) \ todo[o] \subseteq wrote[o]
  /\ pc[o] = "checking" => entries(o) \subseteq wrote[o]

\* The captured manifests are in the database before a package manager starts.
Snapshot(o) ==
  child[o].phase # "none" /\ job[o].action # "run" =>
    /\ row[o] # "none"
    /\ ~Globs(job[o].manager) => \A f \in SNAPSHOT_FILES(job[o].manager) : snap[o][f] # Unseen

Call(o) == Begins(o) /\ Commands(o) /\ Works(o) /\ Cut(o) /\ Closes(o) /\ Snapshot(o)

\* A file that was put back holds its captured bytes until somebody else changes it.
Restored == \A o \in Op : \A f \in wrote[o] \ drift[o] : disk[f] = snap[o][f]

IInv == TypeOK /\ (\A o \in Op : Call(o)) /\ Restored
-----------------------------------------------------------------------------
(* Types. *)

\* No version of a file is the mark of an entry that was not captured.
LEMMA VersionSeen == Unseen \notin Version
BY BoundsAssumption DEF Unseen, Version

\* What spawn, an exit, an abort and a crash make of a process is a process.
LEMMA ProcessTypes ==
  ASSUME NEW c \in Process
  PROVE  /\ \A ph \in {"run", "verify"} : spawn(ph) \in Process
         /\ \A code \in {"zero", "nonzero", "none"}, s \in BOOLEAN : exited(c, code, s) \in Process
         /\ \A fl \in {"timedOut", "isCanceled"}, s \in BOOLEAN : aborted(c, fl, s) \in Process
         /\ orphaned(c) \in Process
BY Zenon DEF Process, spawn, exited, aborted, orphaned

\* The fields they leave alone and the ones they set.
LEMMA ProcessFields ==
  ASSUME NEW c \in Process
  PROVE  /\ \A ph \in {"run", "verify"} :
              spawn(ph).phase = ph /\ spawn(ph).flag = "none" /\ spawn(ph).exit = "none"
         /\ \A code, s : exited(c, code, s).phase = c.phase /\ exited(c, code, s).flag = c.flag
         /\ \A fl, s : /\ aborted(c, fl, s).phase = c.phase /\ aborted(c, fl, s).exit = c.exit
                       /\ aborted(c, fl, s).flag = fl
         /\ orphaned(c).phase = c.phase /\ orphaned(c).exit = c.exit /\ orphaned(c).flag = c.flag
BY DEF Process, spawn, exited, aborted, orphaned

\* The initial states are well typed.
LEMMA InitType == Init => TypeOK
<1> SUFFICES ASSUME Init PROVE TypeOK
  OBVIOUS
<1>1. NoProcess \in Process
  BY DEF NoProcess, Process
<1>2. DOMAIN job = Op /\ \A o \in Op : job[o] \in Job[o]
  BY JobAssumption DEF Init
<1>3. disk \in [File -> Version]
  BY BoundsAssumption DEF Init, Version, Absent
<1>4. snap \in [Op -> [File -> Version \cup {Unseen}]]
  BY DEF Init, NoSnapshot
<1>5. writes \in 0..MaxWrites /\ faults \in 0..MaxFaults
  BY BoundsAssumption DEF Init
<1>6. row \in [Op -> Status] /\ pc \in [Op -> Place]
  BY DEF Init, Status, Place
<1> QED BY <1>1, <1>2, <1>3, <1>4, <1>5, <1>6 DEF Init, TypeOK

\* A call that fails keeps its job and its snapshot.
LEMMA FailWithType ==
  ASSUME TypeOK, NEW o \in Op, NEW status \in Status, FailWith(o, status)
  PROVE  /\ row' \in [Op -> Status] /\ pc' \in [Op -> Place] /\ todo' \in [Op -> SUBSET File]
         /\ faults' \in 0..MaxFaults /\ UNCHANGED <<job, snap>>
<1>1. faults' \in 0..MaxFaults
  BY BoundsAssumption DEF FailWith, updateSnapshot, UpdateThrows, TypeOK
<1>2. row' \in [Op -> Status]
  BY DEF FailWith, updateSnapshot, UpdateThrows, TypeOK
<1> QED BY <1>1, <1>2, Zenon DEF FailWith, Goto, TypeOK, Place, Ended

\* A verified operation commits, or its UPDATE throws and the catch takes over.
LEMMA CommitType ==
  ASSUME TypeOK, NEW o \in Op, Commit(o)
  PROVE  /\ row' \in [Op -> Status] /\ pc' \in [Op -> Place]
         /\ faults' \in 0..MaxFaults /\ UNCHANGED <<job, snap, todo, child>>
<1>1. faults' \in 0..MaxFaults
  BY BoundsAssumption DEF Commit, updateSnapshot, UpdateThrows, TypeOK
<1>2. row' \in [Op -> Status]
  BY DEF Commit, updateSnapshot, UpdateThrows, TypeOK, Status
<1> QED BY <1>1, <1>2 DEF Commit, Goto, TypeOK, Place, Ended

\* The steps of the subprocesses are well typed.
LEMMA ProcessStepType ==
  ASSUME TypeOK, NEW o \in Op,
         \/ Exits(o) \/ \E flag \in {"timedOut", "isCanceled"} : Interrupt(o, flag)
         \/ \E f \in File : ProcessWrites(o, f)
  PROVE  TypeOK'
<1>1. CASE Exits(o)
  <2>0. PICK code \in {"zero", "nonzero", "none"}, s \in BOOLEAN :
          child' = [child EXCEPT ![o] = exited(child[o], code, s)]
    BY <1>1, Zenon DEF Exits
  <2>1. child[o] \in Process /\ exited(child[o], code, s) \in Process
    BY ProcessTypes, Zenon DEF TypeOK
  <2>2. child' \in [Op -> Process]
    BY <2>0, <2>1 DEF TypeOK
  <2> QED BY <1>1, <2>2 DEF Exits, TypeOK, calls, history
<1>2. CASE \E flag \in {"timedOut", "isCanceled"} : Interrupt(o, flag)
  <2>0. PICK fl \in {"timedOut", "isCanceled"}, s \in BOOLEAN :
          child' = [child EXCEPT ![o] = aborted(child[o], fl, s)]
    BY <1>2, Zenon DEF Interrupt
  <2>1. child[o] \in Process /\ aborted(child[o], fl, s) \in Process
    BY ProcessTypes, Zenon DEF TypeOK
  <2>2. child' \in [Op -> Process]
    BY <2>0, <2>1 DEF TypeOK
  <2> QED BY <1>2, <2>2 DEF Interrupt, TypeOK, calls, history
<1>3. ASSUME NEW f \in File, ProcessWrites(o, f) PROVE TypeOK'
  <2>1. disk' \in [File -> Version] /\ writes' \in 0..MaxWrites
    BY <1>3, BoundsAssumption DEF ProcessWrites, TypeOK, Version, Absent
  <2>2. drift' \in [Op -> SUBSET File]
    BY <1>3 DEF ProcessWrites, TypeOK
  <2> QED BY <1>3, <2>1, <2>2 DEF ProcessWrites, TypeOK, calls
<1> QED BY <1>1, <1>2, <1>3

\* The steps that begin a call are well typed.
LEMMA BeginStepType ==
  ASSUME TypeOK, NEW o \in Op, NEW j \in Job[o],
         managePackage(o, j) \/ executeShellCommand(o, j) \/ executeUnrestrictedCommand(o, j)
  PROVE  TypeOK'
<1>1. CASE managePackage(o, j)
  <2>1. pc' \in [Op -> Place] /\ todo' \in [Op -> SUBSET File]
    BY <1>1, Zenon DEF managePackage, TypeOK, Place, Ended, SNAPSHOT_FILES
  <2>2. DOMAIN job' = Op /\ \A p \in Op : job'[p] \in Job[p]
    BY <1>1 DEF managePackage, TypeOK
  <2> QED BY <1>1, <2>1, <2>2 DEF managePackage, TypeOK, history
<1>2. ASSUME NEW may \in BOOLEAN, Run(o, j, may) PROVE TypeOK'
  <2>1. pc' \in [Op -> Place]
    BY <1>2, Zenon DEF Run, TypeOK, Place, Ended
  <2>2. child' \in [Op -> Process]
    BY <1>2, ProcessTypes, Zenon DEF Run, TypeOK
  <2>3. DOMAIN job' = Op /\ \A p \in Op : job'[p] \in Job[p]
    BY <1>2 DEF Run, TypeOK
  <2> QED BY <1>2, <2>1, <2>2, <2>3 DEF Run, TypeOK, history
<1> QED BY <1>1, <1>2, BoundsAssumption, Zenon DEF executeShellCommand, executeUnrestrictedCommand

\* The capture and the row are well typed.
LEMMA CaptureStepType ==
  ASSUME TypeOK, NEW o \in Op,
         \/ CaptureFails(o) \/ createPackageSnapshot(o)
         \/ \E f \in File : captureSnapshotFile(o, f)
  PROVE  TypeOK'
<1>1. CASE CaptureFails(o)
  <2>1. snap' \in [Op -> [File -> Version \cup {Unseen}]]
    BY <1>1 DEF CaptureFails, TypeOK, NoSnapshot
  <2>2. pc' \in [Op -> Place] /\ todo' \in [Op -> SUBSET File]
    BY <1>1 DEF CaptureFails, TypeOK, Place, Ended
  <2> QED BY <1>1, <2>1, <2>2 DEF CaptureFails, TypeOK, history
<1>2. CASE createPackageSnapshot(o)
  <2>1. row' \in [Op -> Status] /\ pc' \in [Op -> Place] /\ UNCHANGED <<job, snap, faults>>
    BY <1>2, Zenon DEF createPackageSnapshot, updateSnapshot, Goto, TypeOK, Place, Ended, Status
  <2>2. child' \in [Op -> Process]
    BY <1>2, ProcessTypes, Zenon DEF createPackageSnapshot, TypeOK
  <2> QED BY <1>2, <2>1, <2>2 DEF createPackageSnapshot, TypeOK, history
<1>3. ASSUME NEW f \in File, captureSnapshotFile(o, f) PROVE TypeOK'
  <2>1. snap' \in [Op -> [File -> Version \cup {Unseen}]]
    BY <1>3 DEF captureSnapshotFile, TypeOK
  <2> QED BY <1>3, <2>1 DEF captureSnapshotFile, TypeOK, history
<1> QED BY <1>1, <1>2, <1>3

\* The results of the subprocesses are handled well typed.
LEMMA ResultStepType ==
  ASSUME TypeOK, NEW o \in Op, AfterRun(o) \/ AfterCommand(o) \/ AfterVerify(o)
  PROVE  TypeOK'
<1> DEFINE Rest == UNCHANGED <<disk, history, writes>>
           ToCompensate == Goto(o, "compensate") /\ UNCHANGED <<row, todo, child, faults>>
           ToVerify == /\ Goto(o, "verify") /\ child' = [child EXCEPT ![o] = spawn("verify")]
                       /\ UNCHANGED <<row, todo, faults>>
<1>1. ASSUME FailWith(o, "outcome_unknown"), UNCHANGED child, Rest PROVE TypeOK'
  <2>1. "outcome_unknown" \in Status
    BY DEF Status
  <2> QED BY <1>1, <2>1, FailWithType DEF TypeOK, history
<1>2. ASSUME Commit(o), Rest PROVE TypeOK'
  BY <1>2, CommitType DEF TypeOK, history
<1>3. ASSUME ToCompensate, Rest PROVE TypeOK'
  BY <1>3 DEF Goto, TypeOK, history, Place
<1>4. ASSUME ToVerify, Rest PROVE TypeOK'
  <2>1. child' \in [Op -> Process]
    BY <1>4, ProcessTypes, Zenon DEF TypeOK
  <2> QED BY <1>4, <2>1 DEF Goto, TypeOK, history, Place
<1>5. CASE AfterRun(o)
  BY <1>1, <1>2, <1>3, <1>4, <1>5 DEF AfterRun
<1>6. CASE AfterVerify(o)
  BY <1>1, <1>2, <1>3, <1>6 DEF AfterVerify
<1>7. CASE AfterCommand(o)
  BY <1>7 DEF AfterCommand, Goto, TypeOK, history, Place, Ended
<1> QED BY <1>5, <1>6, <1>7

\* The compensation is well typed.
LEMMA RestoreStepType ==
  ASSUME TypeOK, NEW o \in Op, Closes(o),
         \/ Compensate(o) \/ RestoreThrows(o)
         \/ \E f \in File : RestoreFile(o, f) \/ CheckFile(o, f)
  PROVE  TypeOK'
<1> DEFINE Rest == UNCHANGED <<disk, child, history, writes>>
<1>0. {"environment_reconciliation_required", "manifest_restore_failed"} \subseteq Status
  BY DEF Status
<1>1. ASSUME NEW st \in {"environment_reconciliation_required", "manifest_restore_failed"},
             FailWith(o, st), Rest
      PROVE  TypeOK'
  BY <1>0, <1>1, FailWithType DEF TypeOK, history
<1>2. CASE Compensate(o)
  <2>1. ASSUME Goto(o, "restoring"), todo' = [todo EXCEPT ![o] = entries(o)], UNCHANGED <<row, faults>>, Rest
        PROVE  TypeOK'
    BY <2>1 DEF Goto, TypeOK, history, Place, entries
  <2> QED BY <1>1, <1>2, <2>1 DEF Compensate
<1>3. CASE RestoreThrows(o)
  BY <1>1, <1>3 DEF RestoreThrows
<1>4. ASSUME NEW f \in File, RestoreFile(o, f) PROVE TypeOK'
  <2>1. f \in entries(o) /\ snap[o][f] \in Version
    BY <1>4 DEF RestoreFile, Turn, Closes, entries, TypeOK
  <2>2. disk' \in [File -> Version]
    BY <1>4, <2>1 DEF RestoreFile, TypeOK
  <2>3. wrote' \in [Op -> SUBSET File] /\ drift' \in [Op -> SUBSET File]
    BY <1>4 DEF RestoreFile, TypeOK
  <2>4. pc' \in [Op -> Place] /\ todo' \in [Op -> SUBSET File] /\ UNCHANGED <<job, snap>>
    <3>1. CASE todo[o] = {f}
      <4>1. Goto(o, "checking") /\ todo' = [todo EXCEPT ![o] = entries(o)]
        BY <1>4, <3>1, Zenon DEF RestoreFile
      <4>2. entries(o) \subseteq File
        BY DEF entries
      <4> QED BY <4>1, <4>2 DEF Goto, TypeOK, Place
    <3>2. CASE todo[o] # {f}
      <4>1. todo' = [todo EXCEPT ![o] = todo[o] \ {f}] /\ UNCHANGED <<pc, job, snap>>
        BY <1>4, <3>2, Zenon DEF RestoreFile
      <4> QED BY <4>1 DEF TypeOK
    <3> QED BY <3>1, <3>2
  <2> QED BY <1>4, <2>2, <2>3, <2>4, Zenon DEF RestoreFile, TypeOK
<1>5. ASSUME NEW f \in File, CheckFile(o, f) PROVE TypeOK'
  <2>1. CASE disk[f] # snap[o][f]
    BY <1>1, <1>5, <2>1 DEF CheckFile
  <2>2. CASE disk[f] = snap[o][f]
    <3>1. row' \in [Op -> Status]
      BY <1>5, <2>2, <1>0, Zenon DEF CheckFile, updateSnapshot, TypeOK, Status
    <3>2. faults' \in 0..MaxFaults
      BY <1>5, <2>2, BoundsAssumption DEF CheckFile, updateSnapshot, TypeOK
    <3>3. pc' \in [Op -> Place] /\ todo' \in [Op -> SUBSET File] /\ UNCHANGED <<job, snap>>
      <4>1. CASE todo[o] = {f}
        BY <1>5, <2>2, <4>1, Zenon DEF CheckFile, Goto, TypeOK, Place, Ended
      <4>2. CASE todo[o] # {f}
        <5>1. todo' = [todo EXCEPT ![o] = todo[o] \ {f}] /\ UNCHANGED <<row, pc, job, snap, faults>>
          BY <1>5, <2>2, <4>2, Zenon DEF CheckFile
        <5> QED BY <5>1, Zenon DEF TypeOK
      <4> QED BY <4>1, <4>2
    <3> QED BY <1>5, <3>1, <3>2, <3>3, Zenon DEF CheckFile, TypeOK, history
  <2> QED BY <2>1, <2>2
<1> QED BY <1>2, <1>3, <1>4, <1>5

\* The loss of the agent is well typed.
LEMMA CrashType == ASSUME TypeOK, Crash PROVE TypeOK'
<1>1. \A o \in Op : orphaned(child[o]) \in Process
  BY ProcessTypes DEF TypeOK
<1>2. child' \in [Op -> Process]
  BY <1>1 DEF Crash
<1>3. snap' \in [Op -> [File -> Version \cup {Unseen}]]
  BY DEF Crash, TypeOK, NoSnapshot
<1>4. pc' \in [Op -> Place] /\ todo' \in [Op -> SUBSET File]
  BY DEF Crash, TypeOK, Place, Ended
<1>5. faults' \in 0..MaxFaults
  BY BoundsAssumption DEF Crash, TypeOK
<1> QED BY <1>2, <1>3, <1>4, <1>5 DEF Crash, TypeOK, history
-----------------------------------------------------------------------------
(* One call: a step of one call leaves what the others rely on alone. *)

\* The state Call(p) speaks of.
Same(p) ==
  /\ row'[p] = row[p] /\ pc'[p] = pc[p] /\ job'[p] = job[p] /\ snap'[p] = snap[p]
  /\ todo'[p] = todo[p] /\ child'[p] = child[p] /\ wrote'[p] = wrote[p]

\* A call nobody touched keeps its invariant.
LEMMA SameKeeps == ASSUME NEW p \in Op, Call(p), Same(p) PROVE Call(p)'
<1>1. entries(p)' = entries(p)
  BY DEF Same, entries
<1>2. Begins(p)' /\ Commands(p)'
  BY DEF Call, Begins, Commands, Captured, Same
<1>3. Works(p)' /\ Cut(p)'
  BY Zenon DEF Call, Works, Cut, Same
<1>4. Closes(p)'
  BY <1>1, Zenon DEF Call, Closes, Same
<1>5. Snapshot(p)'
  BY Zenon DEF Call, Snapshot, Same
<1> QED BY <1>2, <1>3, <1>4, <1>5 DEF Call

\* A step that writes no manifest, and takes a snapshot away only from a call that has
\* written nothing back, keeps what was restored.
LEMMA QuietKeeps ==
  ASSUME Restored, UNCHANGED <<disk, wrote, drift>>,
         \A p \in Op : snap'[p] = snap[p] \/ wrote[p] = {}
  PROVE  Restored'
<1> SUFFICES ASSUME NEW p \in Op, NEW f \in wrote[p] \ drift[p] PROVE disk[f] = snap'[p][f]
  BY DEF Restored
<1>1. snap'[p] = snap[p]
  OBVIOUS
<1> QED BY <1>1 DEF Restored

\* What FailWith does to a call and to the others.
LEMMA FailWithEffect ==
  ASSUME TypeOK, NEW o \in Op, NEW status, FailWith(o, status)
  PROVE  /\ pc'[o] = "failed" /\ row'[o] \in {row[o], status} /\ UNCHANGED <<job, snap>>
         /\ \A p \in Op \ {o} : row'[p] = row[p] /\ pc'[p] = pc[p] /\ todo'[p] = todo[p]
<1>1. pc'[o] = "failed" /\ UNCHANGED <<job, snap>>
  BY DEF FailWith, Goto, TypeOK
<1>2. row'[o] \in {row[o], status} /\ \A p \in Op \ {o} : row'[p] = row[p]
  BY DEF FailWith, updateSnapshot, UpdateThrows, TypeOK
<1>3. \A p \in Op \ {o} : pc'[p] = pc[p] /\ todo'[p] = todo[p]
  BY DEF FailWith, Goto, TypeOK
<1> QED BY <1>1, <1>2, <1>3

\* A call that fails from a place with an open row, with a status its history bears out.
LEMMA FailsKeeps ==
  ASSUME TypeOK, NEW o \in Op, Call(o), NEW status, FailWith(o, status), UNCHANGED <<child, wrote>>,
         row[o] = "created" \/ (row[o] = "none" /\ pc[o] \in {"run", "verify"}),
         \/ status = "outcome_unknown" /\ wrote[o] = {} /\ job[o].action # "run"
         \/ status = "manifest_restore_failed" /\ child[o].flag = "none" /\ job[o].action # "run"
         \/ status = "environment_reconciliation_required" /\ child[o].flag = "none"
            /\ job[o].action # "run" /\ entries(o) = {}
  PROVE  Call(o)' /\ \A p \in Op \ {o} : Same(p)
<1>0. /\ pc'[o] = "failed" /\ row'[o] \in {row[o], status} /\ UNCHANGED <<job, snap>>
      /\ \A p \in Op \ {o} : row'[p] = row[p] /\ pc'[p] = pc[p] /\ todo'[p] = todo[p]
  BY FailWithEffect
<1>1. \A p \in Op \ {o} : Same(p)
  BY <1>0 DEF Same
<1>2. entries(o)' = entries(o)
  BY <1>0 DEF entries
<1>3. Begins(o)' /\ Commands(o)'
  BY <1>0 DEF Begins, Commands
<1>4. Works(o)'
  BY <1>0, Zenon DEF Works, Call
<1>5. Cut(o)'
  BY <1>0, Zenon DEF Cut, Call
<1>6. Closes(o)'
  BY <1>0, <1>2, Zenon DEF Closes
<1>7. Snapshot(o)'
  BY <1>0, Zenon DEF Snapshot, Call
<1> QED BY <1>1, <1>3, <1>4, <1>5, <1>6, <1>7, Zenon DEF Call

\* The row of a verified operation is committed, or the catch takes over.
LEMMA CommitKeeps ==
  ASSUME TypeOK, NEW o \in Op, Call(o), Commit(o), UNCHANGED wrote, pc[o] \in {"run", "verify"},
         child[o].flag = "none", job[o].action # "run", row[o] = "created"
  PROVE  Call(o)' /\ \A p \in Op \ {o} : Same(p)
<1>1. /\ \/ row'[o] = "committed" /\ pc'[o] = "ok"
         \/ row'[o] = row[o] /\ pc'[o] = "compensate"
      /\ UNCHANGED <<job, snap, todo, child>>
      /\ \A p \in Op \ {o} : row'[p] = row[p] /\ pc'[p] = pc[p]
  BY DEF Commit, updateSnapshot, UpdateThrows, Goto, TypeOK
<1>2. \A p \in Op \ {o} : Same(p)
  BY <1>1, Zenon DEF Same
<1>3. wrote[o] = {}
  BY Zenon DEF Call, Works
<1>4. Begins(o)' /\ Commands(o)' /\ Works(o)' /\ Cut(o)'
  BY <1>1, <1>3, Zenon DEF Begins, Commands, Works, Cut
<1>5. Closes(o)'
  BY <1>1, <1>3, Zenon DEF Closes
<1>6. Snapshot(o)'
  BY <1>1, Zenon DEF Call, Snapshot
<1> QED BY <1>2, <1>4, <1>5, <1>6, Zenon DEF Call

\* While its subprocess lives, and while the result is not handled, a package call has
\* its row.
LEMMA OpenRow ==
  ASSUME NEW o \in Op, Call(o), pc[o] \in {"run", "verify"}, job[o].action # "run"
  PROVE  row[o] = "created" /\ wrote[o] = {}
BY Zenon DEF Call, Works, Snapshot

-----------------------------------------------------------------------------
(* The steps. *)

\* What a step of call o has to show.
Keeps(o) == Call(o)' /\ (\A p \in Op \ {o} : Same(p)) /\ Restored'

\* A call begins.
LEMMA BeginKeeps ==
  ASSUME IInv, NEW o \in Op, NEW j \in Job[o],
         managePackage(o, j) \/ executeShellCommand(o, j) \/ executeUnrestrictedCommand(o, j)
  PROVE  Keeps(o)
<1> USE DEF IInv
<1>0. pc[o] = "idle" /\ row[o] = "none" /\ child[o].phase = "none" /\ child[o].flag = "none" /\ wrote[o] = {}
  BY Zenon DEF managePackage, executeShellCommand, executeUnrestrictedCommand, Run, Call, Begins
<1>1. UNCHANGED <<disk, row, snap, wrote, drift>>
  BY Zenon DEF managePackage, executeShellCommand, executeUnrestrictedCommand, Run, history
<1>2. Restored'
  BY <1>1, QuietKeeps
<1>3. CASE managePackage(o, j)
  <2>1. /\ job'[o] = j /\ j.action # "run" /\ UNCHANGED child
        /\ \/ pc'[o] = "capture" /\ todo'[o] = SNAPSHOT_FILES(j.manager)
           \/ pc'[o] = "failed"
        /\ \A p \in Op \ {o} : job'[p] = job[p] /\ pc'[p] = pc[p] /\ todo'[p] = todo[p]
    BY <1>3, Zenon DEF managePackage, TypeOK
  <2>2. \A p \in Op \ {o} : Same(p)
    BY <1>1, <2>1, Zenon DEF Same
  <2>3. Captured(o)' \/ pc'[o] = "failed"
    BY <2>1, Zenon DEF Captured
  <2>4. Begins(o)' /\ Commands(o)' /\ Works(o)' /\ Cut(o)'
    BY <1>0, <1>1, <2>1, <2>3, Zenon DEF Begins, Commands, Works, Cut
  <2>5. Closes(o)' /\ Snapshot(o)'
    BY <1>0, <1>1, <2>1, Zenon DEF Closes, Snapshot
  <2> QED BY <1>2, <2>2, <2>4, <2>5, Zenon DEF Keeps, Call
<1>4. ASSUME NEW may \in BOOLEAN, Run(o, j, may) PROVE Keeps(o)
  <2>0. /\ job'[o] = j /\ j.action = "run" /\ UNCHANGED todo
        /\ \/ pc'[o] = "run" /\ child'[o] = spawn("run")
           \/ pc'[o] = "failed" /\ child'[o] = child[o]
        /\ \A p \in Op \ {o} : job'[p] = job[p] /\ pc'[p] = pc[p] /\ child'[p] = child[p]
    BY <1>4, Zenon DEF Run, TypeOK
  <2>1. \A p \in Op \ {o} : Same(p)
    BY <1>1, <2>0, Zenon DEF Same
  <2>2. spawn("run").phase = "run" /\ spawn("run").flag = "none"
    BY DEF spawn
  <2>3. Begins(o)' /\ Commands(o)' /\ Works(o)' /\ Cut(o)'
    BY <1>0, <1>1, <2>0, <2>2, Zenon DEF Begins, Commands, Works, Cut
  <2>4. Closes(o)' /\ Snapshot(o)'
    BY <1>0, <1>1, <2>0, Zenon DEF Closes, Snapshot
  <2> QED BY <1>2, <2>1, <2>3, <2>4, Zenon DEF Keeps, Call
<1> QED BY <1>3, <1>4, BoundsAssumption, Zenon DEF executeShellCommand, executeUnrestrictedCommand

\* A manifest is captured.
LEMMA CaptureKeeps ==
  ASSUME IInv, NEW o \in Op, NEW f \in File, captureSnapshotFile(o, f)
  PROVE  Keeps(o)
<1> USE DEF IInv
<1>0. /\ pc[o] = "capture" /\ row[o] = "none" /\ child[o].phase = "none" /\ child[o].flag = "none"
      /\ wrote[o] = {} /\ job[o].action # "run" /\ Captured(o)
  BY DEF captureSnapshotFile, Call, Begins
<1>1. UNCHANGED <<disk, row, pc, job, child, wrote, drift>>
  BY DEF captureSnapshotFile, history
<1>2. /\ \A p \in Op \ {o} : snap'[p] = snap[p] /\ todo'[p] = todo[p]
      /\ todo'[o] = todo[o] \ {f} /\ \A g \in File \ {f} : snap'[o][g] = snap[o][g]
      /\ ~Globs(job[o].manager) => snap'[o][f] = disk[f]
  BY Zenon DEF captureSnapshotFile, TypeOK
<1>3. disk[f] # Unseen
  BY VersionSeen DEF TypeOK
<1>4. Captured(o)'
  BY <1>0, <1>1, <1>2, <1>3, Zenon DEF Captured, SNAPSHOT_FILES
<1>5. Restored'
  BY <1>0, <1>1, <1>2, QuietKeeps, Zenon
<1>6. \A p \in Op \ {o} : Same(p)
  BY <1>1, <1>2, Zenon DEF Same
<1>7. Begins(o)' /\ Commands(o)' /\ Works(o)' /\ Cut(o)'
  BY <1>0, <1>1, <1>4, Zenon DEF Begins, Commands, Works, Cut
<1>8. Closes(o)' /\ Snapshot(o)'
  BY <1>0, <1>1, Zenon DEF Closes, Snapshot
<1> QED BY <1>5, <1>6, <1>7, <1>8 DEF Keeps, Call

\* A capture that fails leaves no row.
LEMMA CaptureFailsKeeps ==
  ASSUME IInv, NEW o \in Op, CaptureFails(o)
  PROVE  Keeps(o)
<1> USE DEF IInv
<1>0. /\ pc[o] = "capture" /\ row[o] = "none" /\ child[o].phase = "none" /\ child[o].flag = "none"
      /\ wrote[o] = {} /\ job[o].action # "run"
  BY Zenon DEF CaptureFails, Call, Begins
<1>1. UNCHANGED <<disk, row, job, child, wrote, drift>> /\ pc'[o] = "failed"
  BY DEF CaptureFails, history, TypeOK
<1>2. \A p \in Op \ {o} : snap'[p] = snap[p] /\ todo'[p] = todo[p] /\ pc'[p] = pc[p]
  BY DEF CaptureFails, TypeOK
<1>3. Restored'
  BY <1>0, <1>1, <1>2, QuietKeeps, Zenon
<1>4. \A p \in Op \ {o} : Same(p)
  BY <1>1, <1>2, Zenon DEF Same
<1>5. Begins(o)' /\ Commands(o)' /\ Works(o)' /\ Cut(o)'
  BY <1>0, <1>1, Zenon DEF Begins, Commands, Works, Cut
<1>6. Closes(o)' /\ Snapshot(o)'
  BY <1>0, <1>1, Zenon DEF Closes, Snapshot
<1> QED BY <1>3, <1>4, <1>5, <1>6 DEF Keeps, Call

\* The row goes in and the package manager starts.
LEMMA RowKeeps ==
  ASSUME IInv, NEW o \in Op, createPackageSnapshot(o)
  PROVE  Keeps(o)
<1> USE DEF IInv
<1>0. /\ pc[o] = "capture" /\ todo[o] = {} /\ row[o] = "none" /\ child[o].phase = "none"
      /\ child[o].flag = "none" /\ wrote[o] = {} /\ job[o].action # "run" /\ Captured(o)
  BY DEF createPackageSnapshot, Call, Begins
<1>1. /\ UNCHANGED <<disk, job, snap, todo, wrote, drift>>
      /\ \/ row'[o] = "created" /\ pc'[o] = "run" /\ child'[o] = spawn("run")
         \/ row'[o] = "outcome_unknown" /\ pc'[o] = "failed" /\ child'[o] = child[o]
      /\ \A p \in Op \ {o} : row'[p] = row[p] /\ pc'[p] = pc[p] /\ child'[p] = child[p]
  BY Zenon DEF createPackageSnapshot, updateSnapshot, Goto, history, TypeOK
<1>2. Restored'
  BY <1>1, QuietKeeps, Zenon
<1>3. \A p \in Op \ {o} : Same(p)
  BY <1>1 DEF Same
<1>4. spawn("run").phase = "run" /\ spawn("run").flag = "none"
  BY DEF spawn
<1>5. Begins(o)' /\ Commands(o)' /\ Works(o)' /\ Cut(o)'
  BY <1>0, <1>1, <1>4, Zenon DEF Begins, Commands, Works, Cut
<1>6. Snapshot(o)'
  BY <1>0, <1>1, Zenon DEF Snapshot, Captured
<1>7. Closes(o)'
  BY <1>0, <1>1, Zenon DEF Closes
<1> QED BY <1>2, <1>3, <1>5, <1>6, <1>7 DEF Keeps, Call

\* A subprocess ends, or is cut short.
LEMMA ChildKeeps ==
  ASSUME IInv, NEW o \in Op,
         Exits(o) \/ \E flag \in {"timedOut", "isCanceled"} : Interrupt(o, flag)
  PROVE  Keeps(o)
<1> USE DEF IInv
<1>0. pc[o] \in {"run", "verify"} /\ wrote[o] = {} /\ row[o] \in {"none", "created"} /\ child[o].phase # "none"
  BY Zenon DEF Exits, Interrupt, Call, Works
<1>1. UNCHANGED <<disk, row, pc, job, snap, todo, wrote, drift>>
  BY DEF Exits, Interrupt, calls, history
<1>2. child[o] \in Process
  BY DEF TypeOK
<1>3. child'[o].phase = child[o].phase /\ \A p \in Op \ {o} : child'[p] = child[p]
  <2>1. CASE Exits(o)
    <3>1. PICK code, s : child' = [child EXCEPT ![o] = exited(child[o], code, s)]
      BY <2>1, Zenon DEF Exits
    <3>2. child'[o] = exited(child[o], code, s) /\ \A p \in Op \ {o} : child'[p] = child[p]
      BY <3>1, Zenon DEF TypeOK
    <3> QED BY <1>2, <3>2, ProcessFields
  <2>2. CASE \E flag \in {"timedOut", "isCanceled"} : Interrupt(o, flag)
    <3>1. PICK fl, s : child' = [child EXCEPT ![o] = aborted(child[o], fl, s)]
      BY <2>2, Zenon DEF Interrupt
    <3>2. child'[o] = aborted(child[o], fl, s) /\ \A p \in Op \ {o} : child'[p] = child[p]
      BY <3>1, Zenon DEF TypeOK
    <3> QED BY <1>2, <3>2, ProcessFields
  <2> QED BY <2>1, <2>2, Zenon
<1>4. Restored'
  BY <1>1, QuietKeeps
<1>5. \A p \in Op \ {o} : Same(p)
  BY <1>1, <1>3, Zenon DEF Same
<1>6. Begins(o)' /\ Works(o)' /\ Cut(o)'
  BY <1>0, <1>1, <1>3, Zenon DEF Begins, Works, Cut
<1>7. Commands(o)' /\ Snapshot(o)'
  BY <1>0, <1>1, <1>3, Zenon DEF Call, Commands, Snapshot
<1>8. Closes(o)'
  BY <1>0, <1>1, Zenon DEF Closes
<1> QED BY <1>4, <1>5, <1>6, <1>7, <1>8 DEF Keeps, Call

\* A subprocess writes a manifest: whoever had restored it sees it drift.
LEMMA WriteKeeps ==
  ASSUME IInv, NEW o \in Op, NEW f \in File, ProcessWrites(o, f)
  PROVE  Keeps(o)
<1> USE DEF IInv
<1>0. UNCHANGED <<row, pc, job, snap, todo, child, wrote>>
  BY Zenon DEF ProcessWrites, calls
<1>1. \A p \in Op : Same(p)
  BY <1>0 DEF Same
<1>2. Call(o)'
  BY <1>1, SameKeeps
<1>3. ASSUME NEW p \in Op, NEW g \in wrote'[p] \ drift'[p] PROVE disk'[g] = snap'[p][g]
  <2>1. drift'[p] = IF f \in wrote[p] THEN drift[p] \cup {f} ELSE drift[p]
    BY Zenon DEF ProcessWrites
  <2>2. g \in wrote[p] \ drift[p] /\ g # f /\ g \in File
    BY <1>0, <1>3, <2>1, Zenon DEF TypeOK
  <2>3. disk'[g] = disk[g]
    BY <2>2, Zenon DEF ProcessWrites, TypeOK
  <2> QED BY <1>0, <2>2, <2>3, Zenon DEF Restored
<1> QED BY <1>1, <1>2, <1>3, Zenon DEF Keeps, Restored

\* The catch takes over from a package manager that failed.
LEMMA ToCompensateKeeps ==
  ASSUME IInv, NEW o \in Op, pc[o] \in {"run", "verify"}, job[o].action # "run", child[o].flag = "none",
         Goto(o, "compensate"), UNCHANGED <<row, todo, child, disk, history>>
  PROVE  Keeps(o)
<1> USE DEF IInv
<1>0. row[o] = "created" /\ wrote[o] = {}
  BY OpenRow
<1>1. /\ UNCHANGED <<disk, row, job, snap, todo, child, wrote, drift>> /\ pc'[o] = "compensate"
      /\ \A p \in Op \ {o} : pc'[p] = pc[p]
  BY Zenon DEF Goto, history, TypeOK
<1>2. Restored'
  BY <1>1, QuietKeeps, Zenon
<1>3. \A p \in Op \ {o} : Same(p)
  BY <1>1 DEF Same
<1>4. Begins(o)' /\ Commands(o)' /\ Works(o)' /\ Cut(o)'
  BY <1>0, <1>1, Zenon DEF Begins, Commands, Works, Cut
<1>5. Closes(o)'
  BY <1>0, <1>1, Zenon DEF Closes
<1>6. Snapshot(o)'
  BY <1>0, <1>1, Zenon DEF Call, Snapshot
<1> QED BY <1>2, <1>3, <1>4, <1>5, <1>6 DEF Keeps, Call

\* The verification starts.
LEMMA ToVerifyKeeps ==
  ASSUME IInv, NEW o \in Op, pc[o] = "run", job[o].action # "run",
         Goto(o, "verify"), child' = [child EXCEPT ![o] = spawn("verify")],
         UNCHANGED <<row, todo, disk, history>>
  PROVE  Keeps(o)
<1> USE DEF IInv
<1>0. row[o] = "created" /\ wrote[o] = {} /\ child[o].phase # "none"
  BY OpenRow, Zenon DEF Call, Works
<1>1. /\ UNCHANGED <<disk, row, job, snap, todo, wrote, drift>>
      /\ pc'[o] = "verify" /\ child'[o] = spawn("verify")
      /\ \A p \in Op \ {o} : pc'[p] = pc[p] /\ child'[p] = child[p]
  BY Zenon DEF Goto, history, TypeOK
<1>2. spawn("verify").phase = "verify" /\ spawn("verify").flag = "none"
  BY DEF spawn
<1>3. Restored'
  BY <1>1, QuietKeeps, Zenon
<1>4. \A p \in Op \ {o} : Same(p)
  BY <1>1, Zenon DEF Same
<1>5. Begins(o)' /\ Commands(o)' /\ Works(o)' /\ Cut(o)'
  BY <1>0, <1>1, <1>2, Zenon DEF Begins, Commands, Works, Cut
<1>6. Closes(o)'
  BY <1>0, <1>1, Zenon DEF Closes
<1>7. Snapshot(o)'
  BY <1>0, <1>1, Zenon DEF Call, Snapshot
<1> QED BY <1>3, <1>4, <1>5, <1>6, <1>7, Zenon DEF Keeps, Call

\* The result of a package manager or of its verification.
LEMMA ResultKeeps ==
  ASSUME IInv, NEW o \in Op, AfterRun(o) \/ AfterVerify(o)
  PROVE  Keeps(o)
<1> USE DEF IInv
<1>0. /\ pc[o] \in {"run", "verify"} /\ job[o].action # "run" /\ UNCHANGED <<disk, history>>
      /\ (pc[o] = "verify" => AfterVerify(o)) /\ (pc[o] = "run" => AfterRun(o))
  BY Zenon DEF AfterRun, AfterVerify, Call, Commands
<1>1. row[o] = "created" /\ wrote[o] = {}
  BY <1>0, OpenRow
<1>2. UNCHANGED <<disk, wrote, drift>>
  BY <1>0 DEF history
<1>3. ASSUME FailWith(o, "outcome_unknown"), UNCHANGED child PROVE Keeps(o)
  <2>1. Call(o)' /\ \A p \in Op \ {o} : Same(p)
    BY <1>0, <1>1, <1>2, <1>3, FailsKeeps, Zenon
  <2>2. UNCHANGED snap
    BY <1>3 DEF FailWith, Goto
  <2> QED BY <1>2, <2>1, <2>2, QuietKeeps DEF Keeps
<1>4. ASSUME Commit(o), child[o].flag = "none" PROVE Keeps(o)
  <2>1. Call(o)' /\ \A p \in Op \ {o} : Same(p)
    BY <1>0, <1>1, <1>2, <1>4, CommitKeeps, Zenon
  <2>2. UNCHANGED snap
    BY <1>4 DEF Commit, Goto
  <2> QED BY <1>2, <2>1, <2>2, QuietKeeps DEF Keeps
<1>5. ASSUME Goto(o, "compensate"), UNCHANGED <<row, todo, child>>, child[o].flag = "none" PROVE Keeps(o)
  BY <1>0, <1>5, ToCompensateKeeps, Zenon
<1>6. CASE pc[o] = "run"
  BY <1>0, <1>3, <1>4, <1>5, <1>6, ToVerifyKeeps, Zenon DEF AfterRun, effectOutcomeKnown
<1>7. CASE pc[o] = "verify"
  BY <1>0, <1>3, <1>4, <1>5, <1>7, Zenon DEF AfterVerify, effectOutcomeKnown
<1> QED BY <1>0, <1>6, <1>7

\* The result of a command.
LEMMA CommandKeeps ==
  ASSUME IInv, NEW o \in Op, AfterCommand(o)
  PROVE  Keeps(o)
<1> USE DEF IInv
<1>0. pc[o] = "run" /\ job[o].action = "run" /\ row[o] = "none" /\ wrote[o] = {}
  BY Zenon DEF AfterCommand, Call, Commands
<1>1. /\ UNCHANGED <<disk, row, job, snap, todo, child, wrote, drift>>
      /\ \/ pc'[o] = "ok" /\ child[o].flag = "none" /\ child[o].exit # "none"
         \/ pc'[o] = "failed"
      /\ \A p \in Op \ {o} : pc'[p] = pc[p]
  BY Zenon DEF AfterCommand, Goto, history, TypeOK
<1>2. Restored'
  BY <1>1, QuietKeeps, Zenon
<1>3. \A p \in Op \ {o} : Same(p)
  BY <1>1, Zenon DEF Same
<1>4. Begins(o)' /\ Commands(o)' /\ Works(o)' /\ Cut(o)'
  BY <1>0, <1>1, Zenon DEF Begins, Commands, Works, Cut
<1>5. Closes(o)' /\ Snapshot(o)'
  BY <1>0, <1>1, Zenon DEF Closes, Snapshot
<1> QED BY <1>2, <1>3, <1>4, <1>5 DEF Keeps, Call

\* The restore is refused, fails, or begins.
LEMMA CompensateKeeps ==
  ASSUME IInv, NEW o \in Op, Compensate(o) \/ RestoreThrows(o)
  PROVE  Keeps(o)
<1> USE DEF IInv
<1>0. /\ pc[o] \in {"compensate", "restoring", "checking"} /\ UNCHANGED <<disk, child, wrote, drift>>
      /\ child[o].flag = "none" /\ job[o].action # "run" /\ row[o] = "created"
  BY Zenon DEF Compensate, RestoreThrows, history, Call, Works
<1>1. ASSUME NEW st, FailWith(o, st),
             \/ st = "manifest_restore_failed"
             \/ st = "environment_reconciliation_required" /\ entries(o) = {}
      PROVE  Keeps(o)
  <2>1. Call(o)' /\ \A p \in Op \ {o} : Same(p)
    BY <1>0, <1>1, FailsKeeps, Zenon
  <2>2. UNCHANGED snap
    BY <1>1 DEF FailWith, Goto
  <2> QED BY <1>0, <2>1, <2>2, QuietKeeps, Zenon DEF Keeps
<1>2. ASSUME Goto(o, "restoring"), todo' = [todo EXCEPT ![o] = entries(o)], UNCHANGED row
      PROVE  Keeps(o)
  <2>1. /\ UNCHANGED <<disk, row, job, snap, child, wrote, drift>>
        /\ pc'[o] = "restoring" /\ todo'[o] = entries(o)
        /\ \A p \in Op \ {o} : pc'[p] = pc[p] /\ todo'[p] = todo[p]
    BY <1>0, <1>2, Zenon DEF Goto, TypeOK
  <2>2. Restored'
    BY <2>1, QuietKeeps, Zenon
  <2>3. \A p \in Op \ {o} : Same(p)
    BY <2>1, Zenon DEF Same
  <2>4. entries(o)' = entries(o)
    BY <2>1, Zenon DEF entries
  <2>5. Begins(o)' /\ Commands(o)' /\ Works(o)' /\ Cut(o)'
    BY <1>0, <2>1, Zenon DEF Begins, Commands, Works, Cut
  <2>6. Closes(o)'
    BY <1>0, <2>1, <2>4, Zenon DEF Closes
  <2>7. Snapshot(o)'
    BY <1>0, <2>1, Zenon DEF Call, Snapshot
  <2> QED BY <2>2, <2>3, <2>5, <2>6, <2>7 DEF Keeps, Call
<1> QED BY <1>1, <1>2 DEF Compensate, RestoreThrows

\* A manifest is put back.
LEMMA RestoreKeeps ==
  ASSUME IInv, NEW o \in Op, NEW f \in File, RestoreFile(o, f)
  PROVE  Keeps(o)
<1> USE DEF IInv
<1>0. /\ pc[o] = "restoring" /\ f \in todo[o] /\ child[o].flag = "none" /\ job[o].action # "run"
      /\ row[o] = "created" /\ todo[o] \subseteq entries(o) /\ entries(o) \ todo[o] \subseteq wrote[o]
  BY Zenon DEF RestoreFile, Turn, Call, Works, Closes
<1>1. /\ \/ pc'[o] = "checking" /\ todo[o] = {f}
         \/ pc'[o] = "restoring" /\ todo'[o] = todo[o] \ {f}
      /\ UNCHANGED <<job, snap>>
      /\ \A p \in Op \ {o} : pc'[p] = pc[p] /\ todo'[p] = todo[p]
  <2>1. CASE todo[o] = {f}
    <3>1. Goto(o, "checking") /\ todo' = [todo EXCEPT ![o] = entries(o)]
      BY <2>1, Zenon DEF RestoreFile
    <3> QED BY <2>1, <3>1, Zenon DEF Goto, TypeOK
  <2>2. CASE todo[o] # {f}
    <3>1. todo' = [todo EXCEPT ![o] = todo[o] \ {f}] /\ UNCHANGED <<pc, job, snap>>
      BY <2>2, Zenon DEF RestoreFile
    <3> QED BY <1>0, <3>1, Zenon DEF TypeOK
  <2> QED BY <2>1, <2>2, Zenon
<1>2. /\ wrote'[o] = wrote[o] \cup {f} /\ UNCHANGED <<row, child>>
      /\ \A p \in Op \ {o} : wrote'[p] = wrote[p]
  BY Zenon DEF RestoreFile, TypeOK
<1>3. \A p \in Op \ {o} : Same(p)
  BY <1>1, <1>2, Zenon DEF Same
<1>4. entries(o)' = entries(o)
  BY <1>1, Zenon DEF entries
<1>5. Begins(o)' /\ Commands(o)' /\ Works(o)' /\ Cut(o)'
  BY <1>0, <1>1, <1>2, Zenon DEF Begins, Commands, Works, Cut
<1>6. Closes(o)'
  BY <1>0, <1>1, <1>2, <1>4, Zenon DEF Closes
<1>7. Snapshot(o)'
  BY <1>0, <1>1, <1>2, Zenon DEF Call, Snapshot
<1>8. ASSUME NEW p \in Op, NEW g \in wrote'[p] \ drift'[p] PROVE disk'[g] = snap'[p][g]
  <2>1. drift'[p] = IF p # o /\ f \in wrote[p] THEN drift[p] \cup {f} ELSE drift[p]
    BY Zenon DEF RestoreFile
  <2>2. CASE g = f
    <3>1. p = o
      BY <1>2, <1>8, <2>1, <2>2
    <3> QED BY <1>1, <2>2, <3>1, Zenon DEF RestoreFile, TypeOK
  <2>3. CASE g # f
    <3>0. g \in wrote[p] \ drift[p]
      BY <1>2, <1>8, <2>1, <2>3
    <3>1. g \in wrote[p] \ drift[p] /\ g \in File
      BY <3>0, Zenon DEF TypeOK
    <3>2. disk'[g] = disk[g]
      BY <2>3, <3>1, Zenon DEF RestoreFile, TypeOK
    <3> QED BY <1>1, <3>1, <3>2, Zenon DEF Restored
  <2> QED BY <2>2, <2>3
<1>9. Call(o)'
  BY <1>5, <1>6, <1>7 DEF Call
<1>10. Restored'
  BY <1>8 DEF Restored
<1> QED BY <1>3, <1>9, <1>10 DEF Keeps

\* A manifest is read back.
LEMMA CheckKeeps ==
  ASSUME IInv, NEW o \in Op, NEW f \in File, CheckFile(o, f)
  PROVE  Keeps(o)
<1> USE DEF IInv
<1>0. /\ pc[o] = "checking" /\ UNCHANGED <<disk, child, wrote, drift>>
      /\ child[o].flag = "none" /\ job[o].action # "run" /\ row[o] = "created"
      /\ entries(o) \subseteq wrote[o]
  BY Zenon DEF CheckFile, history, Call, Works, Closes
<1>1. CASE FailWith(o, "manifest_restore_failed")
  <2>1. Call(o)' /\ \A p \in Op \ {o} : Same(p)
    BY <1>0, <1>1, FailsKeeps, Zenon
  <2>2. UNCHANGED snap
    BY <1>1 DEF FailWith, Goto
  <2> QED BY <1>0, <2>1, <2>2, QuietKeeps, Zenon DEF Keeps
<1>2. CASE ~FailWith(o, "manifest_restore_failed")
  <2>1. /\ \/ /\ todo' = [todo EXCEPT ![o] = todo[o] \ {f}] /\ UNCHANGED <<row, pc, job, snap>>
           \/ /\ \/ row' = [row EXCEPT ![o] = "manifest_restored"]
                 \/ row' = [row EXCEPT ![o] = "manifest_restore_failed"]
              /\ Goto(o, "failed") /\ todo' = [todo EXCEPT ![o] = {}]
    BY <1>2, Zenon DEF CheckFile, updateSnapshot
  <2>2. /\ UNCHANGED <<job, snap>>
        /\ \/ pc'[o] = "checking" /\ row'[o] = "created"
           \/ pc'[o] = "failed" /\ row'[o] \in {"manifest_restored", "manifest_restore_failed"}
        /\ \A p \in Op \ {o} : pc'[p] = pc[p] /\ row'[p] = row[p] /\ todo'[p] = todo[p]
    BY <1>0, <2>1, Zenon DEF Goto, TypeOK
  <2>3. Restored'
    BY <1>0, <2>2, QuietKeeps, Zenon
  <2>4. \A p \in Op \ {o} : Same(p)
    BY <1>0, <2>2, Zenon DEF Same
  <2>5. entries(o)' = entries(o)
    BY <2>2 DEF entries
  <2>6. Begins(o)' /\ Commands(o)' /\ Works(o)' /\ Cut(o)'
    BY <1>0, <2>2, Zenon DEF Begins, Commands, Works, Cut
  <2>7. Closes(o)'
    BY <1>0, <2>2, <2>5 DEF Closes
  <2>8. Snapshot(o)'
    BY <1>0, <2>2, Zenon DEF Call, Snapshot
  <2> QED BY <2>3, <2>4, <2>6, <2>7, <2>8 DEF Keeps, Call
<1> QED BY <1>1, <1>2

\* The agent dies; the rows stay, and a snapshot goes only where there is no row.
LEMMA CrashKeeps == ASSUME IInv, Crash PROVE (\A o \in Op : Call(o))' /\ Restored'
<1> USE DEF IInv
<1>0. UNCHANGED <<disk, row, job, wrote, drift>>
  BY Zenon DEF Crash, history
<1>1. ASSUME NEW o \in Op PROVE Call(o)' /\ (snap'[o] = snap[o] \/ wrote[o] = {})
  <2>1. /\ row[o] # "none" => snap'[o] = snap[o]
        /\ \/ pc'[o] = pc[o] /\ pc[o] \in {"ok", "failed", "gone", "idle"}
           \/ pc'[o] = "gone"
    BY Zenon DEF Crash, Ended
  <2>2. /\ child'[o].phase = child[o].phase /\ child'[o].exit = child[o].exit
        /\ child'[o].flag = child[o].flag
    <3>1. child[o] \in Process /\ child'[o] = orphaned(child[o])
      BY Zenon DEF TypeOK, Crash
    <3> QED BY <3>1, ProcessFields, Zenon
  <2>3. row[o] # "none" => entries(o)' = entries(o)
    BY <2>1, Zenon DEF entries
  <2>4. Begins(o)' /\ Commands(o)'
    BY <1>0, <2>1, <2>2, Zenon DEF Call, Begins, Commands
  <2>5. Works(o)' /\ Cut(o)'
    BY <1>0, <2>1, <2>2, Zenon DEF Call, Works, Cut
  <2>6. Closes(o)'
    <3>1. pc[o] \in {"ok", "failed"} => pc'[o] = pc[o]
      BY Zenon DEF Crash, Ended
    <3>2. pc'[o] # "restoring" /\ pc'[o] # "checking"
      BY <2>1
    <3>3. Closes(o)
      BY DEF Call
    <3> QED BY <1>0, <2>3, <3>1, <3>2, <3>3, Zenon DEF Closes
  <2>7. Snapshot(o)'
    BY <1>0, <2>1, <2>2, Zenon DEF Call, Snapshot
  <2>8. snap'[o] = snap[o] \/ wrote[o] = {}
    BY <2>1, Zenon DEF Call, Works
  <2> QED BY <2>4, <2>5, <2>6, <2>7, <2>8, Zenon DEF Call
<1>2. Restored'
  BY <1>0, <1>1, QuietKeeps, Zenon
<1> QED BY <1>1, <1>2
-----------------------------------------------------------------------------
(* The theorems. *)

\* The invariant holds at first.
LEMMA InitInv == Init => IInv
<1> SUFFICES ASSUME Init PROVE IInv
  OBVIOUS
<1>1. TypeOK
  BY InitType
<1>2. ASSUME NEW o \in Op PROVE Call(o)
  <2>1. /\ pc[o] = "idle" /\ row[o] = "none" /\ wrote[o] = {} /\ child[o].phase = "none"
        /\ child[o].flag = "none"
    BY DEF Init, NoProcess
  <2> QED BY <2>1, Zenon DEF Call, Begins, Commands, Works, Cut, Closes, Snapshot
<1>3. Restored
  BY DEF Init, Restored
<1> QED BY <1>1, <1>2, <1>3 DEF IInv

\* Every step keeps the invariant.
LEMMA NextInv == IInv /\ [Next]_vars => IInv'
<1> SUFFICES ASSUME IInv, [Next]_vars PROVE IInv'
  OBVIOUS
<1>0. TypeOK /\ \A o \in Op : Closes(o)
  BY DEF IInv, Call
<1>1. ASSUME NEW o \in Op, Keeps(o), TypeOK' PROVE IInv'
  <2>1. \A p \in Op : Call(p)'
    BY <1>1, SameKeeps DEF Keeps, IInv
  <2> QED BY <1>1, <2>1 DEF Keeps, IInv
<1>2. ASSUME NEW o \in Op, CallStep(o) PROVE IInv'
  <2>1. TypeOK'
    BY <1>0, <1>2, CaptureStepType, ResultStepType, RestoreStepType DEF CallStep
  <2>2. Keeps(o)
    BY <1>2, CaptureKeeps, CaptureFailsKeeps, RowKeeps, ResultKeeps, CommandKeeps, CompensateKeeps,
       RestoreKeeps, CheckKeeps DEF CallStep
  <2> QED BY <1>1, <2>1, <2>2
<1>3. ASSUME NEW o \in Op, Exits(o) \/ \E flag \in {"timedOut", "isCanceled"} : Interrupt(o, flag)
      PROVE  IInv'
  BY <1>0, <1>1, <1>3, ProcessStepType, ChildKeeps
<1>4. ASSUME NEW o \in Op, NEW f \in File, ProcessWrites(o, f) PROVE IInv'
  BY <1>0, <1>1, <1>4, ProcessStepType, WriteKeeps
<1>5. ASSUME NEW o \in Op, NEW j \in Job[o],
             managePackage(o, j) \/ executeShellCommand(o, j) \/ executeUnrestrictedCommand(o, j)
      PROVE  IInv'
  BY <1>0, <1>1, <1>5, BeginStepType, BeginKeeps, Zenon
<1>6. CASE Crash
  BY <1>0, <1>6, CrashType, CrashKeeps DEF IInv
<1>7. CASE UNCHANGED vars
  <2>1. UNCHANGED <<disk, row, pc, job, snap, todo, child, wrote, drift, writes, faults>>
    BY <1>7 DEF vars, calls, history
  <2>2. TypeOK'
    BY <1>0, <2>1, Zenon DEF TypeOK
  <2>3. \A p \in Op : Call(p)'
    BY <2>1, SameKeeps, Zenon DEF Same, IInv
  <2>4. Restored'
    BY <2>1, QuietKeeps, Zenon DEF IInv
  <2> QED BY <2>2, <2>3, <2>4 DEF IInv
<1> QED BY <1>2, <1>3, <1>4, <1>5, <1>6, <1>7, Zenon DEF Next

\* The invariant, over whole behaviours.
THEOREM Invariance == Spec => []IInv
BY InitInv, NextInv, PTL DEF Spec

\* Every variable keeps its type: a restore never writes the mark of an entry that was
\* not captured.
THEOREM TypeCorrect == Spec => []TypeOK
<1>1. IInv => TypeOK
  BY DEF IInv
<1> QED BY <1>1, Invariance, PTL

\* A call that was cut short claims nothing, whatever else runs in the directory.
THEOREM InterruptedClaimsNothingTheorem == Spec => []InterruptedClaimsNothing
<1>1. IInv => InterruptedClaimsNothing
  <2> SUFFICES ASSUME IInv, NEW o \in Op,
                      \/ child[o].flag # "none"
                      \/ job[o].action = "run" /\ child[o].phase = "run" /\ child[o].exit = "none"
               PROVE  pc[o] # "ok" /\ wrote[o] = {} /\ row[o] \in {"none", "created", "outcome_unknown"}
    BY DEF InterruptedClaimsNothing
  <2> QED BY Zenon DEF IInv, Call, Cut, Commands
<1> QED BY <1>1, Invariance, PTL

\* What a closed row says holds, for any number of overlapping calls.
THEOREM StatusTellsTruthTheorem == Spec => []StatusTellsTruth
<1>1. IInv => StatusTellsTruth
  <2> SUFFICES ASSUME IInv, NEW o \in Op
               PROVE  /\ row[o] = "manifest_restored" =>
                           \A f \in File : snap[o][f] # Unseen /\ f \notin drift[o] => disk[f] = snap[o][f]
                      /\ row[o] = "committed" => wrote[o] = {} /\ pc[o] = "ok"
                      /\ row[o] = "environment_reconciliation_required" =>
                           \A f \in File : snap[o][f] = Unseen
    BY DEF StatusTellsTruth
  <2>1. Closes(o)
    BY DEF IInv, Call
  <2> QED BY <2>1, Zenon DEF IInv, Closes, Restored, entries
<1> QED BY <1>1, Invariance, PTL

\* No package manager starts before its row and the captured manifests are in the
\* database.
THEOREM EffectHasSnapshotTheorem == Spec => []EffectHasSnapshot
<1>1. IInv => EffectHasSnapshot
  BY DEF IInv, Call, Snapshot, EffectHasSnapshot
<1> QED BY <1>1, Invariance, PTL

=============================================================================
