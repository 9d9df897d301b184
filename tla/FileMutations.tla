--------------------------- MODULE FileMutations ---------------------------
(***************************************************************************)
(* The workspace file service (services/filesystem/filesystem-service.ts)  *)
(* on one target path, with the rows it keeps in file_backups and          *)
(* idempotency_responses.  Every tool call is an async function: other     *)
(* calls, of this process or of another one on the same workspace, run at  *)
(* each of its awaits, so a call is a sequence of steps (its pc), each a   *)
(* filesystem call together with the synchronous code after it.  Nothing   *)
(* serialises two calls on the same path.                                  *)
(*                                                                         *)
(* Bytes and their SHA-256 are one value: a member of Content, Partial     *)
(* (what an exclusive create leaves before its bytes are written) or       *)
(* Absent.  The path, sensitivity and policy checks, which refuse a call   *)
(* before it touches anything, and the size limits are left out.           *)
(***************************************************************************)
EXTENDS Naturals

CONSTANTS
    Call,       \* tool calls that can be in flight together
    Id,         \* backup ids (randomUUID): a bound on the rows of a run
    Content,    \* whole contents a caller can write
    Key,        \* idempotency keys
    MaxCalls,   \* bound: calls started in a run
    Partial, Absent, None

ASSUME DistinctStates ==
    /\ Partial \notin Content /\ Absent \notin Content /\ None \notin Content
    /\ Partial # Absent /\ None # Partial /\ None # Absent
    /\ None \notin Key /\ None \notin Id /\ None \notin Call /\ Absent \notin Id

VARIABLES
    file,       \* what the path holds
    backups,    \* the file_backups rows
    idem,       \* the idempotency_responses rows: the answer kept for a key
    call,       \* the calls in flight
    handle,     \* the call whose exclusive-create handle is the file at the path
    last,       \* history: the backup of the call that last changed the file
    started     \* bound: calls started so far

vars == <<file, backups, idem, call, handle, last, started>>

Present == Content \cup {Partial}
FileState == Present \cup {Absent}

\* A row: previous and post-mutation state, and (history) the state its own mutation
\* installed.  restored_at is written and never read: left out.
Backup == [prev : FileState, post : FileState \cup {None},
           did : FileState \cup {None}]

ASSUME NoneIsNoRow == None \notin Backup

\* A request, as normalizeRequest tells requests apart: write of a content, or delete
\* (Absent).  A kept answer is the backup id, or Absent: nothing was there to delete.
Request == Content \cup {Absent}
Answer == Id \cup {Absent, None}

Kind == {"none", "write", "create", "modify", "delete", "restore"}
Place == {"idle", "probe", "match", "observe", "snapshot", "recheck", "effect",
          "body", "verify", "record", "store"}

\* steady and fresh are history: no other call changed the file since this call began,
\* and since it last looked at the file.
CallState == [kind : Kind, pc : Place, new : FileState, match : Content \cup {None},
              key : Key \cup {None}, own : Id \cup {None}, target : Id \cup {None},
              steady : BOOLEAN, fresh : BOOLEAN]

Idle == [kind |-> "none", pc |-> "idle", new |-> Absent, match |-> None, key |-> None,
         own |-> None, target |-> None, steady |-> FALSE, fresh |-> FALSE]

TypeOK ==
    /\ file \in FileState
    /\ backups \in [Id -> Backup \cup {None}]
    /\ idem \in [Key \X Request -> Answer]
    /\ call \in [Call -> CallState]
    /\ handle \in Call \cup {None}
    /\ last \in Id \cup {None}
    /\ started \in Nat

Init ==
    /\ file \in Content \cup {Absent}
    /\ backups = [i \in Id |-> None]
    /\ idem = [r \in Key \X Request |-> None]
    /\ call = [p \in Call |-> Idle]
    /\ handle = None
    /\ last = None
    /\ started = 0

At(p, where) == call[p].pc = where
IsKind(p, kinds) == call[p].kind \in kinds

-----------------------------------------------------------------------------
(* Starting a call. *)

Begin(p, kind, pc, new, match, key, target) ==
    /\ started < MaxCalls
    /\ started' = started + 1
    /\ call' = [call EXCEPT ![p] =
           [kind |-> kind, pc |-> pc, new |-> new, match |-> match, key |-> key,
            own |-> None, target |-> target, steady |-> TRUE, fresh |-> TRUE]]

\* getStoredIdempotentResponse: the answer is returned and nothing is done.
Answered(key, request) == key # None /\ idem[<<key, request>>] # None

\* writeWorkspaceFile up to its first await; match is ifMatchSha256.
WriteWorkspaceFile(p, new, match, key) ==
    /\ At(p, "idle")
    /\ ~Answered(key, new)
    /\ Begin(p, "write", "probe", new, match, key, None)
    /\ UNCHANGED <<file, backups, idem, handle, last>>

CreateWorkspaceFile(p, new) ==
    /\ At(p, "idle")
    /\ Begin(p, "create", "probe", new, None, None, None)
    /\ UNCHANGED <<file, backups, idem, handle, last>>

\* modifyWorkspaceFile: match is the content in which the search text occurs (and which
\* ifMatchSha256, if given, is the hash of), new that content after the replacement.
ModifyWorkspaceFile(p, match, new) ==
    /\ At(p, "idle")
    /\ Begin(p, "modify", "match", new, match, None, None)
    /\ UNCHANGED <<file, backups, idem, handle, last>>

DeleteWorkspaceFile(p, key) ==
    /\ At(p, "idle")
    /\ ~Answered(key, Absent)
    /\ Begin(p, "delete", "probe", Absent, None, key, None)
    /\ UNCHANGED <<file, backups, idem, handle, last>>

\* restoreWorkspaceFile up to its first await: a row without an observed post-mutation
\* state is refused (RESTORE_POSTCONDITION_UNKNOWN).  The row it read is immutable in
\* the columns it uses, so the later steps read it from backups.
RestoreWorkspaceFile(p, i) ==
    /\ At(p, "idle")
    /\ backups[i] # None
    /\ backups[i].post # None
    /\ Begin(p, "restore", "observe", backups[i].prev, None, None, i)
    /\ UNCHANGED <<file, backups, idem, handle, last>>

-----------------------------------------------------------------------------
(* Looking at the file and taking the backup. *)

\* The call throws, or returns.
Leave(p) == call' = [call EXCEPT ![p] = Idle]

Goto(p, pc) == call' = [call EXCEPT ![p].pc = pc, ![p].fresh = TRUE]

\* persistFileBackup / persistAbsentFileBackup of what the call has just read.
Persist(p, pc) ==
    \E i \in Id :
        /\ backups[i] = None
        /\ backups' = [backups EXCEPT ![i] =
               [prev |-> file, post |-> None, did |-> None]]
        /\ call' = [call EXCEPT ![p].pc = pc, ![p].own = i, ![p].fresh = TRUE]

\* INSERT OR IGNORE INTO idempotency_responses.
KeepAnswer(p, answer) ==
    idem' = IF call[p].key = None \/ idem[<<call[p].key, call[p].new>>] # None THEN idem
            ELSE [idem EXCEPT ![<<call[p].key, call[p].new>>] = answer]

\* fs.access and the code after it: the precondition on an absent file fails, an absent
\* file is snapshotted at once, a present one goes on to be read.
ProbeAbsent(p) ==
    /\ At(p, "probe")
    /\ file = Absent
    /\ \/ /\ IsKind(p, {"write"}) /\ call[p].match # None
          /\ Leave(p)
          /\ UNCHANGED <<backups, idem>>
       \/ /\ IsKind(p, {"write", "create"}) /\ call[p].match = None
          /\ Persist(p, "effect")
          /\ UNCHANGED idem
       \/ /\ IsKind(p, {"delete"})
          /\ KeepAnswer(p, Absent)
          /\ Leave(p)
          /\ UNCHANGED backups
    /\ UNCHANGED <<file, handle, last>>

ProbePresent(p) ==
    /\ At(p, "probe")
    /\ file # Absent
    /\ IF IsKind(p, {"create"}) THEN Leave(p)
       ELSE Goto(p, IF call[p].match = None THEN "snapshot" ELSE "match")
    /\ UNCHANGED <<file, backups, idem, handle, last>>

\* The read the precondition is checked against (STALE_WRITE, "Target text was not
\* found"; the read fails if the file has gone).
Match(p) ==
    /\ At(p, "match")
    /\ IF file = call[p].match THEN Goto(p, "snapshot") ELSE Leave(p)
    /\ UNCHANGED <<file, backups, idem, handle, last>>

\* backupFile: reads the file again, whatever was read before.
BackupFile(p) ==
    /\ At(p, "snapshot")
    /\ IF file = Absent THEN Leave(p) /\ UNCHANGED backups
       ELSE Persist(p, IF IsKind(p, {"restore"}) THEN "recheck" ELSE "effect")
    /\ UNCHANGED <<file, idem, handle, last>>

\* currentState() of a restore: already restored, in conflict, or as its mutation left
\* it; bytes about to be displaced are backed up first.
Observe(p) ==
    LET b == backups[call[p].target] IN
    /\ At(p, "observe")
    /\ IF file = b.prev \/ file # b.post THEN Leave(p)
       ELSE Goto(p, IF file = Absent THEN "recheck" ELSE "snapshot")
    /\ UNCHANGED <<file, backups, idem, handle, last>>

\* A restore that trusts the look it took before the backup.
Recheck_Skipped(p) ==
    /\ At(p, "recheck")
    /\ call' = [call EXCEPT ![p].pc = "effect"]
    /\ UNCHANGED <<file, backups, idem, handle, last>>

\* The second look, after the displaced bytes were backed up.
Recheck(p) ==
    /\ At(p, "recheck")
    /\ IF file = backups[call[p].target].post THEN Goto(p, "effect") ELSE Leave(p)
    /\ UNCHANGED <<file, backups, idem, handle, last>>

-----------------------------------------------------------------------------
(* The effect. *)

\* Every look at the file, by any call, is stale; the effect is attributed to the backup of p.
Changed(p, new) ==
    /\ file' = new
    /\ last' = call[p].own
    /\ backups' = IF call[p].own = None THEN backups
                  ELSE [backups EXCEPT ![call[p].own].did = new]

Disturb(p, pc) ==
    call' = [q \in Call |->
        IF q = p THEN [call[p] EXCEPT !.pc = pc, !.match = None, !.steady = FALSE, !.fresh = FALSE]
        ELSE IF At(q, "idle") THEN call[q]
        ELSE [call[q] EXCEPT !.steady = FALSE, !.fresh = FALSE]]

\* The answer kept, and returned, without the post-mutation state.
Apply_Unrecorded(p) ==
    /\ At(p, "effect")
    /\ ~IsKind(p, {"create"})
    /\ IF call[p].new = Absent /\ file = Absent
       THEN Leave(p) /\ UNCHANGED <<file, backups, handle, last>>
       ELSE /\ Changed(p, call[p].new)
            /\ Disturb(p, IF IsKind(p, {"restore"}) THEN "verify" ELSE "store")
            /\ handle' = None
    /\ UNCHANGED idem

\* rename over the target, or unlink (which fails when the file has gone).
Apply(p) ==
    /\ At(p, "effect")
    /\ ~IsKind(p, {"create"})
    /\ IF call[p].new = Absent /\ file = Absent
       THEN Leave(p) /\ UNCHANGED <<file, backups, handle, last>>
       ELSE /\ Changed(p, call[p].new)
            /\ Disturb(p, IF IsKind(p, {"restore"}) THEN "verify" ELSE "record")
            /\ handle' = None
    /\ UNCHANGED idem

\* atomicWrite with flag "wx": the open creates the file empty, or fails ...
OpenExclusive(p) ==
    /\ At(p, "effect")
    /\ IsKind(p, {"create"})
    /\ IF file # Absent
       THEN Leave(p) /\ UNCHANGED <<file, backups, handle, last>>
       ELSE /\ Changed(p, Partial)
            /\ Disturb(p, "body")
            /\ handle' = p
    /\ UNCHANGED idem

\* ... and its bytes go to the file that was opened, which a rename or an unlink may
\* have taken off the path since.
WriteBody(p) ==
    /\ At(p, "body")
    /\ IF handle = p
       THEN Changed(p, call[p].new) /\ Disturb(p, "record")
       ELSE /\ Goto(p, "record")
            /\ backups' = [backups EXCEPT ![call[p].own].did = call[p].new]
            /\ UNCHANGED <<file, last>>
    /\ handle' = IF handle = p THEN None ELSE handle
    /\ UNCHANGED idem

-----------------------------------------------------------------------------
(* Recording what was done. *)

\* A restore looks again before it records anything.
Verify(p) ==
    /\ At(p, "verify")
    /\ IF file # call[p].new THEN Leave(p)
       ELSE Goto(p, IF call[p].own = None THEN "store" ELSE "record")
    /\ UNCHANGED <<file, backups, idem, handle, last>>

\* A restore that records, for the bytes it displaced, the state they replaced.
RecordFileBackupPostcondition_Swapped(p) ==
    /\ At(p, "record")
    /\ backups[call[p].own].post = None
    /\ backups' = [backups EXCEPT ![call[p].own].post =
           IF IsKind(p, {"restore"}) THEN backups[call[p].target].post ELSE call[p].new]
    /\ Goto(p, "store")
    /\ UNCHANGED <<file, idem, handle, last>>

\* recordFileBackupPostcondition, once per row.
RecordFileBackupPostcondition(p) ==
    /\ At(p, "record")
    /\ backups[call[p].own].post = None
    /\ backups' = [backups EXCEPT ![call[p].own].post = call[p].new]
    /\ Goto(p, "store")
    /\ UNCHANGED <<file, idem, handle, last>>

\* persistIdempotentResponse, or markFileBackupRestored; the call returns.
Finish(p) ==
    /\ At(p, "store")
    /\ KeepAnswer(p, call[p].own)
    /\ Leave(p)
    /\ UNCHANGED <<file, backups, handle, last>>

\* The process dies, or a filesystem or database call of this step throws.  The handle
\* of an exclusive create is closed; the file it made stays.
Interrupt(p) ==
    /\ ~At(p, "idle")
    /\ Leave(p)
    /\ handle' = IF handle = p THEN None ELSE handle
    /\ UNCHANGED <<file, backups, idem, last>>

-----------------------------------------------------------------------------
Start(p) ==
    \/ \E new \in Content, match \in Content \cup {None}, key \in Key \cup {None} :
           WriteWorkspaceFile(p, new, match, key)
    \/ \E new \in Content : CreateWorkspaceFile(p, new)
    \/ \E match, new \in Content : ModifyWorkspaceFile(p, match, new)
    \/ \E key \in Key \cup {None} : DeleteWorkspaceFile(p, key)
    \/ \E i \in Id : RestoreWorkspaceFile(p, i)

Step(p) ==
    \/ ProbeAbsent(p) \/ ProbePresent(p) \/ Match(p) \/ BackupFile(p)
    \/ Observe(p) \/ Recheck(p)
    \/ Apply(p) \/ OpenExclusive(p) \/ WriteBody(p)
    \/ Verify(p) \/ RecordFileBackupPostcondition(p) \/ Finish(p)
    \/ Interrupt(p)

Next == \E p \in Call : Start(p) \/ (Step(p) /\ UNCHANGED started)

Spec == Init /\ [][Next]_vars

-----------------------------------------------------------------------------
(* Properties. *)

\* A call reaches its effect only with a row of its own for the state it displaces, or as
\* the restore of a file that is absent; no two calls in flight write the same row, and
\* the row is open until its call records the outcome
\* (filesystem-service.ts:226-227, 274-277, 313-314, 345-346, 434-444: backup, then effect).
BackupBeforeEffect ==
    \A p \in Call :
        LET c == call[p] IN
        /\ c.pc \in {"effect", "body", "record"} =>
               c.own # None \/ (c.kind = "restore" /\ c.pc = "effect")
        /\ c.own # None =>
               /\ backups[c.own] # None
               /\ c.pc # "store" => backups[c.own].post = None
               /\ \A q \in Call \ {p} : call[q].own # c.own

\* A call about to change the file, which no other call changed since this one last
\* looked, has in its backup exactly the bytes it will displace; a restore displaces
\* only the state its mutation left.  If the file did not change since the call began,
\* the precondition still holds as well, and so does the backup of a restore
\* (filesystem-service.ts:256-276, 421-439: check, back up, then act).
EffectDisplacesWhatItSaw ==
    \A p \in Call :
        At(p, "effect") /\ ~IsKind(p, {"create"}) =>
            LET c == call[p] IN
            /\ c.fresh => IF c.kind = "restore" THEN file = backups[c.target].post
                          ELSE file = backups[c.own].prev
            /\ c.steady => /\ c.match # None => file = c.match
                           /\ c.own # None => file = backups[c.own].prev

\* The post-mutation state of a row is a state its own mutation really installed, never
\* one inferred from a mutation that failed or was cut short
\* (file-backup-idempotency.adapter.ts:42-54).
PostIsObserved ==
    \A i \in Id : backups[i] # None /\ backups[i].post # None
                      => backups[i].post = backups[i].did

\* The newest change to the file, once its call recorded it, can be undone: the file is
\* in the state its backup expects, whatever other calls did or half did meanwhile.
LatestReceiptRestorable ==
    last # None /\ backups[last].post # None => file = backups[last].post

\* An answer kept for an idempotency key names a mutation that happened and was
\* recorded, so a retry that gets it is told the truth
\* (filesystem-service.ts:278-283, 345-350).
KeptAnswerIsTrue ==
    \A k \in Key, r \in Request :
        idem[<<k, r>>] \in Id => /\ backups[idem[<<k, r>>]] # None
                             /\ backups[idem[<<k, r>>]].did = r
                             /\ backups[idem[<<k, r>>]].post = r
=============================================================================
