----------------------------- MODULE WorkspacePool -----------------------------
(***************************************************************************)
(* Which directory a call may touch.  The allowed roots are rows of the    *)
(* shared database; every process keeps its own copy of them (the pool), a *)
(* selection of its own, a selection for each connected principal, and the *)
(* project handles it has minted.  Chats of one principal share everything *)
(* except the handle each of them was given.                               *)
(*                                                                         *)
(* The module describes one server process.  Other processes appear through*)
(* what they do to the shared rows and to the directories on disk.  SQLite *)
(* and the file-system probes are synchronous, so that a handler is one    *)
(* action up to its next await.                                            *)
(***************************************************************************)
EXTENDS Integers, FiniteSets

CONSTANTS Root,          \* directories that may become projects
          NoRoot,        \* the null of the code
          Principal,     \* authenticated connections
          Chat,          \* conversations
          Owner,         \* the principal of each conversation
          Jail,          \* the Context root of each principal, NoRoot without
          EnvRoots,      \* HOOSHIX_WORKSPACE
          Fragile,       \* directories that may disappear and come back
          ContextCap,    \* cap of HttpPrincipalContexts
          HandleCap,     \* cap of ProjectHandleStore
          MaxHandles,    \* bound: handles minted
          MaxChanges,    \* bound: root changes by Task steps
          MaxTroubles    \* bound: failed writes, lost directories, restarts and
                         \* root changes by other processes

ASSUME RootAssumption == /\ NoRoot \notin Root
                         /\ EnvRoots \subseteq Root /\ Fragile \subseteq Root
                         /\ IsFiniteSet(Root)
ASSUME ChatAssumption == /\ Owner \in [Chat -> Principal]
                         /\ Jail \in [Principal -> Root \cup {NoRoot}]
ASSUME LimitAssumption == /\ ContextCap \in Nat /\ HandleCap \in Nat /\ MaxHandles \in Nat
                          /\ MaxChanges \in Nat /\ MaxTroubles \in Nat

Handle == 1..MaxHandles

VARIABLES persisted,     \* rows of workspace_roots
          disk,          \* directories that exist
          initialized,   \* initWorkspaceRoots has run
          workspaceRoots,\* the pool of this process
          activeWorkspace,
          session,       \* activeRoot of each principal's context, or "absent"
          entries,       \* the handle store
          minted,        \* handles minted so far
          held,          \* the handle each chat was given, 0 for none
          opened,        \* ghost: the project the chat asked for
          selecting,     \* the set_workspace between its selection and its handle
          task,          \* the Task, with its owner and the workspace it captured
          last,          \* the scope of the call resolved by the last step
          changes, foreign, faults

poolVars == <<persisted, disk, initialized, workspaceRoots, activeWorkspace, session, entries,
          minted, held, opened, selecting, task, last, changes, foreign, faults>>

roots    == <<persisted, initialized, workspaceRoots, activeWorkspace>>
handles  == <<entries, minted, held, opened>>
counters == <<changes, foreign, faults>>

Entry == [owner : Principal, root : Root, state : {"live", "expired", "deleted"}]
Scope == [chat : Chat, via : {"handle", "selection", "jail", "task"}, root : Root \cup {NoRoot},
          bound : BOOLEAN]
NoTask == [owner |-> "none"]
NoSelect == [chat |-> "none"]
NoCall == [via |-> "none"]

PoolTypeOK ==
  /\ persisted \subseteq Root /\ disk \subseteq Root /\ workspaceRoots \subseteq Root
  /\ initialized \in BOOLEAN
  /\ activeWorkspace \in Root \cup {NoRoot}
  /\ session \in [Principal -> Root \cup {NoRoot, "absent"}]
  /\ minted \in 0..MaxHandles
  /\ entries \in [1..minted -> Entry]
  /\ held \in [Chat -> 0..minted]
  /\ opened \in [Chat -> Root \cup {NoRoot}]
  /\ selecting \in {NoSelect} \cup [chat : Chat, root : Root]
  /\ task \in {NoTask} \cup [owner : Principal, root : Root \cup {NoRoot}]
  /\ last \in Scope \cup {NoCall}
  /\ changes \in 0..MaxChanges /\ foreign \in 0..MaxTroubles /\ faults \in 0..MaxTroubles

PoolInit ==
  /\ persisted \in SUBSET Root
  /\ disk = Root
  /\ initialized = FALSE /\ workspaceRoots = {} /\ activeWorkspace = NoRoot
  /\ session = [p \in Principal |-> "absent"]
  /\ entries = <<>> /\ minted = 0
  /\ held = [c \in Chat |-> 0] /\ opened = [c \in Chat |-> NoRoot]
  /\ selecting = NoSelect /\ task = NoTask
  /\ last = NoCall
  /\ changes = 0 /\ foreign = 0 /\ faults = 0

MoreTrouble == foreign + faults < MaxTroubles

-----------------------------------------------------------------------------
(* The pool and the selections *)

OnlyMember(S) == CHOOSE r \in S : TRUE

ExistingProjects == workspaceRoots \cap disk

\* A selection counts only while its directory exists and is in the pool.
Usable(r) == IF r \in ExistingProjects THEN r ELSE NoRoot

\* createSessionWorkspaceContext: a new context starts from the process selection.
ActiveRootOf(p) == IF session[p] = "absent" THEN Usable(activeWorkspace) ELSE session[p]

getWorkspaceRoot(p) == Usable(ActiveRootOf(p))

\* HttpPrincipalContexts.get: a new context only below the cap.
HasContext(p) ==
  \/ session[p] # "absent"
  \/ Cardinality({q \in Principal : session[q] # "absent"}) < ContextCap

\* The request of chat c enters its principal's context, whose selection becomes r.
EnterContext(c, r) == session' = [session EXCEPT ![Owner[c]] = r]

\* The first use of the pool: stored roots, then the environment's, and the
\* only root there is becomes the process selection.
initWorkspaceRoots ==
  /\ ~initialized
  /\ initialized' = TRUE
  /\ persisted' = persisted \cup (EnvRoots \cap disk)
  /\ workspaceRoots' = persisted'
  /\ activeWorkspace' = IF /\ activeWorkspace = NoRoot /\ Cardinality(persisted') = 1
                           /\ persisted' \subseteq disk
                        THEN OnlyMember(persisted') ELSE activeWorkspace
  /\ last' = NoCall
  /\ UNCHANGED <<disk, session, selecting, task, handles, counters>>

\* The database fails one of its statements: the flag is already set, so that
\* the pool stays at what had been read.
InitFails ==
  /\ ~initialized /\ MoreTrouble
  /\ faults' = faults + 1
  /\ initialized' = TRUE
  /\ \E seeded \in SUBSET (EnvRoots \cap disk) : persisted' = persisted \cup seeded
  /\ \/ workspaceRoots' = {} /\ persisted' = persisted
     \/ workspaceRoots' = persisted
  /\ last' = NoCall
  /\ UNCHANGED <<disk, activeWorkspace, session, selecting, task, handles, changes, foreign>>

-----------------------------------------------------------------------------
(* Project handles *)

LiveEntries == {h \in 1..minted : entries[h].state = "live"}

\* prune deletes what has expired; the others stay.
prune(e) == [h \in DOMAIN e |-> IF e[h].state = "expired" THEN [e[h] EXCEPT !.state = "deleted"]
                                ELSE e[h]]

EntriesFor_AnyRoot(p, r) == {h \in LiveEntries : entries[h].owner = p}
EntriesFor(p, r) == {h \in LiveEntries : entries[h].owner = p /\ entries[h].root = r}

Owned(p) == {h \in LiveEntries : entries[h].owner = p}

\* mint: the live handle of the same principal and root, or a new one below the cap.
mint(p, r, h) ==
  \/ /\ h \in EntriesFor(p, r)
     /\ entries' = prune(entries) /\ UNCHANGED minted
  \/ /\ EntriesFor(p, r) = {} /\ minted < MaxHandles
     /\ Cardinality(Owned(p)) < HandleCap
     /\ h = minted + 1 /\ minted' = h
     /\ entries' = [i \in 1..h |-> IF i = h THEN [owner |-> p, root |-> r, state |-> "live"]
                                   ELSE prune(entries)[i]]

\* mint throws at the cap, having pruned.
mintRefused(p, r) == EntriesFor(p, r) = {} /\ Cardinality(Owned(p)) >= HandleCap

\* resolve, for the handle the chat sends.
resolve(c) ==
  /\ held[c] # 0 /\ entries[held[c]].state = "live"
  /\ entries[held[c]].owner = Owner[c]
  /\ entries[held[c]].root \in workspaceRoots

\* close: only a handle of the caller's principal.
closeHandle(p, h) ==
  /\ entries[h].state # "deleted" /\ entries[h].owner = p
  /\ entries' = [entries EXCEPT ![h].state = "deleted"]

\* resolveProjectSelector: a path or an unambiguous name of a root of the pool, if
\* the directory exists.
resolveProjectSelector(r) == r \in ExistingProjects

\* What a failed resolve leaves: an expired handle, or one whose root has left
\* the pool, is deleted.
resolveFails(h) == [entries EXCEPT ![h].state = "deleted"]

Gives(c, h, r) == held' = [held EXCEPT ![c] = h] /\ opened' = [opened EXCEPT ![c] = r]

-----------------------------------------------------------------------------
(* Calls *)

\* enforcementJailRoot creates the directory; when that fails there is no jail.
JailOf(c) == Jail[Owner[c]]

MakesJail(c) == disk' = disk \cup {JailOf(c)} /\ UNCHANGED faults

JailLost(c) == JailOf(c) # NoRoot /\ JailOf(c) \notin disk /\ MoreTrouble

Resolved(c, via, r, bound) ==
  last' = [chat |-> c, via |-> via, root |-> r, bound |-> bound]

\* open_project
openProject(c, r) ==
  /\ initialized /\ HasContext(Owner[c])
  /\ EnterContext(c, ActiveRootOf(Owner[c]))
  /\ resolveProjectSelector(r)
  /\ \E h \in Handle : mint(Owner[c], r, h) /\ Gives(c, h, r)
  /\ last' = NoCall
  /\ UNCHANGED <<disk, selecting, task, roots, counters>>

\* The handle is minted and then the decision row fails: the chat gets an error.
OpenUndelivered(c, r) ==
  /\ initialized /\ HasContext(Owner[c]) /\ MoreTrouble
  /\ faults' = faults + 1
  /\ EnterContext(c, ActiveRootOf(Owner[c]))
  /\ resolveProjectSelector(r)
  /\ \E h \in Handle : mint(Owner[c], r, h)
  /\ last' = NoCall
  /\ UNCHANGED <<disk, selecting, task, held, opened, roots, changes, foreign>>

\* close_project
closeProject(c) ==
  /\ initialized /\ HasContext(Owner[c])
  /\ EnterContext(c, ActiveRootOf(Owner[c]))
  /\ held[c] # 0 /\ closeHandle(Owner[c], held[c])
  /\ last' = NoCall
  /\ UNCHANGED <<disk, selecting, task, minted, held, opened, roots, counters>>

\* A project-scoped call that carries the chat's handle.
callWithHandle(c) ==
  /\ initialized /\ HasContext(Owner[c]) /\ held[c] # 0
  /\ EnterContext(c, ActiveRootOf(Owner[c]))
  /\ \/ /\ resolve(c)
        /\ LET r == entries[held[c]].root IN
           \/ /\ JailOf(c) = NoRoot /\ UNCHANGED <<disk, faults>>
              /\ Resolved(c, "handle", r, TRUE)
           \/ /\ JailOf(c) # NoRoot /\ MakesJail(c)
              /\ IF JailOf(c) = r THEN Resolved(c, "jail", r, TRUE) ELSE last' = NoCall
           \/ /\ JailLost(c) /\ faults' = faults + 1 /\ UNCHANGED disk
              /\ Resolved(c, "handle", r, TRUE)
        /\ UNCHANGED entries
     \/ /\ ~resolve(c)
        /\ entries' = IF entries[held[c]].owner = Owner[c] \/ entries[held[c]].state = "expired"
                      THEN resolveFails(held[c]) ELSE entries
        /\ last' = NoCall /\ UNCHANGED <<disk, faults>>
  /\ UNCHANGED <<selecting, task, minted, held, opened, roots, changes, foreign>>

\* A project-scoped call without one: refused where several projects exist.
Ambiguous_OffByOne == Cardinality(ExistingProjects) > 2
Ambiguous == Cardinality(ExistingProjects) >= 2

callUntargeted(c) ==
  /\ initialized /\ HasContext(Owner[c])
  /\ EnterContext(c, ActiveRootOf(Owner[c]))
  /\ \/ /\ JailOf(c) = NoRoot /\ ~Ambiguous /\ UNCHANGED <<disk, faults>>
        /\ Resolved(c, "selection", getWorkspaceRoot(Owner[c]), FALSE)
     \/ /\ JailOf(c) # NoRoot /\ MakesJail(c)
        /\ Resolved(c, "jail", JailOf(c), FALSE)
     \/ /\ JailLost(c) /\ ~Ambiguous /\ faults' = faults + 1 /\ UNCHANGED disk
        /\ Resolved(c, "selection", getWorkspaceRoot(Owner[c]), FALSE)
  /\ UNCHANGED <<selecting, task, handles, roots, changes, foreign>>

\* set_workspace: policy and handler both require an existing root of the pool.
setActiveWorkspace(c, r) ==
  /\ initialized /\ HasContext(Owner[c]) /\ selecting = NoSelect
  /\ r \in ExistingProjects
  /\ EnterContext(c, r)
  /\ selecting' = [chat |-> c, root |-> r]
  /\ last' = NoCall
  /\ UNCHANGED <<disk, task, handles, roots, counters>>

\* ... and, after the handler's promise, a handle for the selected root.
setWorkspaceHandle(c) ==
  /\ selecting # NoSelect /\ selecting.chat = c
  /\ \/ \E h \in Handle : mint(Owner[c], selecting.root, h) /\ Gives(c, h, selecting.root)
     \/ /\ mintRefused(Owner[c], selecting.root)
        /\ entries' = prune(entries) /\ UNCHANGED <<minted, held, opened>>
  /\ selecting' = NoSelect
  /\ last' = NoCall
  /\ UNCHANGED <<disk, session, task, roots, counters>>

-----------------------------------------------------------------------------
(* Tasks *)

\* task_create is a project-scoped call: the plan keeps the root it resolved to.
taskCreate(c) ==
  /\ last # NoCall /\ last.via # "task" /\ last.chat = c /\ task = NoTask
  /\ task' = [owner |-> Owner[c], root |-> last.root]
  /\ last' = NoCall
  /\ UNCHANGED <<disk, session, selecting, handles, roots, counters>>

\* resolveTaskWorkspace: against the stored rows, never the pool.
resolveTaskWorkspace_Pool == task.root \in disk /\ task.root \in workspaceRoots
resolveTaskWorkspace == task.root \in disk /\ task.root \in persisted

TaskRuns(c) == initialized /\ HasContext(Owner[c]) /\ task # NoTask /\ task.owner = Owner[c]

\* A step of the Task works in the captured root.
runTaskStep(c) ==
  /\ TaskRuns(c) /\ EnterContext(c, ActiveRootOf(Owner[c]))
  /\ resolveTaskWorkspace
  /\ Resolved(c, "task", task.root, FALSE)
  /\ UNCHANGED <<disk, selecting, task, handles, roots, counters>>

\* Pool steps also run for a plan without a workspace.
MayChangePool(c) ==
  /\ TaskRuns(c) /\ changes < MaxChanges
  /\ task.root = NoRoot \/ resolveTaskWorkspace

\* The first root of an empty pool becomes the selection of a caller without one.
FirstSelection(c, r) ==
  IF workspaceRoots = {} /\ ActiveRootOf(Owner[c]) = NoRoot THEN r ELSE ActiveRootOf(Owner[c])

\* add_workspace_roots with the paths r and, unless NoRoot, s; a path that does
\* not exist ends the call, after the paths before it have been added.
addWorkspaceRoots_CacheOnly(c, r, s) ==
  /\ MayChangePool(c) /\ r \in disk /\ changes' = changes + 1
  /\ workspaceRoots' = workspaceRoots \cup {r}
  /\ EnterContext(c, FirstSelection(c, r))
  /\ last' = NoCall
  /\ UNCHANGED <<persisted, disk, selecting, task, handles, initialized, activeWorkspace, foreign, faults>>
addWorkspaceRoots(c, r, s) ==
  /\ MayChangePool(c) /\ r \in disk /\ r # s
  /\ changes' = changes + 1
  /\ LET added == {r} \cup ({s} \cap disk) IN
     /\ persisted' = persisted \cup added
     /\ workspaceRoots' = workspaceRoots \cup added
  /\ EnterContext(c, IF s \in Root \ disk THEN ActiveRootOf(Owner[c]) ELSE FirstSelection(c, r))
  /\ last' = NoCall
  /\ UNCHANGED <<disk, selecting, task, handles, initialized, activeWorkspace, foreign, faults>>

\* remove_workspace_root: not the selection of the process or of the caller.
removeWorkspaceRoot(c, r) ==
  /\ MayChangePool(c) /\ r \in workspaceRoots
  /\ r # activeWorkspace /\ r # getWorkspaceRoot(Owner[c])
  /\ changes' = changes + 1
  /\ EnterContext(c, ActiveRootOf(Owner[c]))
  /\ persisted' = persisted \ {r}
  /\ workspaceRoots' = workspaceRoots \ {r}
  /\ last' = NoCall
  /\ UNCHANGED <<disk, selecting, task, handles, initialized, activeWorkspace, foreign, faults>>

-----------------------------------------------------------------------------
(* The surroundings *)

\* Another process adds or removes a stored root.
OtherProcess(r) ==
  /\ MoreTrouble /\ foreign' = foreign + 1
  /\ \/ r \in disk /\ persisted' = persisted \cup {r}
     \/ persisted' = persisted \ {r}
  /\ last' = NoCall
  /\ UNCHANGED <<disk, initialized, workspaceRoots, activeWorkspace, session, selecting, task,
                 handles, changes, faults>>

\* A directory disappears (an unplugged drive, a rename) or is back.
DirectoryChanges(r) ==
  /\ r \in Fragile
  /\ \/ r \in disk /\ MoreTrouble /\ faults' = faults + 1 /\ disk' = disk \ {r}
     \/ r \notin disk /\ disk' = disk \cup {r} /\ UNCHANGED faults
  /\ last' = NoCall
  /\ UNCHANGED <<session, selecting, task, handles, roots, changes, foreign>>

\* A handle reaches its expiry time.
HandleExpires(h) ==
  /\ h \in LiveEntries
  /\ entries' = [entries EXCEPT ![h].state = "expired"]
  /\ last' = NoCall
  /\ UNCHANGED <<disk, session, selecting, task, minted, held, opened, roots, counters>>

\* A principal's context is idle or old: the next request of anyone deletes it.
ContextExpires(p) ==
  /\ session[p] # "absent"
  /\ session' = [session EXCEPT ![p] = "absent"]
  /\ last' = NoCall
  /\ UNCHANGED <<disk, selecting, task, handles, roots, counters>>

\* The process stops and starts again: only the database survives.  The chats
\* still hold their handles.
Restart ==
  /\ initialized /\ MoreTrouble /\ faults' = faults + 1
  /\ initialized' = FALSE /\ workspaceRoots' = {} /\ activeWorkspace' = NoRoot
  /\ session' = [p \in Principal |-> "absent"]
  /\ entries' = [h \in 1..minted |-> [entries[h] EXCEPT !.state = "deleted"]]
  /\ selecting' = NoSelect
  /\ last' = NoCall
  /\ UNCHANGED <<persisted, disk, minted, held, opened, task, changes, foreign>>

PoolNext ==
  \/ initWorkspaceRoots \/ InitFails \/ Restart
  \/ \E c \in Chat : \/ callWithHandle(c) \/ callUntargeted(c) \/ closeProject(c) \/ setWorkspaceHandle(c)
                     \/ taskCreate(c) \/ runTaskStep(c)
  \/ \E c \in Chat, r \in Root : \/ openProject(c, r) \/ OpenUndelivered(c, r)
                                 \/ setActiveWorkspace(c, r) \/ removeWorkspaceRoot(c, r)
  \/ \E c \in Chat, r \in Root, s \in Root \cup {NoRoot} : addWorkspaceRoots(c, r, s)
  \/ \E r \in Root : OtherProcess(r) \/ DirectoryChanges(r)
  \/ \E h \in Handle : HandleExpires(h)
  \/ \E p \in Principal : ContextExpires(p)

PoolSpec == PoolInit /\ [][PoolNext]_poolVars

-----------------------------------------------------------------------------
(* Properties *)

\* Correct scoping (withR2Gateway, currentScope): a call without a handle runs
\* only where nothing could be confused, that is in the one project that exists
\* or in none; two chats of one connection never work in each other's selection.
UntargetedUnambiguous ==
  last.via = "selection" =>
    /\ Cardinality(ExistingProjects) <= 1
    /\ last.root \in ExistingProjects \cup {NoRoot}

\* Correct scoping (resolveProjectHandle): a call that carries a handle runs in
\* the project this chat opened, whatever was closed, expired, refreshed, removed
\* or restarted since, and only while that project is in the pool.
ChatStaysOnItsProject ==
  last # NoCall /\ last.bound => last.root = opened[last.chat] /\ last.root \in workspaceRoots

\* Correct scoping (resolveTaskWorkspace): a Task step works in a directory that
\* the database allows at that moment, also when another process withdrew it.
TaskRootIsStored == last.via = "task" => last.root \in persisted \cap disk

\* Durability of grants (addWorkspaceRoots, removeWorkspaceRoot): as long as no
\* other process writes, the pool never holds a root the database does not, even
\* after a failed start or an addition that stopped half-way.
PoolWithinStore == foreign = 0 => workspaceRoots \subseteq persisted

=============================================================================
