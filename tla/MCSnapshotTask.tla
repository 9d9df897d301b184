--------------------------- MODULE MCSnapshotTask ---------------------------
(* Instances of SnapshotTask for TLC. *)
EXTENDS SnapshotTask, TLC

MCBranches == {"main", "work"}

Tips(main, work) == [b \in MCBranches |-> IF b = "main" THEN main ELSE work]

\* Two branches, the second one ahead, in every kind of worktree; a repository
\* without a commit, a directory inside another repository, and no repository.
MCInitialRepos ==
  {[root |-> "here", branch |-> "main", tips |-> Tips(1, 2), at |-> 0, dirt |-> d,
    objects |-> {1, 2}, next |-> 3] : d \in {{}, {"edited"}, {"untracked"}}}
  \cup {[root |-> "here", branch |-> "", tips |-> Tips(1, 0), at |-> 1, dirt |-> {},
         objects |-> {1}, next |-> 2]}
  \cup {[root |-> r, branch |-> "main", tips |-> Tips(0, 0), at |-> 0, dirt |-> {},
         objects |-> {}, next |-> 1] : r \in {"here", "parent", "none"}}

Row(path, cwd, kind) ==
  [path |-> path, cwd |-> cwd, kind |-> kind, head |-> 1, branch |-> "main"]

MCInitialRows ==
  ("file" :> Row("a.txt", "here", "none"))
  @@ ("old" :> Row("__task_snapshot__", "here", "legacy"))
  @@ ("s0" :> Row("__task_snapshot__", "here", "clean_git_snapshot"))
  @@ ("other" :> Row("__task_snapshot__", "there", "clean_git_snapshot"))

Ref(helper, parts) ==
  [ref |-> [helper |-> helper, parts |-> [i \in 1..Len(parts) |-> Segment(parts[i])]]]
Id(helper) == Ref(helper, <<"step1", "output", "snapshotId">>)
Lone(token) == [string |-> <<token>>]

MCDeclared ==
  {Lone(Id(h)) : h \in {"none", "string", "boolean"}}
  \cup {Lone([text |-> t]) : t \in {"file", "old", "other", "s0"}}
  \cup {Lone(Ref("none", <<"step1", "snapshotId">>)),
        Lone(Ref("number", <<"step1", "output", "missing">>)),
        [string |-> <<[text |-> "id"], Id("json")>>],
        [string |-> <<Id("none"), Ref("none", <<"step1", "status">>)>>]}
=============================================================================
