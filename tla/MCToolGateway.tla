----------------------------- MODULE MCToolGateway -----------------------------
(***************************************************************************)
(* Calls for ToolGateway: every tool of the catalogue with the arguments   *)
(* that its gates look at.                                                 *)
(***************************************************************************)
EXTENDS ToolGateway

AllScopes == {"read", "write", "execute", "task", "workspace", "monitoring", "admin"}

Shape(tools, modes, wheres, commands, elevations, owned) ==
  [tool : tools, mode : modes, where : wheres, command : commands, elevation : elevations,
   owned : owned, complete : BOOLEAN, root : {"none", "captured", "uncaptured"},
   level : {"READ", "DEVELOPER", "ADMIN"}, allowUnrestricted : BOOLEAN, bypass : BOOLEAN,
   origin : {"local_stdio", "http_oauth", "unknown"}, scopes : {{"read"}, AllScopes \ {"admin"}, AllScopes}]

Places == {"unset", "inside", "outside"}
Both == {"task", "direct"}

\* Fields that a gate does not look at are fixed.
Relevant(r) ==
  /\ r.origin # "http_oauth" => r.scopes = AllScopes
  /\ r.elevation # "true" => ~r.allowUnrestricted
  /\ r.bypass => r.tool \in APPROVAL_TOOLS \cup {"execute_command"} /\ r.level = "ADMIN"
  /\ r.mode = "direct" => r.root # "uncaptured" /\ r.origin # "unknown"
  /\ ~r.complete => r.level = "ADMIN" /\ r.elevation = "absent"

Calls ==
  {r \in
     Shape(UNRESTRICTED_FILE_OPERATIONS, Both, Places, {"version"}, {"absent", "true", "other"}, {TRUE})
     \cup Shape(GitReads \cup GitWrites \cup PackageTools, Both, Places, {"version"}, {"absent", "true"}, {TRUE})
     \cup Shape({"execute_command"}, Both, Places, CommandKind, {"absent"}, {TRUE})
     \cup Shape({"restore_file", "exec", "task_snapshot", "task_rollback", "add_workspace_roots",
                 "remove_workspace_root"} \cup InfoTools, Both, {"unset"}, {"version"}, {"absent", "true"}, {TRUE})
     \cup Shape({"set_workspace"}, Both, {"inside", "outside"}, {"version"}, {"absent"}, {TRUE})
     \cup Shape(CONTROL_TOOL_NAMES, {"direct"}, {"unset"}, {"version"}, {"absent"}, BOOLEAN)
   : Relevant(r)}

=============================================================================
