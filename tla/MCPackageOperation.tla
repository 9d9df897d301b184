-------------------------- MODULE MCPackageOperation --------------------------
(* The instances of PackageOperation that TLC checks. *)
EXTENDS PackageOperation

\* One call names a manager whose manifests are listed, one whose entries are globs,
\* one without manifests, a pair no command exists for, a shell command or exec; the
\* other, if there is one, installs with maven, which has no verification command, in
\* the same directory.
Jobs ==
  [o \in Op |->
    IF o = "second" THEN {[manager |-> "maven", action |-> "install"]}
    ELSE {[manager |-> "npm", action |-> "install"], [manager |-> "dotnet", action |-> "remove"],
          [manager |-> "gem", action |-> "install"], [manager |-> "go", action |-> "remove"],
          [manager |-> "shell", action |-> "run"], [manager |-> "exec", action |-> "run"]}]
================================================================================
