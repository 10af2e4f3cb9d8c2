-------------------------------- MODULE Setup --------------------------------
(***************************************************************************)
(* prompt-better init: runInstall and runUninstall of setup.go, over the   *)
(* integration config, the skill, the ownership manifest and the MCP       *)
(* registration that codex keeps.  One command runs at a time; it may      *)
(* crash or fail at any step, and the user edits files meanwhile.          *)
(***************************************************************************)
EXTENDS Naturals, FiniteSets

CONSTANTS
  Options,     \* option sets init may be called with; each has its own config
  UserActs,    \* what the user does: subset of {"modify", "delete", "create", "register"}
  MaxEdits,    \* bound: edits of the user
  MaxFaults    \* bound: crashes and failed steps

ASSUME SetupAssumption ==
  /\ Options # {}
  /\ UserActs \subseteq {"modify", "delete", "create", "register"}
  /\ MaxEdits \in Nat /\ MaxFaults \in Nat

Owned == {"config", "skill"}
Files == Owned \cup {"manifest"}

Absent == [kind |-> "absent"]
User   == [kind |-> "user"]
Skill  == [kind |-> "skill"]
Of(o)  == [kind |-> "of", options |-> o]

None   == [kind |-> "none"]
Other  == [kind |-> "other"]
Plugin == [kind |-> "plugin"]

Registrations == {None, Other, Plugin} \cup {Of(o) : o \in Options}

Contents == {Absent, User, Skill} \cup {Of(o) : o \in Options}

\* What init writes: the config and the manifest depend on the options.
Expected(f, o) == IF f = "skill" THEN Skill ELSE Of(o)

NothingStaged == [f \in Files |-> Absent]

VARIABLES
  files,    \* the three files
  staged,   \* files renamed aside by the running uninstall
  litter,   \* staged files of uninstalls that crashed
  reg,      \* the registration of the name in codex
  plugin,   \* whether a plugin registers the same name
  run,      \* the running command
  edits, faults

vars == <<files, staged, litter, reg, plugin, run, edits, faults>>

IdleRun == [pc |-> "idle", op |-> "none", options |-> CHOOSE o \in Options : TRUE,
            todo |-> {}, missing |-> {}, found |-> None, taken |-> {}, touched |-> FALSE,
            called |-> FALSE, before |-> [f \in Files |-> Absent]]

Installing == {"check", "query", "write", "register", "verify", "rollback"}
Removing == {"removalCheck", "removalQuery", "stage", "inspect", "unregister", "restore", "remove"}

Runs == [ pc : {"idle", "noop"} \cup Installing \cup Removing, op : {"none", "install", "uninstall"},
          options : Options, todo : SUBSET Files, missing : SUBSET Files,
          found : Registrations, taken : SUBSET Owned, touched : BOOLEAN,
          called : BOOLEAN, before : [Files -> Contents] ]

Init ==
  /\ files = [f \in Files |-> Absent]
  /\ staged = NothingStaged /\ litter = {}
  /\ reg = None /\ plugin \in BOOLEAN
  /\ run = IdleRun
  /\ edits = 0 /\ faults = 0

-----------------------------------------------------------------------------
(* The user *)

Edit(kind) ==
  /\ kind \in UserActs /\ edits < MaxEdits
  /\ edits' = edits + 1
  /\ run' = [run EXCEPT !.touched = TRUE]
  /\ UNCHANGED <<staged, litter, faults>>

Modify(f) ==
  /\ files[f] # Absent
  /\ files' = [files EXCEPT ![f] = User]
  /\ Edit("modify") /\ UNCHANGED reg

Delete(f) ==
  /\ files[f] # Absent
  /\ files' = [files EXCEPT ![f] = Absent]
  /\ Edit("delete") /\ UNCHANGED reg

Create(f) ==
  /\ files[f] = Absent
  /\ files' = [files EXCEPT ![f] = User]
  /\ Edit("create") /\ UNCHANGED reg

Register(r) ==
  /\ reg' = r
  /\ Edit("register") /\ UNCHANGED files

-----------------------------------------------------------------------------
(* Steps of both commands *)

Fault == faults < MaxFaults /\ faults' = faults + 1
NoFault == UNCHANGED faults

Goto(pc) == run' = [run EXCEPT !.pc = pc]
Ends == run' = IdleRun

\* getRegistration: a plugin shows through where codex has no registration.
getRegistration == IF reg = None /\ plugin THEN Plugin ELSE reg

\* A failed query ends the command.
QueryFails ==
  /\ run.pc \in {"query", "removalQuery"}
  /\ Fault /\ Ends
  /\ UNCHANGED <<files, staged, litter, reg, edits>>

\* Steps already taken stay, staged files included; nothing is undone.
Crash ==
  /\ run.pc # "idle"
  /\ Fault /\ Ends
  /\ staged' = NothingStaged
  /\ litter' = litter \cup {staged[f] : f \in Files}
  /\ UNCHANGED <<files, reg, edits>>

-----------------------------------------------------------------------------
(* runInstall *)

StartInstall(o) ==
  /\ run.pc = "idle"
  /\ run' = [IdleRun EXCEPT !.pc = "check", !.op = "install", !.options = o, !.todo = Files,
                            !.before = files]
  /\ UNCHANGED <<files, staged, litter, reg, edits, faults>>

\* Mutant: a manifest of other options will do.
fileState_OwnedOnly(f, o) ==
  CASE files[f] = Absent -> "missing"
    [] files[f] = Expected(f, o) \/ (f = "manifest" /\ files[f] # User) -> "same"
    [] OTHER -> "conflict"

fileState(f, o) ==
  CASE files[f] = Absent -> "missing"
    [] files[f] = Expected(f, o) -> "same"
    [] OTHER -> "conflict"

\* The files are compared, the manifest last; a conflict ends the command.
CheckFile(f) ==
  /\ run.pc = "check"
  /\ f \in run.todo /\ (f = "manifest" => run.todo = {"manifest"})
  /\ LET state == fileState(f, run.options)
     IN  IF state = "conflict" THEN Ends
         ELSE run' = [run EXCEPT !.todo = @ \ {f},
                                 !.missing = IF state = "missing" THEN @ \cup {f} ELSE @,
                                 !.pc = IF run.todo = {f} THEN "query" ELSE "check"]
  /\ UNCHANGED <<files, staged, litter, reg, edits, faults>>

\* A registration that is neither the expected one nor the plugin's is a conflict.  Without
\* --apply the command ends here.
QueryInstall(apply) ==
  /\ run.pc = "query"
  /\ IF apply /\ getRegistration \in {None, Plugin, Of(run.options)}
     THEN run' = [run EXCEPT !.pc = "write", !.found = getRegistration, !.todo = run.missing]
     ELSE Ends
  /\ UNCHANGED <<files, staged, litter, reg, edits, faults>>

Rollback == run' = [run EXCEPT !.pc = "rollback", !.todo = run.missing]

\* os.Link never replaces a file.
Link(f) == files[f] = Absent /\ files' = [files EXCEPT ![f] = Expected(f, run.options)]

\* atomicWrite of the missing files, the manifest last.
WriteFile(f) ==
  /\ run.pc = "write"
  /\ f \in run.todo /\ (f = "manifest" => run.todo = {"manifest"})
  /\ \/ /\ Link(f)
        /\ run' = [run EXCEPT !.todo = @ \ {f}]
        /\ NoFault
     \/ /\ files[f] # Absent
        /\ Rollback /\ NoFault /\ UNCHANGED files
     \/ /\ Fault
        /\ Rollback /\ (Link(f) \/ UNCHANGED files)
  /\ UNCHANGED <<staged, litter, reg, edits>>

\* Mutant: a registration shown by the plugin is taken for ours.
NeedsRegistration_Plugin == run.found = None

NeedsRegistration == run.found \in {None, Plugin}

WritesDone ==
  /\ run.pc = "write" /\ run.todo = {}
  /\ IF NeedsRegistration THEN run' = [run EXCEPT !.pc = "register", !.called = TRUE] ELSE Ends
  /\ UNCHANGED <<files, staged, litter, reg, edits, faults>>

\* codex mcp add; it may fail, before or after it took effect.
AddRegistration ==
  /\ run.pc = "register"
  /\ \/ reg' = Of(run.options) /\ Goto("verify") /\ NoFault
     \/ Fault /\ Rollback /\ reg' \in {reg, Of(run.options)}
  /\ UNCHANGED <<files, staged, litter, edits>>

\* The registration is read back, and removed again when it is not the expected one.
Verify ==
  /\ run.pc = "verify"
  /\ \/ getRegistration = Of(run.options) /\ Ends /\ NoFault /\ UNCHANGED reg
     \/ getRegistration # Of(run.options) /\ reg' = None /\ Rollback /\ NoFault
     \/ reg' \in {reg, None} /\ Rollback /\ Fault
  /\ UNCHANGED <<files, staged, litter, edits>>

\* Mutant: the manifest is left behind.
removeNewFiles_Owned(f) == files' = [files EXCEPT ![f] = IF f = "manifest" THEN @ ELSE Absent]

\* removeNewFiles: whatever is at the paths that were missing.
removeNewFiles(f) == files' = [files EXCEPT ![f] = Absent]

RollbackFile(f) ==
  /\ run.pc = "rollback" /\ f \in run.todo
  /\ removeNewFiles(f)
  /\ run' = [run EXCEPT !.todo = @ \ {f}]
  /\ UNCHANGED <<staged, litter, reg, edits, faults>>

RollbackDone ==
  /\ run.pc = "rollback" /\ run.todo = {}
  /\ Ends
  /\ UNCHANGED <<files, staged, litter, reg, edits, faults>>

-----------------------------------------------------------------------------
(* runUninstall *)

\* A manifest that is not ours is refused.
StartUninstall ==
  /\ run.pc = "idle"
  /\ files["manifest"] \in {Of(o) : o \in Options}
  /\ run' = [IdleRun EXCEPT !.pc = "removalCheck", !.op = "uninstall",
                            !.options = files["manifest"].options, !.todo = Owned,
                            !.before = files]
  /\ UNCHANGED <<files, staged, litter, reg, edits, faults>>

\* Without a manifest the command answers uninstall_noop, with success, and does
\* not look at the files or the registration.
StartWithoutManifest ==
  /\ run.pc = "idle"
  /\ files["manifest"] = Absent
  /\ run' = [IdleRun EXCEPT !.pc = "noop"]
  /\ UNCHANGED <<files, staged, litter, reg, edits, faults>>

ReportNoop ==
  /\ run.pc = "noop"
  /\ Ends
  /\ UNCHANGED <<files, staged, litter, reg, edits, faults>>

\* A file that is missing or modified ends the command.
CheckOwned(f) ==
  /\ run.pc = "removalCheck" /\ f \in run.todo
  /\ IF files[f] = Expected(f, run.options)
     THEN run' = [run EXCEPT !.todo = @ \ {f},
                             !.pc = IF run.todo = {f} THEN "removalQuery" ELSE @]
     ELSE Ends
  /\ UNCHANGED <<files, staged, litter, reg, edits, faults>>

QueryUninstall(apply) ==
  /\ run.pc = "removalQuery"
  /\ IF apply /\ getRegistration \in {None, Of(run.options)}
     THEN run' = [run EXCEPT !.pc = "stage", !.found = getRegistration, !.todo = Owned]
     ELSE Ends
  /\ UNCHANGED <<files, staged, litter, reg, edits, faults>>

\* The file is renamed aside, then read.
StageFile(f) ==
  /\ run.pc = "stage" /\ f \in run.todo
  /\ \/ /\ files[f] # Absent
        /\ staged' = [staged EXCEPT ![f] = files[f]]
        /\ files' = [files EXCEPT ![f] = Absent]
        /\ run' = [run EXCEPT !.pc = "inspect", !.todo = {f}]
        /\ NoFault
     \/ /\ (files[f] = Absent /\ NoFault) \/ Fault
        /\ Goto("restore")
        /\ UNCHANGED <<files, staged>>
  /\ UNCHANGED <<litter, reg, edits>>

\* Mutant: a staged file is not read again.
StagedAsExpected_Always(f) == TRUE

StagedAsExpected(f) == staged[f] = Expected(f, run.options)

\* A file that changed since it was checked is renamed back.
InspectStaged(f) ==
  /\ run.pc = "inspect" /\ f \in run.todo
  /\ \/ /\ StagedAsExpected(f) /\ NoFault
        /\ run' = [run EXCEPT !.taken = @ \cup {f}, !.todo = Owned \ (run.taken \cup {f}),
                              !.pc = IF Owned = run.taken \cup {f} THEN "unregister" ELSE "stage"]
        /\ UNCHANGED <<files, staged>>
     \/ /\ (~StagedAsExpected(f) /\ NoFault) \/ Fault
        /\ files' = [files EXCEPT ![f] = staged[f]]
        /\ staged' = [staged EXCEPT ![f] = Absent]
        /\ Goto("restore")
  /\ UNCHANGED <<litter, reg, edits>>

removeRegistration == IF run.found = None THEN reg ELSE None

\* codex mcp remove, unless there was no registration.
RemoveRegistration ==
  /\ run.pc = "unregister"
  /\ \/ /\ NoFault
        /\ reg' = removeRegistration
        /\ run' = [run EXCEPT !.pc = "remove", !.todo = run.taken]
     \/ /\ run.found # None /\ Fault
        /\ reg' \in {reg, None} /\ Goto("restore")
  /\ UNCHANGED <<files, staged, litter, edits>>

\* restoreStagedFiles: each is renamed back, over whatever is there.
RestoreFile(f) ==
  /\ run.pc = "restore" /\ f \in run.taken
  /\ files' = [files EXCEPT ![f] = staged[f]]
  /\ staged' = [staged EXCEPT ![f] = Absent]
  /\ run' = [run EXCEPT !.taken = @ \ {f}]
  /\ UNCHANGED <<litter, reg, edits, faults>>

RestoreDone ==
  /\ run.pc = "restore" /\ run.taken = {}
  /\ Ends
  /\ UNCHANGED <<files, staged, litter, reg, edits, faults>>

\* The staged files go one by one, then the manifest; a failure ends the command
\* where it is, as Crash does.
RemoveStaged(f) ==
  /\ run.pc = "remove" /\ f \in run.todo
  /\ staged' = [staged EXCEPT ![f] = Absent]
  /\ run' = [run EXCEPT !.todo = @ \ {f}]
  /\ UNCHANGED <<files, litter, reg, edits, faults>>

RemoveManifest ==
  /\ run.pc = "remove" /\ run.todo = {}
  /\ files' = [files EXCEPT !["manifest"] = Absent]
  /\ Ends
  /\ UNCHANGED <<staged, litter, reg, edits, faults>>

-----------------------------------------------------------------------------

Install ==
  \/ \E o \in Options : StartInstall(o)
  \/ \E f \in Files : CheckFile(f) \/ WriteFile(f) \/ RollbackFile(f)
  \/ \E apply \in BOOLEAN : QueryInstall(apply)
  \/ WritesDone \/ AddRegistration \/ Verify \/ RollbackDone

Uninstall ==
  \/ StartUninstall \/ StartWithoutManifest \/ ReportNoop
  \/ RemoveRegistration \/ RestoreDone \/ RemoveManifest
  \/ \E apply \in BOOLEAN : QueryUninstall(apply)
  \/ \E f \in Owned : CheckOwned(f) \/ StageFile(f) \/ InspectStaged(f)
                        \/ RestoreFile(f) \/ RemoveStaged(f)

UserStep ==
  \/ \E f \in Files : Modify(f) \/ Delete(f) \/ Create(f)
  \/ \E r \in {None, Other} : Register(r)

Next ==
  /\ Install \/ Uninstall \/ UserStep \/ QueryFails \/ Crash
  /\ UNCHANGED plugin

Spec == Init /\ [][Next]_vars

-----------------------------------------------------------------------------
(* Properties *)

TypeOK ==
  /\ files \in [Files -> Contents] /\ staged \in [Files -> Contents]
  /\ litter \subseteq Contents
  /\ reg \in Registrations \ {Plugin} /\ plugin \in BOOLEAN
  /\ run \in Runs
  /\ edits \in 0 .. MaxEdits /\ faults \in 0 .. MaxFaults

\* docs/installation.md: uninstall removes "only unchanged owned files".  No step of
\* an uninstall loses what the user wrote, even when the file is edited between the
\* check of its contents and its removal.  Excepted is a file put where a staged one
\* came from: restoreStagedFiles renames over it.  The manifest is no such file: it is
\* removed whatever it holds by then.
UserFilesKept ==
  [][ run.op = "uninstall" /\ edits' = edits =>
        \A f \in Owned :
          User \in {files[f], staged[f]} =>
            \/ User \in {files'[f], staged'[f]} \cup litter'
            \/ files[f] = User /\ staged[f] # Absent ]_vars

\* The registration codex itself had when the command asked for it.
RegistrationFound == IF run.found = Plugin THEN None ELSE run.found

\* An install that fails takes back the files it created and no other, at whichever
\* step it failed.  The registration is as it was found too, unless codex mcp add was
\* called: removeNewFiles takes back files only, so that what a failed call has
\* registered may stay.
FailedInstallUndone ==
  [][ run.pc = "rollback" /\ run'.pc = "idle" /\ faults' = faults /\ ~run.touched
        => /\ files = run.before
           /\ reg = RegistrationFound \/ (run.called /\ reg = Of(run.options)) ]_vars

Installed(o) == /\ \A f \in Files : files[f] = Expected(f, o)
                /\ reg = Of(o)

Removed == reg = None /\ \A f \in Files : files[f] = Absent

\* A command that answers "applied: install" or "applied: uninstall" has done all of
\* it, whatever earlier commands that crashed or failed left behind: after an install
\* everything is in place, after an uninstall nothing of its own is left and the
\* plugin has its name back.  The answer "applied: uninstall_noop" is true as long as
\* the user changed nothing and no command crashed or failed; the manifest is written
\* last, so that after an init that did not get so far it is given although files or
\* the registration are there.
OutcomesTrue ==
  [][ run'.pc = "idle" /\ faults' = faults /\ ~run.touched =>
        /\ run.pc \in {"write", "verify"} => Installed(run.options)
        /\ run.pc = "remove" => Removed'
        /\ run.pc = "noop" /\ edits = 0 /\ faults = 0 => Removed ]_vars

Acceptable(o) == /\ \A f \in Files : files[f] \in {Absent, Expected(f, o)}
                 /\ reg \in {None, Of(o)}

\* No sequence of commands, failures and crashes ends where every install is
\* refused: as long as the user changed nothing there are options to go on with.
NoDeadEnd ==
  run.pc = "idle" /\ edits = 0 => \E o \in Options : Acceptable(o)
=============================================================================
