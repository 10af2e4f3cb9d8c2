----------------------------- MODULE SetupProofs -----------------------------
(***************************************************************************)
(* Theorems about Setup, for every set of options and every number of      *)
(* edits and faults.                                                       *)
(***************************************************************************)
EXTENDS Setup, TLAPS

\* A command is at labels of its own.
PhaseInv ==
  /\ run.op = "install" <=> run.pc \in Installing
  /\ run.op = "uninstall" <=> run.pc \in Removing

\* What an uninstall has renamed aside: the files taken are as they were written, the
\* one in hand is whatever was found, and nothing else is staged.
StagedInv ==
  /\ run.pc = "inspect" => \E f \in Owned : run.todo = {f}
  /\ \A f \in Owned :
       /\ run.pc \in {"stage", "inspect", "unregister", "restore"} /\ f \in run.taken
            => staged[f] = Expected(f, run.options)
       /\ run.pc \in {"stage", "unregister", "restore"} /\ f \notin run.taken => staged[f] = Absent
       /\ run.pc = "stage" => (f \in run.todo <=> f \notin run.taken)
       /\ run.pc = "unregister" => f \in run.taken
       /\ run.pc \in {"removalCheck", "removalQuery"} => f \notin run.taken
       /\ run.pc = "inspect" /\ f \in run.todo => staged[f] # Absent /\ f \notin run.taken
       /\ run.pc = "inspect" /\ f \notin run.taken \cup run.todo => staged[f] = Absent
       /\ run.pc = "remove" => staged[f] = IF f \in run.todo THEN Expected(f, run.options) ELSE Absent
       /\ run.pc \in {"idle", "noop", "removalCheck", "removalQuery"} \cup Installing => staged[f] = Absent

\* What an install found and wrote, as long as nobody interferes: the files that were
\* missing are the only ones that differ from those found at its start.
InstallInv ==
  ~run.touched /\ run.op = "install" =>
    /\ run.pc \in {"write", "rollback"} => run.todo \subseteq run.missing
    /\ run.pc = "write" => /\ run.found \in {None, Plugin, Of(run.options)}
                           /\ run.found = Of(run.options) => reg = Of(run.options)
    /\ \A f \in Files :
         /\ run.pc \in {"check", "query"} => files[f] = run.before[f]
         /\ run.pc = "check" /\ f \in run.missing => files[f] = Absent /\ f \notin run.todo
         /\ run.pc = "check" /\ f \notin run.missing \cup run.todo => files[f] = Expected(f, run.options)
         /\ run.pc = "query" => files[f] = IF f \in run.missing THEN Absent ELSE Expected(f, run.options)
         /\ run.pc \in {"write", "register", "verify", "rollback"} =>
              IF f \in run.missing THEN run.before[f] = Absent ELSE files[f] = run.before[f]
         /\ run.pc = "write" => files[f] = IF f \in run.todo THEN Absent ELSE Expected(f, run.options)
         /\ run.pc \in {"register", "verify"} => files[f] = Expected(f, run.options)
         /\ run.pc = "rollback" /\ f \in run.missing \ run.todo => files[f] = Absent

\* What an uninstall has done, as long as nobody interferes.
UninstallInv ==
  ~run.touched /\ run.op = "uninstall" =>
    /\ run.pc \in {"stage", "inspect", "unregister"} /\ run.found = None => reg = None
    /\ run.pc = "remove" => reg = None
    /\ \A f \in Owned :
         /\ run.pc \in {"stage", "inspect", "unregister"} /\ f \in run.taken => files[f] = Absent
         /\ run.pc = "inspect" /\ f \in run.todo => files[f] = Absent
         /\ run.pc = "remove" => files[f] = Absent

\* Without edits of the user, what is on disk belongs to one set of options; a command
\* that changes anything works with those.
AcceptInv ==
  edits = 0 =>
    /\ \E o \in Options : Acceptable(o)
    /\ \A f \in Files :
         (run.pc = "check" /\ f \notin run.todo) \/ run.pc = "query" => files[f] \in {Absent, Expected(f, run.options)}
    /\ run.pc \in {"write", "register", "verify", "rollback"} \cup Removing => Acceptable(run.options)
    /\ run.pc \in Removing => \A f \in Owned : staged[f] \in {Absent, Expected(f, run.options)}

-----------------------------------------------------------------------------
(* Type correctness *)

\* What is written, what the user writes and what is absent are told apart.
LEMMA Distinct ==
  /\ Absent # User /\ Absent # Skill /\ User # Skill
  /\ None # Other /\ None # Plugin /\ Other # Plugin
  /\ \A o : Of(o) \notin {Absent, User, Skill, None, Other, Plugin}
  /\ \A f, o : Expected(f, o) \notin {Absent, User}
  /\ \A o, p : Of(o) = Of(p) => o = p
<1>1. \A o, p : Of(o) = Of(p) => o = p
  <2> SUFFICES ASSUME NEW o, NEW p, Of(o) = Of(p) PROVE o = p
    OBVIOUS
  <2>1. Of(o).options = o /\ Of(p).options = p
    BY DEF Of
  <2>2. QED
    BY <2>1
<1>2. \A o : Of(o).kind = "of"
  BY DEF Of
<1>3. /\ Absent.kind = "absent" /\ User.kind = "user" /\ Skill.kind = "skill"
      /\ None.kind = "none" /\ Other.kind = "other" /\ Plugin.kind = "plugin"
  BY DEF Absent, User, Skill, None, Other, Plugin
<1>4. \A o : Of(o) \notin {Absent, User, Skill, None, Other, Plugin}
  BY <1>2, <1>3
<1>5. QED
  BY <1>1, <1>3, <1>4 DEF Expected

\* The types of what the steps write.
LEMMA Values ==
  /\ \A f \in Files : \A o \in Options : Expected(f, o) \in Contents
  /\ {Absent, User} \subseteq Contents
  /\ None \in Registrations \ {Plugin} /\ Other \in Registrations \ {Plugin}
  /\ Plugin \in Registrations
  /\ \A o \in Options : Of(o) \in Registrations \ {Plugin}
  /\ Owned \subseteq Files /\ "manifest" \in Files
BY Distinct DEF Expected, Contents, Registrations, Files, Owned

\* A command that does not run is well typed.
LEMMA IdleRunType == IdleRun \in Runs
<1>1. (CHOOSE o \in Options : TRUE) \in Options
  BY SetupAssumption
<1>2. [f \in Files |-> Absent] \in [Files -> Contents]
  BY Values
<1>3. None \in Registrations
  BY Values
<1>4. QED
  BY <1>1, <1>2, <1>3 DEF IdleRun, Runs

\* Initially nothing is installed and every variable has its type.
LEMMA InitTypeOK == Init => TypeOK
BY IdleRunType, Values, SetupAssumption DEF Init, TypeOK, NothingStaged

\* codex answers with a registration.
LEMMA QueryType == TypeOK => getRegistration \in Registrations
BY DEF TypeOK, getRegistration, Registrations

\* Every step keeps every variable in its type.
LEMMA NextTypeOK == TypeOK /\ [Next]_vars => TypeOK'
<1> SUFFICES ASSUME TypeOK, [Next]_vars PROVE TypeOK'
  OBVIOUS
<1> USE Values, IdleRunType, SetupAssumption
<1>a. CASE UNCHANGED vars
  BY <1>a DEF vars, TypeOK
<1>b. SUFFICES ASSUME Next PROVE TypeOK'
  BY <1>a
<1>0. /\ run \in Runs /\ run.options \in Options /\ run.missing \in SUBSET Files
      /\ run.todo \in SUBSET Files /\ run.taken \in SUBSET Owned
      /\ files \in [Files -> Contents] /\ staged \in [Files -> Contents]
      /\ reg \in Registrations \ {Plugin} /\ plugin' = plugin
      /\ getRegistration \in Registrations
  BY <1>b, QueryType DEF TypeOK, Runs, Next
<1>1. /\ \A f \in Files, v \in Contents : [files EXCEPT ![f] = v] \in [Files -> Contents]
      /\ \A f \in Files, v \in Contents : [staged EXCEPT ![f] = v] \in [Files -> Contents]
      /\ \A f \in Files : files[f] \in Contents /\ staged[f] \in Contents
  BY <1>0
<1>2. Fault \/ NoFault => faults' \in 0 .. MaxFaults
  BY DEF Fault, NoFault, TypeOK
<1>3. Ends => run' \in Runs
  BY DEF Ends
<1>4. \A l \in Installing \cup Removing : Goto(l) => run' \in Runs
  BY <1>0 DEF Goto, Runs
<1>5. Rollback => run' \in Runs
  BY <1>0 DEF Rollback, Runs, Installing
<1>6. CASE Install
  <2>1. ASSUME NEW o \in Options, StartInstall(o) PROVE TypeOK'
    <3>1. run' \in Runs
      BY <1>0, <2>1 DEF StartInstall, Runs, Installing
    <3>2. QED
      BY <1>0, <2>1, <3>1 DEF StartInstall, TypeOK
  <2>2. ASSUME NEW f \in Files, CheckFile(f) PROVE TypeOK'
    <3>1. ASSUME NEW m \in SUBSET Files, NEW l \in {"query", "check"}
          PROVE  [run EXCEPT !.todo = @ \ {f}, !.missing = m, !.pc = l] \in Runs
      BY <1>0 DEF Runs, Installing
    <3>2. run' \in Runs
      <4>1. PICK m \in SUBSET Files, l \in {"query", "check"} :
              Ends \/ run' = [run EXCEPT !.todo = @ \ {f}, !.missing = m, !.pc = l]
        <5>1. run.missing \in SUBSET Files /\ run.missing \cup {f} \in SUBSET Files
          BY <1>0
        <5>2. QED
          BY <2>2, <5>1 DEF CheckFile
      <4>2. QED
        BY <1>3, <3>1, <4>1
    <3>3. QED
      BY <1>0, <2>2, <3>2 DEF CheckFile, TypeOK
  <2>3. ASSUME NEW f \in Files, WriteFile(f) PROVE TypeOK'
    <3>1. run' \in Runs
      <4>1. [run EXCEPT !.todo = @ \ {f}] \in Runs
        BY <1>0 DEF Runs
      <4>2. QED
        BY <1>5, <2>3, <4>1 DEF WriteFile
    <3>2. files' \in [Files -> Contents] /\ faults' \in 0 .. MaxFaults
      BY <1>0, <1>1, <1>2, <2>3 DEF WriteFile, Link, TypeOK
    <3>3. QED
      BY <1>0, <2>3, <3>1, <3>2 DEF WriteFile, TypeOK
  <2>4. ASSUME NEW f \in Files, RollbackFile(f) PROVE TypeOK'
    <3>1. run' \in Runs
      BY <1>0, <2>4 DEF RollbackFile, Runs
    <3>2. QED
      BY <1>0, <1>1, <2>4, <3>1 DEF RollbackFile, removeNewFiles, TypeOK
  <2>5. ASSUME NEW apply \in BOOLEAN, QueryInstall(apply) PROVE TypeOK'
    <3>1. [run EXCEPT !.pc = "write", !.found = getRegistration, !.todo = run.missing] \in Runs
      BY <1>0 DEF Runs, Installing
    <3>2. QED
      BY <1>0, <1>3, <2>5, <3>1 DEF QueryInstall, TypeOK
  <2>6. CASE WritesDone
    <3>1. [run EXCEPT !.pc = "register", !.called = TRUE] \in Runs
      BY <1>0 DEF Runs, Installing
    <3>2. QED
      BY <1>0, <1>3, <2>6, <3>1 DEF WritesDone, TypeOK
  <2>7. CASE AddRegistration
    <3>1. run' \in Runs /\ reg' \in Registrations \ {Plugin}
      BY <1>0, <1>4, <1>5, <2>7 DEF AddRegistration, Installing
    <3>2. QED
      BY <1>0, <1>2, <2>7, <3>1 DEF AddRegistration, TypeOK
  <2>8. CASE Verify
    <3>1. run' \in Runs /\ reg' \in Registrations \ {Plugin}
      BY <1>0, <1>3, <1>5, <2>8 DEF Verify
    <3>2. QED
      BY <1>0, <1>2, <2>8, <3>1 DEF Verify, TypeOK
  <2>9. CASE RollbackDone
    BY <1>0, <1>3, <2>9 DEF RollbackDone, TypeOK
  <2>10. QED
    BY <1>6, <2>1, <2>2, <2>3, <2>4, <2>5, <2>6, <2>7, <2>8, <2>9 DEF Install
<1>7. CASE Uninstall
  <2>1. CASE StartUninstall
    <3>1. PICK o \in Options : files["manifest"] = Of(o)
      BY <2>1 DEF StartUninstall
    <3>2. files["manifest"].options = o
      BY <3>1 DEF Of
    <3>3. run' = [IdleRun EXCEPT !.pc = "removalCheck", !.op = "uninstall",
                                 !.options = o, !.todo = Owned, !.before = files]
      BY <2>1, <3>2 DEF StartUninstall
    <3>4. run' \in Runs
      BY <1>0, <3>3 DEF Runs, Removing
    <3>5. QED
      BY <1>0, <2>1, <3>4 DEF StartUninstall, TypeOK
  <2>2. ASSUME NEW f \in Owned, CheckOwned(f) PROVE TypeOK'
    <3>1. \A l \in {"removalQuery", "removalCheck"} : [run EXCEPT !.todo = @ \ {f}, !.pc = l] \in Runs
      BY <1>0 DEF Runs, Removing
    <3>2. run' \in Runs
      BY <1>0, <1>3, <2>2, <3>1 DEF CheckOwned
    <3>3. QED
      BY <1>0, <2>2, <3>2 DEF CheckOwned, TypeOK
  <2>3. ASSUME NEW apply \in BOOLEAN, QueryUninstall(apply) PROVE TypeOK'
    <3>1. [run EXCEPT !.pc = "stage", !.found = getRegistration, !.todo = Owned] \in Runs
      BY <1>0 DEF Runs, Removing
    <3>2. QED
      BY <1>0, <1>3, <2>3, <3>1 DEF QueryUninstall, TypeOK
  <2>4. ASSUME NEW f \in Owned, StageFile(f) PROVE TypeOK'
    <3>1. [run EXCEPT !.pc = "inspect", !.todo = {f}] \in Runs
      BY <1>0 DEF Runs, Removing
    <3>2. run' \in Runs
      BY <1>4, <2>4, <3>1 DEF StageFile, Removing
    <3>3. /\ files' \in [Files -> Contents] /\ staged' \in [Files -> Contents]
          /\ faults' \in 0 .. MaxFaults
      BY <1>0, <1>1, <1>2, <2>4 DEF StageFile
    <3>4. QED
      BY <1>0, <2>4, <3>2, <3>3 DEF StageFile, TypeOK
  <2>5. ASSUME NEW f \in Owned, InspectStaged(f) PROVE TypeOK'
    <3>1. ASSUME NEW l \in {"unregister", "stage"}
          PROVE  [run EXCEPT !.taken = @ \cup {f}, !.todo = Owned \ (run.taken \cup {f}), !.pc = l] \in Runs
      BY <1>0 DEF Runs, Removing
    <3>2. run' \in Runs
      <4>1. \/ Goto("restore")
            \/ \E l \in {"unregister", "stage"} :
                 run' = [run EXCEPT !.taken = @ \cup {f}, !.todo = Owned \ (run.taken \cup {f}), !.pc = l]
        BY <2>5 DEF InspectStaged
      <4>2. QED
        BY <1>4, <3>1, <4>1 DEF Removing
    <3>3. /\ files' \in [Files -> Contents] /\ staged' \in [Files -> Contents]
          /\ faults' \in 0 .. MaxFaults
      BY <1>0, <1>1, <1>2, <2>5 DEF InspectStaged
    <3>4. QED
      BY <1>0, <2>5, <3>2, <3>3 DEF InspectStaged, TypeOK
  <2>6. CASE RemoveRegistration
    <3>1. [run EXCEPT !.pc = "remove", !.todo = run.taken] \in Runs
      BY <1>0 DEF Runs, Removing
    <3>2. run' \in Runs /\ reg' \in Registrations \ {Plugin}
      BY <1>0, <1>4, <2>6, <3>1 DEF RemoveRegistration, removeRegistration, Removing
    <3>3. QED
      BY <1>0, <1>2, <2>6, <3>2 DEF RemoveRegistration, TypeOK
  <2>7. ASSUME NEW f \in Owned, RestoreFile(f) PROVE TypeOK'
    <3>1. run' \in Runs
      BY <1>0, <2>7 DEF RestoreFile, Runs
    <3>2. QED
      BY <1>0, <1>1, <2>7, <3>1 DEF RestoreFile, TypeOK
  <2>8. ASSUME NEW f \in Owned, RemoveStaged(f) PROVE TypeOK'
    <3>1. run' \in Runs
      BY <1>0, <2>8 DEF RemoveStaged, Runs
    <3>2. QED
      BY <1>0, <1>1, <2>8, <3>1 DEF RemoveStaged, TypeOK
  <2>9. CASE RestoreDone \/ RemoveManifest \/ ReportNoop
    BY <1>0, <1>1, <1>3, <2>9 DEF RestoreDone, RemoveManifest, ReportNoop, TypeOK
  <2>10. CASE StartWithoutManifest
    <3>1. [IdleRun EXCEPT !.pc = "noop"] \in Runs
      BY DEF Runs
    <3>2. QED
      BY <1>0, <2>10, <3>1 DEF StartWithoutManifest, TypeOK
  <2>11. QED
    BY <1>7, <2>1, <2>2, <2>3, <2>4, <2>5, <2>6, <2>7, <2>8, <2>9, <2>10 DEF Uninstall
<1>8. CASE UserStep
  <2>1. PICK kind : Edit(kind)
    BY <1>8 DEF UserStep, Modify, Delete, Create, Register
  <2>2. run' \in Runs /\ edits' \in 0 .. MaxEdits
    <3>1. edits' \in 0 .. MaxEdits
      BY <2>1 DEF Edit, TypeOK
    <3>2. [run EXCEPT !.touched = TRUE] \in Runs
      BY <1>0 DEF Runs
    <3>3. QED
      BY <2>1, <3>1, <3>2 DEF Edit
  <2>3. files' \in [Files -> Contents] /\ reg' \in Registrations \ {Plugin}
    BY <1>0, <1>1, <1>8 DEF UserStep, Modify, Delete, Create, Register
  <2>4. QED
    BY <1>0, <2>1, <2>2, <2>3 DEF Edit, TypeOK
<1>9. CASE QueryFails
  BY <1>0, <1>2, <1>3, <1>9 DEF QueryFails, TypeOK
<1>10. CASE Crash
  <2>1. NothingStaged \in [Files -> Contents]
    BY DEF NothingStaged
  <2>2. litter' \subseteq Contents
    BY <1>1, <1>10 DEF Crash, TypeOK
  <2>3. QED
    BY <1>0, <1>2, <1>3, <1>10, <2>1, <2>2 DEF Crash, TypeOK
<1>11. QED
  BY <1>b, <1>6, <1>7, <1>8, <1>9, <1>10 DEF Next

\* Every reachable state of init is well typed: the files, what is staged, the
\* registration and the running command.
THEOREM SetupTypeOK == Spec => []TypeOK
BY InitTypeOK, NextTypeOK, PTL DEF Spec
-----------------------------------------------------------------------------
(* The inductive invariant *)

Rest == PhaseInv /\ StagedInv /\ InstallInv /\ UninstallInv /\ AcceptInv

Inv == TypeOK /\ Rest

\* A command that ends with nothing left aside.
LEMMA EndKeepsInv ==
  ASSUME Ends, \A f \in Owned : staged'[f] = Absent,
         edits' = 0 => \E o \in Options : Acceptable(o)'
  PROVE  Rest'
<1>1. run'.pc = "idle" /\ run'.op = "none"
  BY DEF Ends, IdleRun
<1>2. PhaseInv' /\ StagedInv'
  BY <1>1 DEF PhaseInv, StagedInv, Installing, Removing
<1>3. InstallInv' /\ UninstallInv'
  BY <1>1 DEF InstallInv, UninstallInv
<1>4. AcceptInv'
  BY <1>1 DEF AcceptInv, Removing
<1>5. QED
  BY <1>2, <1>3, <1>4 DEF Rest

\* The user touches files and the registration, never what is staged.
LEMMA UserKeepsInv ==
  ASSUME Inv, NEW kind, Edit(kind)
  PROVE  Rest'
<1>1. /\ run'.pc = run.pc /\ run'.op = run.op /\ run'.options = run.options
      /\ run'.todo = run.todo /\ run'.taken = run.taken /\ run'.touched
      /\ staged' = staged /\ edits' # 0
  BY DEF Edit, Inv, TypeOK, Runs
<1>2. PhaseInv' /\ StagedInv'
  BY <1>1 DEF Inv, Rest, PhaseInv, StagedInv
<1>3. InstallInv' /\ UninstallInv' /\ AcceptInv'
  BY <1>1 DEF InstallInv, UninstallInv, AcceptInv
<1>4. QED
  BY <1>2, <1>3 DEF Rest

\* A step inside an install stages nothing.
LEMMA InstallKeepsInv ==
  ASSUME Inv, run.pc \in {"idle"} \cup Installing, run'.pc \in Installing,
         run'.op = "install", staged' = staged, InstallInv', AcceptInv'
  PROVE  Rest'
<1>1. PhaseInv'
  BY DEF PhaseInv, Installing, Removing
<1>2. \A f \in Owned : staged'[f] = Absent
  BY DEF Inv, Rest, StagedInv
<1>3. StagedInv'
  BY <1>2 DEF StagedInv, Installing
<1>4. UninstallInv'
  BY DEF UninstallInv
<1>5. QED
  BY <1>1, <1>3, <1>4 DEF Rest

\* A step inside an uninstall.
LEMMA UninstallKeepsInv ==
  ASSUME run'.pc \in Removing, run'.op = "uninstall", StagedInv', UninstallInv', AcceptInv'
  PROVE  Rest'
BY DEF Rest, PhaseInv, Installing, Removing, InstallInv

\* Every step of an install keeps the invariant.
LEMMA InstallInvariant == Inv /\ Install => Rest'
<1> SUFFICES ASSUME Inv, Install PROVE Rest'
  OBVIOUS
<1>0. /\ run \in Runs /\ run.options \in Options /\ run.missing \in SUBSET Files
      /\ run.todo \in SUBSET Files /\ files \in [Files -> Contents]
      /\ PhaseInv /\ StagedInv /\ InstallInv /\ AcceptInv
  BY DEF Inv, TypeOK, Runs, Rest
<1>a. run.pc \in {"idle"} \cup Installing => \A f \in Owned : staged[f] = Absent
  BY <1>0 DEF StagedInv
\* A step that ends the command and leaves everything where it is.
<1>b. ASSUME Ends, run.pc \in {"idle"} \cup Installing, UNCHANGED <<files, staged, reg, edits>>
      PROVE  Rest'
  <2>1. edits' = 0 => \E o \in Options : Acceptable(o)'
    BY <1>0, <1>b DEF AcceptInv, Acceptable
  <2>2. QED
    BY <1>a, <1>b, <2>1, EndKeepsInv
<1>1. ASSUME NEW o \in Options, StartInstall(o) PROVE Rest'
  <2>1. /\ run.pc = "idle" /\ run'.pc = "check" /\ run'.op = "install" /\ run'.options = o
        /\ run'.todo = Files /\ run'.missing = {} /\ run'.before = files
        /\ UNCHANGED <<files, staged, reg, edits>>
    BY <1>1, IdleRunType DEF StartInstall, IdleRun
  <2>2. InstallInv'
    BY <2>1 DEF InstallInv
  <2>3. AcceptInv'
    BY <1>0, <2>1 DEF AcceptInv, Acceptable, Removing
  <2>4. QED
    BY <2>1, <2>2, <2>3, InstallKeepsInv DEF Installing
<1>2. ASSUME NEW f \in Files, CheckFile(f) PROVE Rest'
  <2>0. run.pc = "check" /\ f \in run.todo /\ UNCHANGED <<files, staged, reg, edits>>
    BY <1>2 DEF CheckFile
  <2>1. CASE Ends
    BY <1>b, <2>0, <2>1 DEF Installing
  <2>2. CASE ~Ends
    <3> DEFINE state == fileState(f, run.options)
    <3>1. /\ state # "conflict"
          /\ run' = [run EXCEPT !.todo = @ \ {f},
                                !.missing = IF state = "missing" THEN @ \cup {f} ELSE @,
                                !.pc = IF run.todo = {f} THEN "query" ELSE "check"]
      BY <1>2, <2>2 DEF CheckFile
    <3>2. /\ files[f] \in {Absent, Expected(f, run.options)}
          /\ state = "missing" <=> files[f] = Absent
      BY <3>1, Distinct DEF fileState
    <3> HIDE DEF state
    <3>3. /\ run'.pc = (IF run.todo = {f} THEN "query" ELSE "check")
          /\ run'.op = run.op /\ run'.options = run.options /\ run'.todo = run.todo \ {f}
          /\ run'.missing = (IF files[f] = Absent THEN run.missing \cup {f} ELSE run.missing)
          /\ run'.before = run.before /\ run'.touched = run.touched
      BY <1>0, <3>1, <3>2 DEF Runs
    <3>4. InstallInv'
      BY <1>0, <2>0, <3>2, <3>3, Distinct DEF InstallInv
    <3>5. AcceptInv'
      BY <1>0, <2>0, <3>2, <3>3 DEF AcceptInv, Acceptable, Removing
    <3>6. QED
      BY <1>0, <2>0, <3>3, <3>4, <3>5, InstallKeepsInv DEF PhaseInv, Installing
  <2>3. QED
    BY <2>1, <2>2
<1>3. ASSUME NEW apply \in BOOLEAN, QueryInstall(apply) PROVE Rest'
  <2>0. run.pc = "query" /\ UNCHANGED <<files, staged, reg, edits>>
    BY <1>3 DEF QueryInstall
  <2>1. CASE Ends
    BY <1>b, <2>0, <2>1 DEF Installing
  <2>2. CASE ~Ends
    <3>1. /\ getRegistration \in {None, Plugin, Of(run.options)}
          /\ run' = [run EXCEPT !.pc = "write", !.found = getRegistration, !.todo = run.missing]
      BY <1>3, <2>2 DEF QueryInstall
    <3>2. /\ run'.pc = "write" /\ run'.op = run.op /\ run'.options = run.options
          /\ run'.todo = run.missing /\ run'.missing = run.missing
          /\ run'.before = run.before /\ run'.touched = run.touched
          /\ run'.found = getRegistration
      BY <1>0, <3>1 DEF Runs
    <3>3. /\ reg \in {None, Of(run.options)}
          /\ getRegistration = Of(run.options) => reg = Of(run.options)
      BY <3>1, Distinct DEF getRegistration, Inv, TypeOK
    <3>4. InstallInv'
      BY <1>0, <2>0, <3>1, <3>2, <3>3 DEF InstallInv
    <3>5. AcceptInv'
      BY <1>0, <2>0, <3>2, <3>3 DEF AcceptInv, Acceptable, Removing
    <3>6. QED
      BY <1>0, <2>0, <3>2, <3>4, <3>5, InstallKeepsInv DEF PhaseInv, Installing
  <2>3. QED
    BY <2>1, <2>2
\* Whatever fails after the query is rolled back.
<1>4. ASSUME Rollback, run.pc \in {"write", "register", "verify"}, UNCHANGED <<staged, edits>>,
             \A f \in Files : \/ files'[f] = files[f]
                              \/ /\ run.pc = "write" /\ f \in run.todo
                                 /\ files'[f] = Expected(f, run.options),
             reg' \in {reg, None, Of(run.options)}
      PROVE  Rest'
  <2>1. /\ run'.pc = "rollback" /\ run'.op = run.op /\ run'.options = run.options
        /\ run'.todo = run.missing /\ run'.missing = run.missing
        /\ run'.before = run.before /\ run'.touched = run.touched
    BY <1>0, <1>4 DEF Rollback, Runs
  <2>2. InstallInv'
    BY <1>0, <1>4, <2>1 DEF InstallInv, PhaseInv, Installing
  <2>3. AcceptInv'
    <3>1. ASSUME edits' = 0 PROVE Acceptable(run.options)'
      BY <1>0, <1>4, <2>1, <3>1 DEF AcceptInv, Acceptable
    <3>2. QED
      BY <1>0, <2>1, <3>1 DEF AcceptInv, Acceptable, Removing
  <2>4. QED
    BY <1>0, <1>4, <2>1, <2>2, <2>3, InstallKeepsInv DEF PhaseInv, Installing
<1>5. ASSUME NEW f \in Files, WriteFile(f) PROVE Rest'
  <2>0. run.pc = "write" /\ f \in run.todo /\ UNCHANGED <<staged, reg, edits>>
    BY <1>5 DEF WriteFile
  <2>1. Link(f) => \A g \in Files : files'[g] = IF g = f THEN Expected(f, run.options) ELSE files[g]
    BY <1>0 DEF Link
  <2>2. CASE Rollback
    <3>1. files' = files \/ Link(f)
      BY <1>5 DEF WriteFile
    <3>2. \A g \in Files : \/ files'[g] = files[g]
                           \/ g \in run.todo /\ files'[g] = Expected(g, run.options)
      BY <2>0, <2>1, <3>1
    <3>3. QED
      BY <1>4, <2>0, <2>2, <3>2
  <2>3. CASE ~Rollback
    <3>1. Link(f) /\ run' = [run EXCEPT !.todo = @ \ {f}]
      BY <1>5, <2>3 DEF WriteFile
    <3>2. /\ run'.pc = "write" /\ run'.op = run.op /\ run'.options = run.options
          /\ run'.todo = run.todo \ {f} /\ run'.missing = run.missing
          /\ run'.before = run.before /\ run'.touched = run.touched /\ run'.found = run.found
      BY <1>0, <2>0, <3>1 DEF Runs
    <3>3. InstallInv'
      BY <1>0, <2>0, <2>1, <3>1, <3>2 DEF InstallInv
    <3>4. AcceptInv'
      <4>1. ASSUME edits' = 0 PROVE Acceptable(run.options)'
        BY <1>0, <2>0, <2>1, <3>1, <3>2, <4>1 DEF AcceptInv, Acceptable
      <4>2. QED
        BY <1>0, <3>2, <4>1 DEF AcceptInv, Acceptable, Removing
    <3>5. QED
      BY <1>0, <2>0, <3>2, <3>3, <3>4, InstallKeepsInv DEF PhaseInv, Installing
  <2>4. QED
    BY <2>2, <2>3
<1>6. CASE WritesDone
  <2>0. run.pc = "write" /\ run.todo = {} /\ UNCHANGED <<files, staged, reg, edits>>
    BY <1>6 DEF WritesDone
  <2>1. CASE Ends
    BY <1>b, <2>0, <2>1 DEF Installing
  <2>2. CASE run' = [run EXCEPT !.pc = "register", !.called = TRUE]
    <3>1. /\ run'.pc = "register" /\ run'.op = run.op /\ run'.options = run.options
          /\ run'.missing = run.missing
          /\ run'.before = run.before /\ run'.touched = run.touched
      BY <1>0, <2>2 DEF Runs
    <3>2. InstallInv'
      BY <1>0, <2>0, <3>1 DEF InstallInv
    <3>3. AcceptInv'
      BY <1>0, <2>0, <3>1 DEF AcceptInv, Acceptable, Removing
    <3>4. QED
      BY <1>0, <2>0, <3>1, <3>2, <3>3, InstallKeepsInv DEF PhaseInv, Installing
  <2>3. QED
    BY <1>6, <2>1, <2>2 DEF WritesDone
<1>7. CASE AddRegistration
  <2>0. /\ run.pc = "register" /\ UNCHANGED <<files, staged, edits>>
        /\ reg' \in {reg, None, Of(run.options)}
    BY <1>7 DEF AddRegistration
  <2>1. CASE Rollback
    BY <1>4, <2>0, <2>1
  <2>2. CASE Goto("verify")
    <3>1. /\ run'.pc = "verify" /\ run'.op = run.op /\ run'.options = run.options
          /\ run'.missing = run.missing
          /\ run'.before = run.before /\ run'.touched = run.touched
      BY <1>0, <2>2 DEF Goto, Runs
    <3>2. InstallInv'
      BY <1>0, <2>0, <3>1 DEF InstallInv
    <3>3. AcceptInv'
      <4>1. ASSUME edits' = 0 PROVE Acceptable(run.options)'
        BY <1>0, <2>0, <3>1, <4>1 DEF AcceptInv, Acceptable
      <4>2. QED
        BY <1>0, <3>1, <4>1 DEF AcceptInv, Acceptable, Removing
    <3>4. QED
      BY <1>0, <2>0, <3>1, <3>2, <3>3, InstallKeepsInv DEF PhaseInv, Installing
  <2>3. QED
    BY <1>7, <2>1, <2>2 DEF AddRegistration
<1>8. CASE Verify
  <2>0. /\ run.pc = "verify" /\ UNCHANGED <<files, staged, edits>>
        /\ reg' \in {reg, None, Of(run.options)}
    BY <1>8 DEF Verify
  <2>1. CASE Rollback
    BY <1>4, <2>0, <2>1
  <2>2. CASE Ends /\ UNCHANGED reg
    BY <1>b, <2>0, <2>2 DEF Installing
  <2>3. QED
    BY <1>8, <2>1, <2>2 DEF Verify
<1>9. ASSUME NEW f \in Files, RollbackFile(f) PROVE Rest'
  <2>0. /\ run.pc = "rollback" /\ f \in run.todo /\ UNCHANGED <<staged, reg, edits>>
        /\ \A g \in Files : files'[g] = IF g = f THEN Absent ELSE files[g]
    BY <1>0, <1>9 DEF RollbackFile, removeNewFiles
  <2>1. /\ run'.pc = "rollback" /\ run'.op = run.op /\ run'.options = run.options
        /\ run'.todo = run.todo \ {f} /\ run'.missing = run.missing
        /\ run'.before = run.before /\ run'.touched = run.touched
    BY <1>0, <1>9 DEF RollbackFile, Runs
  <2>2. InstallInv'
    BY <1>0, <2>0, <2>1 DEF InstallInv
  <2>3. AcceptInv'
    <3>1. ASSUME edits' = 0 PROVE Acceptable(run.options)'
      BY <1>0, <2>0, <2>1, <3>1 DEF AcceptInv, Acceptable
    <3>2. QED
      BY <1>0, <2>1, <3>1 DEF AcceptInv, Acceptable, Removing
  <2>4. QED
    BY <1>0, <2>0, <2>1, <2>2, <2>3, InstallKeepsInv DEF PhaseInv, Installing
<1>10. CASE RollbackDone
  BY <1>b, <1>10 DEF RollbackDone, Installing
<1>11. QED
  BY <1>1, <1>2, <1>3, <1>5, <1>6, <1>7, <1>8, <1>9, <1>10 DEF Install
\* Every step of an uninstall keeps the invariant.
LEMMA UninstallInvariant == Inv /\ Uninstall => Rest'
<1> SUFFICES ASSUME Inv, Uninstall PROVE Rest'
  OBVIOUS
<1>0. /\ run \in Runs /\ run.options \in Options /\ run.taken \in SUBSET Owned
      /\ files \in [Files -> Contents] /\ staged \in [Files -> Contents]
      /\ PhaseInv /\ StagedInv /\ UninstallInv /\ AcceptInv
      /\ Owned \subseteq Files /\ "manifest" \in Files
  BY Values DEF Inv, TypeOK, Runs, Rest
\* A step that ends the command before anything was staged.
<1>a. ASSUME Ends, run.pc \in {"noop", "removalCheck", "removalQuery"}, UNCHANGED <<files, staged, reg, edits>>
      PROVE  Rest'
  <2>1. edits' = 0 => \E o \in Options : Acceptable(o)'
    BY <1>0, <1>a DEF AcceptInv, Acceptable
  <2>2. \A f \in Owned : staged'[f] = Absent
    BY <1>0, <1>a DEF StagedInv
  <2>3. QED
    BY <1>a, <2>1, <2>2, EndKeepsInv
<1>1. CASE StartUninstall
  <2>1. PICK o \in Options : files["manifest"] = Of(o)
    BY <1>1 DEF StartUninstall
  <2>2. files["manifest"].options = o
    BY <2>1 DEF Of
  <2>3. /\ run.pc = "idle" /\ run'.pc = "removalCheck" /\ run'.op = "uninstall"
        /\ run'.options = o /\ run'.taken = {} /\ UNCHANGED <<files, staged, reg, edits>>
    BY <1>1, <2>2, IdleRunType DEF StartUninstall, IdleRun
  <2>4. \A f \in Owned : staged'[f] = Absent
    BY <1>0, <2>3 DEF StagedInv
  <2>5. StagedInv' /\ UninstallInv'
    BY <2>3, <2>4 DEF StagedInv, UninstallInv
  <2>6. ASSUME edits = 0 PROVE Acceptable(o)
    <3>1. PICK p \in Options : Acceptable(p)
      BY <1>0, <2>6 DEF AcceptInv
    <3>2. files["manifest"] \in {Absent, Of(p)}
      BY <1>0, <3>1 DEF Acceptable, Expected
    <3>3. p = o
      BY <2>1, <3>2, Distinct
    <3>4. QED
      BY <3>1, <3>3
  <2>7. AcceptInv'
    BY <2>3, <2>4, <2>6 DEF AcceptInv, Acceptable
  <2>8. QED
    BY <2>3, <2>5, <2>7, UninstallKeepsInv DEF Removing
<1>2. ASSUME NEW f \in Owned, CheckOwned(f) PROVE Rest'
  <2>0. run.pc = "removalCheck" /\ UNCHANGED <<files, staged, reg, edits>>
    BY <1>2 DEF CheckOwned
  <2>1. CASE Ends
    BY <1>a, <2>0, <2>1
  <2>2. CASE ~Ends
    <3>1. run' = [run EXCEPT !.todo = @ \ {f}, !.pc = IF run.todo = {f} THEN "removalQuery" ELSE @]
      BY <1>2, <2>2 DEF CheckOwned
    <3>2. /\ run'.pc \in {"removalCheck", "removalQuery"} /\ run'.op = run.op
          /\ run'.options = run.options /\ run'.taken = run.taken
      BY <1>0, <2>0, <3>1 DEF Runs
    <3>3. StagedInv' /\ UninstallInv'
      BY <1>0, <2>0, <3>2 DEF StagedInv, UninstallInv
    <3>4. AcceptInv'
      BY <1>0, <2>0, <3>2 DEF AcceptInv, Acceptable, Removing
    <3>5. QED
      BY <1>0, <2>0, <3>2, <3>3, <3>4, UninstallKeepsInv DEF PhaseInv, Removing
  <2>3. QED
    BY <2>1, <2>2
<1>3. ASSUME NEW apply \in BOOLEAN, QueryUninstall(apply) PROVE Rest'
  <2>0. run.pc = "removalQuery" /\ UNCHANGED <<files, staged, reg, edits>>
    BY <1>3 DEF QueryUninstall
  <2>1. CASE Ends
    BY <1>a, <2>0, <2>1
  <2>2. CASE ~Ends
    <3>1. run' = [run EXCEPT !.pc = "stage", !.found = getRegistration, !.todo = Owned]
      BY <1>3, <2>2 DEF QueryUninstall
    <3>2. /\ run'.pc = "stage" /\ run'.op = run.op /\ run'.options = run.options
          /\ run'.todo = Owned /\ run'.taken = run.taken /\ run'.found = getRegistration
      BY <1>0, <3>1 DEF Runs
    <3>3. getRegistration = None => reg = None
      BY Distinct DEF getRegistration
    <3>4. \A f \in Owned : f \notin run.taken
      BY <1>0, <2>0 DEF StagedInv
    <3>5. StagedInv' /\ UninstallInv'
      BY <1>0, <2>0, <3>2, <3>3, <3>4 DEF StagedInv, UninstallInv
    <3>6. AcceptInv'
      BY <1>0, <2>0, <3>2 DEF AcceptInv, Acceptable, Removing
    <3>7. QED
      BY <1>0, <2>0, <3>2, <3>5, <3>6, UninstallKeepsInv DEF PhaseInv, Removing
  <2>3. QED
    BY <2>1, <2>2
\* A step that turns to restoring, with the file in hand put back.
<1>4. ASSUME Goto("restore"), run.pc \in {"stage", "inspect", "unregister"}, UNCHANGED edits,
             \A f \in Owned : staged'[f] = IF f \in run.taken THEN staged[f] ELSE Absent,
             \A f \in Files : \/ files'[f] = files[f]
                              \/ f \in Owned /\ files'[f] = staged[f],
             reg' \in {reg, None}
      PROVE  Rest'
  <2>1. /\ run'.pc = "restore" /\ run'.op = run.op /\ run'.options = run.options
        /\ run'.taken = run.taken
    BY <1>0, <1>4 DEF Goto, Runs
  <2>2. StagedInv' /\ UninstallInv'
    BY <1>0, <1>4, <2>1 DEF StagedInv, UninstallInv, Installing
  <2>3. ASSUME edits' = 0 PROVE Acceptable(run.options)'
    BY <1>0, <1>4, <2>1, <2>3 DEF AcceptInv, Acceptable, Removing
  <2>4. AcceptInv'
    BY <1>0, <1>4, <2>1, <2>2, <2>3 DEF AcceptInv, Acceptable, Removing
  <2>5. QED
    BY <1>0, <1>4, <2>1, <2>2, <2>4, UninstallKeepsInv DEF PhaseInv, Removing
<1>5. ASSUME NEW f \in Owned, StageFile(f) PROVE Rest'
  <2>0. run.pc = "stage" /\ f \in run.todo /\ UNCHANGED <<reg, edits>>
    BY <1>5 DEF StageFile
  <2>1. CASE Goto("restore") /\ UNCHANGED <<files, staged>>
    <3>1. \A g \in Owned : staged'[g] = IF g \in run.taken THEN staged[g] ELSE Absent
      BY <1>0, <2>0, <2>1 DEF StagedInv
    <3>2. QED
      BY <1>4, <2>0, <2>1, <3>1
  <2>2. CASE /\ files[f] # Absent
             /\ staged' = [staged EXCEPT ![f] = files[f]]
             /\ files' = [files EXCEPT ![f] = Absent]
             /\ run' = [run EXCEPT !.pc = "inspect", !.todo = {f}]
    <3>1. /\ run'.pc = "inspect" /\ run'.op = run.op /\ run'.options = run.options
          /\ run'.taken = run.taken /\ run'.todo = {f} /\ run'.found = run.found
          /\ run'.touched = run.touched
      BY <1>0, <2>2 DEF Runs
    <3>2. /\ \A g \in Owned : staged'[g] = IF g = f THEN files[f] ELSE staged[g]
          /\ \A g \in Files : files'[g] = IF g = f THEN Absent ELSE files[g]
      BY <1>0, <2>2
    <3>3. StagedInv'
      BY <1>0, <2>0, <2>2, <3>1, <3>2 DEF StagedInv, Installing
    <3>4. UninstallInv'
      BY <1>0, <2>0, <3>1, <3>2 DEF UninstallInv, StagedInv
    <3>5. AcceptInv'
      BY <1>0, <2>0, <3>1, <3>2 DEF AcceptInv, Acceptable, Removing
    <3>6. QED
      BY <1>0, <2>0, <3>1, <3>3, <3>4, <3>5, UninstallKeepsInv DEF PhaseInv, Removing
  <2>3. QED
    BY <1>5, <2>1, <2>2 DEF StageFile
<1>6. ASSUME NEW f \in Owned, InspectStaged(f) PROVE Rest'
  <2>0. run.pc = "inspect" /\ f \in run.todo /\ UNCHANGED <<reg, edits>>
    BY <1>6 DEF InspectStaged
  <2>a. run.todo = {f}
    BY <1>0, <2>0 DEF StagedInv
  <2>1. CASE /\ files' = [files EXCEPT ![f] = staged[f]]
             /\ staged' = [staged EXCEPT ![f] = Absent]
             /\ Goto("restore")
    <3>1. /\ \A g \in Owned : staged'[g] = IF g = f THEN Absent ELSE staged[g]
          /\ \A g \in Files : files'[g] = IF g = f THEN staged[f] ELSE files[g]
      BY <1>0, <2>1
    <3>2. \A g \in Owned : staged'[g] = IF g \in run.taken THEN staged[g] ELSE Absent
      BY <1>0, <2>0, <2>a, <3>1 DEF StagedInv
    <3>3. QED
      BY <1>4, <2>0, <2>1, <3>1, <3>2
  <2>2. CASE /\ StagedAsExpected(f) /\ UNCHANGED <<files, staged>>
             /\ run' = [run EXCEPT !.taken = @ \cup {f}, !.todo = Owned \ (run.taken \cup {f}),
                                   !.pc = IF Owned = run.taken \cup {f} THEN "unregister" ELSE "stage"]
    <3>1. /\ run'.pc = (IF Owned = run.taken \cup {f} THEN "unregister" ELSE "stage")
          /\ run'.op = run.op /\ run'.options = run.options
          /\ run'.taken = run.taken \cup {f} /\ run'.todo = Owned \ (run.taken \cup {f})
          /\ run'.found = run.found /\ run'.touched = run.touched
      BY <1>0, <2>2 DEF Runs
    <3>2. StagedInv'
      BY <1>0, <2>0, <2>a, <2>2, <3>1 DEF StagedInv, StagedAsExpected, Installing
    <3>3. UninstallInv'
      BY <1>0, <2>0, <2>2, <3>1 DEF UninstallInv
    <3>4. AcceptInv'
      BY <1>0, <2>0, <2>2, <3>1 DEF AcceptInv, Acceptable, Removing
    <3>5. QED
      BY <1>0, <2>0, <3>1, <3>2, <3>3, <3>4, UninstallKeepsInv DEF PhaseInv, Removing
  <2>3. QED
    BY <1>6, <2>1, <2>2 DEF InspectStaged
<1>7. CASE RemoveRegistration
  <2>0. run.pc = "unregister" /\ UNCHANGED <<files, staged, edits>>
    BY <1>7 DEF RemoveRegistration
  <2>1. CASE Goto("restore") /\ reg' \in {reg, None}
    <3>1. \A g \in Owned : staged'[g] = IF g \in run.taken THEN staged[g] ELSE Absent
      BY <1>0, <2>0 DEF StagedInv
    <3>2. QED
      BY <1>4, <2>0, <2>1, <3>1
  <2>2. CASE /\ reg' = removeRegistration
             /\ run' = [run EXCEPT !.pc = "remove", !.todo = run.taken]
    <3>1. /\ run'.pc = "remove" /\ run'.op = run.op /\ run'.options = run.options
          /\ run'.todo = run.taken /\ run'.touched = run.touched
      BY <1>0, <2>2 DEF Runs
    <3>2. reg' \in {reg, None} /\ (run.found = None \/ reg' = None)
      BY <2>2 DEF removeRegistration
    <3>3. StagedInv'
      BY <1>0, <2>0, <3>1 DEF StagedInv, Installing
    <3>4. UninstallInv'
      BY <1>0, <2>0, <2>2, <3>1 DEF UninstallInv, StagedInv, removeRegistration
    <3>5. AcceptInv'
      BY <1>0, <2>0, <3>1, <3>2 DEF AcceptInv, Acceptable, Removing
    <3>6. QED
      BY <1>0, <2>0, <3>1, <3>3, <3>4, <3>5, UninstallKeepsInv DEF PhaseInv, Removing
  <2>3. QED
    BY <1>7, <2>1, <2>2 DEF RemoveRegistration
<1>8. ASSUME NEW f \in Owned, RestoreFile(f) PROVE Rest'
  <2>0. /\ run.pc = "restore" /\ f \in run.taken /\ UNCHANGED <<reg, edits>>
        /\ \A g \in Owned : staged'[g] = IF g = f THEN Absent ELSE staged[g]
        /\ \A g \in Files : files'[g] = IF g = f THEN staged[f] ELSE files[g]
    BY <1>0, <1>8 DEF RestoreFile
  <2>1. /\ run'.pc = "restore" /\ run'.op = run.op /\ run'.options = run.options
        /\ run'.taken = run.taken \ {f}
    BY <1>0, <1>8 DEF RestoreFile, Runs
  <2>2. StagedInv' /\ UninstallInv'
    BY <1>0, <2>0, <2>1 DEF StagedInv, UninstallInv, Installing
  <2>3. AcceptInv'
    BY <1>0, <2>0, <2>1 DEF AcceptInv, Acceptable, Removing
  <2>4. QED
    BY <1>0, <2>0, <2>1, <2>2, <2>3, UninstallKeepsInv DEF PhaseInv, Removing
<1>9. ASSUME NEW f \in Owned, RemoveStaged(f) PROVE Rest'
  <2>0. /\ run.pc = "remove" /\ f \in run.todo /\ UNCHANGED <<files, reg, edits>>
        /\ \A g \in Owned : staged'[g] = IF g = f THEN Absent ELSE staged[g]
    BY <1>0, <1>9 DEF RemoveStaged
  <2>1. /\ run'.pc = "remove" /\ run'.op = run.op /\ run'.options = run.options
        /\ run'.todo = run.todo \ {f} /\ run'.touched = run.touched
    BY <1>0, <1>9 DEF RemoveStaged, Runs
  <2>2. StagedInv' /\ UninstallInv'
    BY <1>0, <2>0, <2>1 DEF StagedInv, UninstallInv, Installing
  <2>3. AcceptInv'
    BY <1>0, <2>0, <2>1 DEF AcceptInv, Acceptable, Removing
  <2>4. QED
    BY <1>0, <2>0, <2>1, <2>2, <2>3, UninstallKeepsInv DEF PhaseInv, Removing
<1>10. CASE RestoreDone \/ RemoveManifest
  <2>1. /\ Ends /\ UNCHANGED <<staged, reg, edits>>
        /\ \A f \in Files : files'[f] \in {files[f], Absent}
    BY <1>0, <1>10 DEF RestoreDone, RemoveManifest
  <2>2. \A f \in Owned : staged'[f] = Absent
    BY <1>0, <1>10, <2>1 DEF RestoreDone, RemoveManifest, StagedInv
  <2>3. edits' = 0 => \E o \in Options : Acceptable(o)'
    BY <1>0, <2>1 DEF AcceptInv, Acceptable
  <2>4. QED
    BY <2>1, <2>2, <2>3, EndKeepsInv
<1>11. CASE StartWithoutManifest
  <2>1. /\ run.pc = "idle" /\ run'.pc = "noop" /\ run'.op = "none"
        /\ UNCHANGED <<files, staged, reg, edits>>
    BY <1>11, IdleRunType DEF StartWithoutManifest, IdleRun
  <2>2. \A f \in Owned : staged'[f] = Absent
    BY <1>0, <2>1 DEF StagedInv
  <2>3. PhaseInv' /\ StagedInv' /\ InstallInv' /\ UninstallInv'
    BY <2>1, <2>2 DEF PhaseInv, StagedInv, InstallInv, UninstallInv, Installing, Removing
  <2>4. AcceptInv'
    BY <1>0, <2>1 DEF AcceptInv, Acceptable, Removing
  <2>5. QED
    BY <2>3, <2>4 DEF Rest
<1>12. CASE ReportNoop
  BY <1>a, <1>12 DEF ReportNoop
<1>13. QED
  BY <1>1, <1>2, <1>3, <1>5, <1>6, <1>7, <1>8, <1>9, <1>10, <1>11, <1>12 DEF Uninstall

\* Every step keeps the invariant.
LEMMA NextInv == Inv /\ [Next]_vars => Inv'
<1> SUFFICES ASSUME Inv, [Next]_vars PROVE Inv'
  OBVIOUS
<1>1. TypeOK'
  BY NextTypeOK DEF Inv
<1>2. SUFFICES Rest'
  BY <1>1 DEF Inv
<1>3. CASE Install
  BY <1>3, InstallInvariant
<1>4. CASE Uninstall
  BY <1>4, UninstallInvariant
<1>5. CASE UserStep
  <2>1. PICK kind : Edit(kind)
    BY <1>5 DEF UserStep, Modify, Delete, Create, Register
  <2>2. QED
    BY <2>1, UserKeepsInv
<1>6. CASE QueryFails \/ Crash
  <2>1. Ends /\ UNCHANGED <<files, reg, edits>>
    BY <1>6 DEF QueryFails, Crash
  <2>2. \A f \in Owned : staged'[f] = Absent
    BY <1>6, Values DEF QueryFails, Crash, NothingStaged, Inv, Rest, StagedInv, Installing
  <2>3. edits' = 0 => \E o \in Options : Acceptable(o)'
    BY <2>1 DEF Inv, Rest, AcceptInv, Acceptable
  <2>4. QED
    BY <2>1, <2>2, <2>3, EndKeepsInv
<1>7. CASE UNCHANGED vars
  BY <1>7 DEF vars, Inv, Rest, PhaseInv, StagedInv, InstallInv, UninstallInv, AcceptInv, Acceptable
<1>8. QED
  BY <1>3, <1>4, <1>5, <1>6, <1>7 DEF Next

\* The initial states satisfy the invariant.
LEMMA InitInv == Init => Inv
<1> SUFFICES ASSUME Init PROVE Inv
  OBVIOUS
<1>1. run.pc = "idle" /\ run.op = "none" /\ reg = None
  BY DEF Init, IdleRun
<1>2. \A f \in Files : files[f] = Absent /\ staged[f] = Absent
  BY DEF Init, NothingStaged
<1>3. PhaseInv /\ StagedInv /\ InstallInv /\ UninstallInv
  BY <1>1, <1>2, Values DEF PhaseInv, StagedInv, InstallInv, UninstallInv, Installing, Removing
<1>4. \E o \in Options : Acceptable(o)
  BY <1>1, <1>2, SetupAssumption DEF Acceptable
<1>5. AcceptInv
  BY <1>1, <1>4 DEF AcceptInv, Removing
<1>6. QED
  BY <1>3, <1>5, InitTypeOK DEF Inv, Rest

\* The inductive invariant holds in every reachable state.
THEOREM SetupInvariant == Spec => []Inv
BY InitInv, NextInv, PTL DEF Spec

-----------------------------------------------------------------------------
(* What it is good for *)

\* No sequence of installs, uninstalls, failures and crashes leaves files behind that
\* every later install refuses.
THEOREM SetupNoDeadEnd == Spec => []NoDeadEnd
<1>1. Inv => NoDeadEnd
  BY DEF Inv, Rest, AcceptInv, NoDeadEnd
<1>2. QED
  BY <1>1, SetupInvariant, PTL

\* No step of runUninstall loses what the user wrote to an owned file, at whichever
\* moment the user wrote it, but for a file put where a staged one came from.
THEOREM SetupUserFilesKept == Spec => UserFilesKept
<1> DEFINE Kept == run.op = "uninstall" /\ edits' = edits =>
                     \A f \in Owned :
                       User \in {files[f], staged[f]} =>
                         \/ User \in {files'[f], staged'[f]} \cup litter'
                         \/ files[f] = User /\ staged[f] # Absent
<1>1. ASSUME Inv, [Next]_vars PROVE [Kept]_vars
  <2> SUFFICES ASSUME Next, run.op = "uninstall", edits' = edits,
                      NEW f \in Owned, User \in {files[f], staged[f]}
               PROVE  \/ User \in {files'[f], staged'[f]} \cup litter'
                      \/ files[f] = User /\ staged[f] # Absent
    BY <1>1
  <2> DEFINE Goal == \/ User \in {files'[f], staged'[f]} \cup litter'
                     \/ files[f] = User /\ staged[f] # Absent
  <2>0. /\ run.pc \in Removing /\ StagedInv /\ run.options \in Options
        /\ files \in [Files -> Contents] /\ staged \in [Files -> Contents]
        /\ f \in Files /\ f # "manifest"
        /\ Expected(f, run.options) \notin {Absent, User} /\ Absent # User
    BY <1>1, Values, Distinct DEF Inv, Rest, PhaseInv, TypeOK, Runs, Owned
  <2>1. ASSUME files'[f] = files[f], staged'[f] = staged[f] PROVE Goal
    BY <2>1
  <2>2. CASE Crash
    BY <2>0, <2>2 DEF Crash
  <2>3. CASE QueryFails
    BY <2>1, <2>3 DEF QueryFails
  <2>4. CASE UserStep
    BY <1>1, <2>4 DEF UserStep, Modify, Delete, Create, Register, Edit, Inv, TypeOK
  <2>5. CASE Install
    BY <2>0, <2>5 DEF Install, StartInstall, CheckFile, WriteFile, RollbackFile, QueryInstall,
                      WritesDone, AddRegistration, Verify, RollbackDone, Removing
  <2>6. ASSUME NEW g \in Owned, StageFile(g) PROVE Goal
    <3>1. g = f => staged[f] = Absent
      BY <2>0, <2>6 DEF StageFile, StagedInv
    <3>2. \/ UNCHANGED <<files, staged>>
          \/ /\ staged' = [staged EXCEPT ![g] = files[g]]
             /\ files' = [files EXCEPT ![g] = Absent]
      BY <2>6 DEF StageFile
    <3>3. QED
      BY <2>0, <2>1, <3>1, <3>2
  <2>7. ASSUME NEW g \in Owned, InspectStaged(g) PROVE Goal
    <3>1. g = f => staged[f] # Absent
      BY <2>0, <2>7 DEF InspectStaged, StagedInv
    <3>2. \/ UNCHANGED <<files, staged>>
          \/ /\ files' = [files EXCEPT ![g] = staged[g]]
             /\ staged' = [staged EXCEPT ![g] = Absent]
      BY <2>7 DEF InspectStaged
    <3>3. QED
      BY <2>0, <2>1, <3>1, <3>2
  <2>8. ASSUME NEW g \in Owned, RestoreFile(g) PROVE Goal
    <3>1. g = f => staged[f] # Absent
      BY <2>0, <2>8 DEF RestoreFile, StagedInv
    <3>2. /\ files' = [files EXCEPT ![g] = staged[g]]
          /\ staged' = [staged EXCEPT ![g] = Absent]
      BY <2>8 DEF RestoreFile
    <3>3. QED
      BY <2>0, <2>1, <3>1, <3>2
  <2>9. ASSUME NEW g \in Owned, RemoveStaged(g) PROVE Goal
    <3>1. g = f => staged[f] # User
      BY <2>0, <2>9 DEF RemoveStaged, StagedInv
    <3>2. files' = files /\ staged' = [staged EXCEPT ![g] = Absent]
      BY <2>9 DEF RemoveStaged
    <3>3. QED
      BY <2>0, <2>1, <3>1, <3>2
  <2>10. ASSUME \/ StartUninstall \/ StartWithoutManifest \/ ReportNoop
                \/ RemoveRegistration \/ RestoreDone
                \/ \E apply \in BOOLEAN : QueryUninstall(apply)
                \/ \E g \in Owned : CheckOwned(g)
         PROVE  Goal
    BY <2>1, <2>10 DEF StartUninstall, StartWithoutManifest, ReportNoop, RemoveRegistration,
                       RestoreDone, QueryUninstall, CheckOwned
  <2>11. CASE RemoveManifest
    BY <2>0, <2>1, <2>11 DEF RemoveManifest
  <2>12. QED
    BY <2>2, <2>3, <2>4, <2>5, <2>6, <2>7, <2>8, <2>9, <2>10, <2>11 DEF Next, Uninstall
<1>2. Inv /\ [Next]_vars => [Kept]_vars
  BY <1>1
<1>3. Spec => [][Kept]_vars
  BY <1>2, SetupInvariant, PTL DEF Spec
<1>4. QED
  BY <1>3, PTL DEF UserFilesKept

\* A step that ends a command without a fault is the last step of that command.
LEMMA EndingSteps ==
  ASSUME TypeOK, [Next]_vars, run.pc # "idle", run'.pc = "idle", faults' = faults
  PROVE  /\ run.pc = "rollback" => RollbackDone
         /\ run.pc = "write" => WritesDone /\ ~NeedsRegistration
         /\ run.pc = "verify" => /\ getRegistration = Of(run.options)
                                 /\ UNCHANGED <<files, reg>>
         /\ run.pc = "remove" => RemoveManifest
<1> USE DEF Goto, Ends, IdleRun
<1>0. run \in Runs /\ faults \in Nat /\ Next
  BY DEF TypeOK, vars
<1>1. ~Fault
  BY <1>0 DEF Fault
<1>2. ~UserStep
  BY <1>0 DEF UserStep, Modify, Delete, Create, Register, Edit, Runs
<1>3. ~Crash /\ (run.pc \in {"rollback", "write", "verify", "remove"} => ~QueryFails)
  BY <1>1 DEF Crash, QueryFails
<1>4. ~Rollback
  BY <1>0 DEF Rollback, Runs
<1>5. CASE Install
  <2>1. run.pc = "rollback" => RollbackDone
    <3>1. \A f \in Files : ~(run.pc = "rollback" /\ RollbackFile(f))
      BY <1>0 DEF RollbackFile, Runs
    <3>2. QED
      BY <1>5, <3>1 DEF Install, StartInstall, CheckFile, WriteFile, QueryInstall, WritesDone,
                        AddRegistration, Verify
  <2>2. run.pc = "write" => WritesDone
    <3>1. \A f \in Files : ~WriteFile(f)
      BY <1>0, <1>1, <1>4 DEF WriteFile, Runs
    <3>2. QED
      BY <1>5, <3>1 DEF Install, StartInstall, CheckFile, RollbackFile, QueryInstall, WritesDone,
                        AddRegistration, Verify, RollbackDone
  <2>3. run.pc = "write" => ~NeedsRegistration
    BY <1>0, <2>2 DEF WritesDone, Runs
  <2>4. run.pc = "verify" => Verify
    BY <1>5 DEF Install, StartInstall, CheckFile, WriteFile, RollbackFile, QueryInstall,
                WritesDone, AddRegistration, RollbackDone
  <2>5. run.pc = "verify" => getRegistration = Of(run.options) /\ UNCHANGED <<files, reg>>
    BY <1>1, <1>4, <2>4 DEF Verify
  <2>6. run.pc # "remove"
    BY <1>5 DEF Install, StartInstall, CheckFile, WriteFile, RollbackFile, QueryInstall,
                WritesDone, AddRegistration, Verify, RollbackDone
  <2>7. QED
    BY <2>1, <2>2, <2>3, <2>5, <2>6
<1>6. CASE Uninstall
  <2>1. run.pc = "remove" => RemoveManifest
    <3>1. \A f \in Owned : ~(run.pc = "remove" /\ RemoveStaged(f))
      BY <1>0 DEF RemoveStaged, Runs
    <3>2. QED
      BY <1>6, <3>1 DEF Uninstall, StartUninstall, StartWithoutManifest, ReportNoop,
                        RemoveRegistration, RestoreDone,
                        QueryUninstall, CheckOwned, StageFile, InspectStaged, RestoreFile
  <2>2. run.pc \notin {"rollback", "write", "verify"}
    BY <1>6 DEF Uninstall, StartUninstall, StartWithoutManifest, ReportNoop,
                RemoveRegistration, RestoreDone, RemoveManifest,
                QueryUninstall, CheckOwned, StageFile, InspectStaged, RestoreFile, RemoveStaged
  <2>3. QED
    BY <2>1, <2>2
<1>7. QED
  BY <1>0, <1>2, <1>3, <1>5, <1>6 DEF Next

\* What an install knows of the registration, as long as nobody interferes: until it
\* calls codex mcp add it is as found, and from then on none or the expected one.
RegistrationInv ==
  ~run.touched /\ run.op = "install" =>
    /\ run.pc \in {"check", "query", "write"} => ~run.called
    /\ run.pc \in {"register", "verify"} => run.called
    /\ run.pc \in {"write", "rollback"} /\ ~run.called => reg = RegistrationFound
    /\ run.called => run.found \in {None, Plugin} /\ reg \in {None, Of(run.options)}

\* Every step keeps RegistrationInv.
LEMMA NextRegistration == Inv /\ RegistrationInv /\ [Next]_vars => RegistrationInv'
<1> SUFFICES ASSUME Inv, RegistrationInv, [Next]_vars PROVE RegistrationInv'
  OBVIOUS
<1>0. run \in Runs /\ reg \in Registrations \ {Plugin} /\ PhaseInv
  BY DEF Inv, TypeOK, Rest
<1>a. ASSUME run'.op # "install" \/ run'.touched PROVE RegistrationInv'
  BY <1>a DEF RegistrationInv
<1>b. Ends => run'.op # "install"
  BY DEF Ends, IdleRun
<1>c. Rollback => /\ run'.pc = "rollback" /\ run'.op = run.op /\ run'.options = run.options
                  /\ run'.found = run.found /\ run'.called = run.called
                  /\ run'.touched = run.touched
  BY <1>0 DEF Rollback, Runs
<1>1. ASSUME NEW o \in Options, StartInstall(o) PROVE RegistrationInv'
  <2>1. run'.pc = "check" /\ ~run'.called
    BY <1>1, IdleRunType DEF StartInstall, IdleRun
  <2>2. QED
    BY <2>1 DEF RegistrationInv
<1>2. ASSUME NEW f \in Files, CheckFile(f) PROVE RegistrationInv'
  <2>1. CASE ~Ends
    <3>1. PICK m \in {run.missing, run.missing \cup {f}}, l \in {"query", "check"} :
            run' = [run EXCEPT !.todo = @ \ {f}, !.missing = m, !.pc = l]
      BY <1>2, <2>1 DEF CheckFile
    <3>2. /\ run.pc = "check" /\ run'.pc \in {"check", "query"}
          /\ run'.op = run.op /\ run'.called = run.called /\ run'.touched = run.touched
      BY <1>0, <1>2, <3>1 DEF Runs, CheckFile
    <3>3. QED
      BY <3>2 DEF RegistrationInv
  <2>2. QED
    BY <1>a, <1>b, <2>1
<1>3. ASSUME NEW apply \in BOOLEAN, QueryInstall(apply) PROVE RegistrationInv'
  <2>1. CASE ~Ends
    <3>1. /\ run.pc = "query" /\ reg' = reg
          /\ run' = [run EXCEPT !.pc = "write", !.found = getRegistration, !.todo = run.missing]
      BY <1>3, <2>1 DEF QueryInstall
    <3>2. /\ run'.pc = "write" /\ run'.op = run.op /\ run'.called = run.called
          /\ run'.touched = run.touched /\ run'.found = getRegistration
      BY <1>0, <3>1 DEF Runs
    <3>3. reg = IF getRegistration = Plugin THEN None ELSE getRegistration
      BY <1>0 DEF getRegistration
    <3>4. QED
      BY <3>1, <3>2, <3>3 DEF RegistrationInv, RegistrationFound
  <2>2. QED
    BY <1>a, <1>b, <2>1
<1>4. ASSUME NEW f \in Files, WriteFile(f) PROVE RegistrationInv'
  <2>1. run.pc = "write" /\ reg' = reg
    BY <1>4 DEF WriteFile
  <2>2. CASE Rollback
    BY <1>c, <2>1, <2>2 DEF RegistrationInv, RegistrationFound
  <2>3. CASE run' = [run EXCEPT !.todo = @ \ {f}]
    <3>1. /\ run'.pc = run.pc /\ run'.op = run.op /\ run'.options = run.options
          /\ run'.found = run.found /\ run'.called = run.called /\ run'.touched = run.touched
      BY <1>0, <2>3 DEF Runs
    <3>2. QED
      BY <2>1, <3>1 DEF RegistrationInv, RegistrationFound
  <2>4. QED
    BY <1>4, <2>2, <2>3 DEF WriteFile
<1>5. CASE WritesDone
  <2>1. CASE ~Ends
    <3>1. /\ run.pc = "write" /\ run.found \in {None, Plugin} /\ reg' = reg
          /\ run' = [run EXCEPT !.pc = "register", !.called = TRUE]
      BY <1>5, <2>1 DEF WritesDone, NeedsRegistration
    <3>2. /\ run'.pc = "register" /\ run'.op = run.op /\ run'.options = run.options
          /\ run'.found = run.found /\ run'.called /\ run'.touched = run.touched
      BY <1>0, <3>1 DEF Runs
    <3>3. QED
      BY <3>1, <3>2, Distinct DEF RegistrationInv, RegistrationFound
  <2>2. QED
    BY <1>a, <1>b, <2>1
<1>6. CASE AddRegistration
  <2>1. run.pc = "register" /\ reg' \in {reg, Of(run.options)}
    BY <1>6 DEF AddRegistration
  <2>2. CASE Rollback
    BY <1>c, <2>1, <2>2 DEF RegistrationInv
  <2>3. CASE Goto("verify")
    <3>1. /\ run'.pc = "verify" /\ run'.op = run.op /\ run'.options = run.options
          /\ run'.found = run.found /\ run'.called = run.called /\ run'.touched = run.touched
      BY <1>0, <2>3 DEF Goto, Runs
    <3>2. QED
      BY <2>1, <3>1 DEF RegistrationInv
  <2>4. QED
    BY <1>6, <2>2, <2>3 DEF AddRegistration
<1>7. CASE Verify
  <2>1. run.pc = "verify" /\ reg' \in {reg, None}
    BY <1>7 DEF Verify
  <2>2. CASE Rollback
    BY <1>c, <2>1, <2>2 DEF RegistrationInv
  <2>3. QED
    BY <1>7, <1>a, <1>b, <2>2 DEF Verify
<1>8. ASSUME NEW f \in Files, RollbackFile(f) PROVE RegistrationInv'
  <2>1. /\ run.pc = "rollback" /\ reg' = reg
        /\ run'.pc = run.pc /\ run'.op = run.op /\ run'.options = run.options
        /\ run'.found = run.found /\ run'.called = run.called /\ run'.touched = run.touched
    BY <1>0, <1>8 DEF RollbackFile, Runs
  <2>2. QED
    BY <2>1 DEF RegistrationInv, RegistrationFound
<1>9. CASE Uninstall
  <2>1. TypeOK' /\ PhaseInv'
    BY <1>9, NextTypeOK, UninstallInvariant DEF Inv, Rest
  <2>2. run.pc \notin Installing
    BY <1>9 DEF Uninstall, StartUninstall, StartWithoutManifest, ReportNoop, RemoveRegistration,
                RestoreDone, RemoveManifest, QueryUninstall, CheckOwned, StageFile, InspectStaged,
                RestoreFile, RemoveStaged, Installing
  <2>3. run'.op \in {run.op, "uninstall", "none"}
    BY <1>0, <1>9, IdleRunType
       DEF Uninstall, StartUninstall, StartWithoutManifest, ReportNoop, RemoveRegistration,
           RestoreDone, RemoveManifest, QueryUninstall, CheckOwned, StageFile, InspectStaged,
           RestoreFile, RemoveStaged, Goto, Ends, IdleRun, Runs
  <2>4. QED
    BY <1>0, <1>a, <2>2, <2>3 DEF PhaseInv
<1>10. CASE UserStep
  <2>1. PICK kind : Edit(kind)
    BY <1>10 DEF UserStep, Modify, Delete, Create, Register
  <2>2. QED
    BY <1>0, <1>a, <2>1 DEF Edit, Runs
<1>11. CASE QueryFails \/ Crash \/ RollbackDone
  BY <1>11, <1>a, <1>b DEF QueryFails, Crash, RollbackDone
<1>12. CASE UNCHANGED vars
  BY <1>12 DEF vars, RegistrationInv, RegistrationFound
<1>13. QED
  BY <1>1, <1>2, <1>3, <1>4, <1>5, <1>6, <1>7, <1>8, <1>9, <1>10, <1>11, <1>12 DEF Next, Install

\* Every reachable state satisfies RegistrationInv.
LEMMA SetupRegistration == Spec => []RegistrationInv
<1>1. Init => RegistrationInv
  BY DEF Init, IdleRun, RegistrationInv
<1>2. QED
  BY <1>1, NextRegistration, SetupInvariant, PTL DEF Spec

\* removeNewFiles after a failed install restores the files as they were found; the
\* registration is as found too, or the one that a failed codex mcp add has left.
THEOREM SetupFailedInstallUndone == Spec => FailedInstallUndone
<1> DEFINE Goal == /\ files = run.before
                   /\ reg = RegistrationFound \/ (run.called /\ reg = Of(run.options))
           Undone == run.pc = "rollback" /\ run'.pc = "idle" /\ faults' = faults /\ ~run.touched
                       => Goal
<1>1. ASSUME Inv, RegistrationInv, [Next]_vars, run.pc = "rollback", run'.pc = "idle",
             faults' = faults, ~run.touched
      PROVE  Goal
  <2>1. run.todo = {}
    BY <1>1, EndingSteps DEF Inv, RollbackDone
  <2>2. run.op = "install"
    BY <1>1 DEF Inv, Rest, PhaseInv, Installing
  <2>3. \A f \in Files : files[f] = run.before[f]
    BY <1>1, <2>1, <2>2 DEF Inv, Rest, InstallInv
  <2>4. files \in [Files -> Contents] /\ run.before \in [Files -> Contents]
    BY <1>1 DEF Inv, TypeOK, Runs
  <2>5. reg = RegistrationFound \/ (run.called /\ reg = Of(run.options))
    BY <1>1, <2>2 DEF RegistrationInv, RegistrationFound
  <2>6. QED
    BY <2>3, <2>4, <2>5
<1>2. Inv /\ RegistrationInv /\ [Next]_vars => [Undone]_vars
  BY <1>1
<1>3. Spec => [][Undone]_vars
  BY <1>2, SetupInvariant, SetupRegistration, PTL DEF Spec
<1>4. QED
  BY <1>3, PTL DEF FailedInstallUndone

-----------------------------------------------------------------------------
(* Without edits and faults every command ends with all or nothing installed *)

Looking == {"idle", "noop", "check", "query", "removalCheck", "removalQuery"}

\* As long as the user changed nothing and nothing failed, a command that has not
\* begun to change anything finds a whole installation or none, and an uninstall finds
\* every file it goes on to stage.
SettledInv ==
  edits = 0 /\ faults = 0 =>
    /\ ~run.touched
    /\ run.pc \notin {"rollback", "restore"}
    /\ run.pc \in Looking => Removed \/ \E o \in Options : Installed(o)
    /\ run.pc = "noop" => Removed
    /\ run.pc = "verify" => reg = Of(run.options)
    /\ \A f \in Owned :
         \/ run.pc \in {"removalCheck", "removalQuery"}
         \/ run.pc = "stage" /\ f \in run.todo
         \/ run.pc = "inspect" /\ f \notin run.taken \cup run.todo
         => files[f] # Absent

\* A command that ends, or has only looked so far, where all or nothing is installed.
LEMMA EndIsSettled ==
  ASSUME Ends, (Removed \/ \E o \in Options : Installed(o))'
  PROVE  SettledInv'
<1>1. run'.pc = "idle" /\ ~run'.touched
  BY DEF Ends, IdleRun
<1>2. QED
  BY <1>1 DEF SettledInv

\* Every step of an install keeps it.
LEMMA InstallSettled == Inv /\ SettledInv /\ Install => SettledInv'
<1> SUFFICES ASSUME Inv, SettledInv, Install, edits' = 0, faults' = 0 PROVE SettledInv'
  BY DEF SettledInv
<1>0. TypeOK /\ PhaseInv /\ InstallInv /\ run \in Runs
  BY DEF Inv, Rest, TypeOK
<1>p. edits' = edits /\ faults' \in {faults, faults + 1}
  BY DEF Install, StartInstall, CheckFile, QueryInstall, WriteFile, WritesDone, AddRegistration,
         Verify, RollbackFile, RollbackDone, Fault, NoFault
<1>q. edits = 0 /\ faults = 0 /\ ~Fault
  <2>1. faults \in Nat
    BY <1>0, SetupAssumption DEF TypeOK
  <2>2. QED
    BY <1>p, <2>1 DEF Fault
<1>t. ~run.touched
  BY <1>q DEF SettledInv
<1> DEFINE Whole == Removed \/ \E o \in Options : Installed(o)
<1>u. ASSUME reg' = reg, files' = files, Whole PROVE Whole'
  BY <1>u DEF Removed, Installed
<1>1. ASSUME NEW o \in Options, StartInstall(o) PROVE SettledInv'
  <2>1. run.pc = "idle" /\ reg' = reg /\ files' = files
    BY <1>1 DEF StartInstall
  <2>2. run'.pc = "check" /\ ~run'.touched
    BY <1>1 DEF StartInstall, IdleRun
  <2>3. QED
    BY <1>q, <1>u, <2>1, <2>2 DEF SettledInv, Looking
<1>2. ASSUME NEW f \in Files, CheckFile(f) PROVE SettledInv'
  <2>1. run.pc = "check" /\ reg' = reg /\ files' = files
    BY <1>2 DEF CheckFile
  <2>2. Whole'
    BY <1>q, <1>u, <2>1 DEF SettledInv, Looking
  <2>3. CASE ~Ends
    <3>1. run'.pc \in {"query", "check"} /\ run'.touched = run.touched
      BY <1>0, <1>2, <2>3 DEF CheckFile, Runs
    <3>2. QED
      BY <1>t, <2>2, <3>1 DEF SettledInv
  <2>4. QED
    BY <2>2, <2>3, EndIsSettled
<1>3. ASSUME NEW apply \in BOOLEAN, QueryInstall(apply) PROVE SettledInv'
  <2>1. run.pc = "query" /\ reg' = reg /\ files' = files
    BY <1>3 DEF QueryInstall
  <2>2. Whole'
    BY <1>q, <1>u, <2>1 DEF SettledInv, Looking
  <2>3. CASE ~Ends
    <3>1. run'.pc = "write" /\ run'.touched = run.touched
      BY <1>0, <1>3, <2>3 DEF QueryInstall, Runs
    <3>2. QED
      BY <1>t, <3>1 DEF SettledInv, Looking
  <2>4. QED
    BY <2>2, <2>3, EndIsSettled
<1>4. ASSUME NEW f \in Files, WriteFile(f) PROVE SettledInv'
  <2>1. run.pc = "write" /\ f \in run.todo /\ run.op = "install"
    BY <1>0, <1>4 DEF WriteFile, PhaseInv, Installing
  <2>2. files[f] = Absent
    BY <1>0, <1>t, <2>1 DEF InstallInv
  <2>3. run' = [run EXCEPT !.todo = @ \ {f}]
    BY <1>4, <1>q, <2>2 DEF WriteFile
  <2>4. run'.pc = "write" /\ run'.touched = run.touched
    BY <1>0, <2>1, <2>3 DEF Runs
  <2>5. QED
    BY <1>t, <2>4 DEF SettledInv, Looking
<1>5. CASE WritesDone
  <2>1. run.pc = "write" /\ run.todo = {} /\ run.op = "install" /\ reg' = reg /\ files' = files
    BY <1>0, <1>5 DEF WritesDone, PhaseInv, Installing
  <2>2. CASE NeedsRegistration
    <3>1. run'.pc = "register" /\ run'.touched = run.touched
      BY <1>0, <1>5, <2>2 DEF WritesDone, Runs
    <3>2. QED
      BY <1>t, <3>1 DEF SettledInv, Looking
  <2>3. CASE ~NeedsRegistration
    <3>1. run.found = Of(run.options) /\ reg = Of(run.options)
      BY <1>0, <1>t, <2>1, <2>3 DEF InstallInv, NeedsRegistration
    <3>2. Installed(run.options) /\ run.options \in Options
      BY <1>0, <1>t, <2>1, <3>1 DEF InstallInv, Installed, Runs
    <3>3. Whole'
      BY <1>u, <2>1, <3>2
    <3>4. QED
      BY <1>5, <2>3, <3>3, EndIsSettled DEF WritesDone
  <2>4. QED
    BY <2>2, <2>3
<1>6. CASE AddRegistration
  <2>1. run.pc = "register" /\ reg' = Of(run.options) /\ run' = [run EXCEPT !.pc = "verify"]
    BY <1>6, <1>q DEF AddRegistration, Goto
  <2>2. run'.pc = "verify" /\ run'.touched = run.touched /\ run'.options = run.options
    BY <1>0, <2>1 DEF Runs
  <2>3. QED
    BY <1>t, <2>1, <2>2 DEF SettledInv, Looking
<1>7. CASE Verify
  <2>1. run.pc = "verify" /\ run.op = "install" /\ reg = Of(run.options) /\ files' = files
    BY <1>0, <1>7, <1>q DEF Verify, PhaseInv, Installing, SettledInv
  <2>2. getRegistration = Of(run.options)
    BY <2>1, Distinct DEF getRegistration
  <2>3. Ends /\ reg' = reg
    BY <1>7, <1>q, <2>2 DEF Verify
  <2>4. Installed(run.options) /\ run.options \in Options
    BY <1>0, <1>t, <2>1 DEF InstallInv, Installed, Runs
  <2>5. Whole'
    BY <1>u, <2>1, <2>3, <2>4
  <2>6. QED
    BY <2>3, <2>5, EndIsSettled
<1>8. ASSUME NEW f \in Files PROVE ~RollbackFile(f) /\ ~RollbackDone
  BY <1>q DEF SettledInv, RollbackFile, RollbackDone
<1>9. QED
  BY <1>1, <1>2, <1>3, <1>4, <1>5, <1>6, <1>7, <1>8 DEF Install, Files

\* Every step of an uninstall keeps it.
LEMMA UninstallSettled == Inv /\ SettledInv /\ Uninstall => SettledInv'
<1> SUFFICES ASSUME Inv, SettledInv, Uninstall, edits' = 0, faults' = 0 PROVE SettledInv'
  BY DEF SettledInv
<1>0. /\ TypeOK /\ PhaseInv /\ StagedInv /\ UninstallInv /\ AcceptInv
      /\ run \in Runs /\ files \in [Files -> Contents]
  BY DEF Inv, Rest, TypeOK
<1>p. edits' = edits /\ faults' \in {faults, faults + 1}
  BY DEF Uninstall, StartUninstall, StartWithoutManifest, ReportNoop, RemoveRegistration, RestoreDone,
         RemoveManifest, QueryUninstall, CheckOwned, StageFile, InspectStaged, RestoreFile,
         RemoveStaged, Fault, NoFault
<1>q. edits = 0 /\ faults = 0 /\ ~Fault
  <2>1. faults \in Nat
    BY <1>0, SetupAssumption DEF TypeOK
  <2>2. QED
    BY <1>p, <2>1 DEF Fault
<1>t. ~run.touched
  BY <1>q DEF SettledInv
<1> DEFINE Whole == Removed \/ \E o \in Options : Installed(o)
<1>u. ASSUME reg' = reg, files' = files, Whole PROVE Whole'
  BY <1>u DEF Removed, Installed
<1>e. ASSUME NEW f, NEW o \in Options PROVE Expected(f, o) # Absent
  BY Distinct
<1>1. CASE StartUninstall
  <2>1. run.pc = "idle" /\ reg' = reg /\ files' = files /\ files["manifest"] # Absent
    BY <1>1, Distinct DEF StartUninstall
  <2>2. run'.pc = "removalCheck" /\ ~run'.touched
    BY <1>1 DEF StartUninstall, IdleRun
  <2>3. PICK o \in Options : Installed(o)
    BY <1>q, <2>1 DEF SettledInv, Looking, Removed, Files
  <2>4. \A f \in Owned : files'[f] # Absent
    BY <1>e, <2>1, <2>3 DEF Installed, Files
  <2>5. QED
    BY <1>u, <2>1, <2>2, <2>3, <2>4 DEF SettledInv
<1>2. CASE StartWithoutManifest
  <2>1. run.pc = "idle" /\ reg' = reg /\ files' = files /\ files["manifest"] = Absent
    BY <1>2 DEF StartWithoutManifest
  <2>2. run'.pc = "noop" /\ ~run'.touched
    BY <1>2 DEF StartWithoutManifest, IdleRun
  <2>3. Removed
    BY <1>e, <1>q, <2>1 DEF SettledInv, Looking, Installed, Files
  <2>4. Removed'
    BY <2>1, <2>3 DEF Removed
  <2>5. QED
    BY <2>2, <2>4 DEF SettledInv
<1>3. CASE ReportNoop
  <2>1. Ends /\ Whole'
    BY <1>3, <1>q, <1>u DEF ReportNoop, SettledInv
  <2>2. QED
    BY <2>1, EndIsSettled
<1>4. ASSUME NEW f \in Owned, CheckOwned(f) PROVE SettledInv'
  <2>1. run.pc = "removalCheck" /\ reg' = reg /\ files' = files
    BY <1>4 DEF CheckOwned
  <2>2. Whole' /\ \A g \in Owned : files'[g] # Absent
    BY <1>q, <1>u, <2>1 DEF SettledInv, Looking
  <2>3. CASE ~Ends
    <3>1. run'.pc \in {"removalCheck", "removalQuery"} /\ run'.touched = run.touched
      BY <1>0, <1>4, <2>1, <2>3 DEF CheckOwned, Runs
    <3>2. QED
      BY <1>t, <2>2, <3>1 DEF SettledInv
  <2>4. QED
    BY <2>2, <2>3, EndIsSettled
<1>5. ASSUME NEW apply \in BOOLEAN, QueryUninstall(apply) PROVE SettledInv'
  <2>1. run.pc = "removalQuery" /\ reg' = reg /\ files' = files
    BY <1>5 DEF QueryUninstall
  <2>2. Whole' /\ \A g \in Owned : files'[g] # Absent
    BY <1>q, <1>u, <2>1 DEF SettledInv, Looking
  <2>3. CASE ~Ends
    <3>1. run'.pc = "stage" /\ run'.touched = run.touched
      BY <1>0, <1>5, <2>3 DEF QueryUninstall, Runs
    <3>2. QED
      BY <1>t, <2>2, <3>1 DEF SettledInv, Looking
  <2>4. QED
    BY <2>2, <2>3, EndIsSettled
<1>6. ASSUME NEW f \in Owned, StageFile(f) PROVE SettledInv'
  <2>1. run.pc = "stage" /\ f \in run.todo /\ files[f] # Absent
    BY <1>6, <1>q DEF StageFile, SettledInv
  <2>2. files' = [files EXCEPT ![f] = Absent] /\ run' = [run EXCEPT !.pc = "inspect", !.todo = {f}]
    BY <1>6, <1>q, <2>1 DEF StageFile
  <2>3. run'.pc = "inspect" /\ run'.todo = {f} /\ run'.taken = run.taken /\ run'.touched = run.touched
    BY <1>0, <2>2 DEF Runs
  <2>4. ASSUME NEW g \in Owned, g \notin run.taken \cup {f} PROVE files'[g] # Absent
    <3>1. g \in run.todo
      BY <1>0, <2>1, <2>4 DEF StagedInv
    <3>2. QED
      BY <1>0, <1>q, <2>1, <2>2, <2>4, <3>1 DEF SettledInv, Files
  <2>5. QED
    BY <1>t, <2>3, <2>4 DEF SettledInv, Looking
<1>7. ASSUME NEW f \in Owned, InspectStaged(f) PROVE SettledInv'
  <2>1. run.pc = "inspect" /\ f \in run.todo /\ run.todo = {f}
    BY <1>0, <1>7 DEF InspectStaged, StagedInv
  <2>2. staged[f] \in {Absent, Expected(f, run.options)} /\ staged[f] # Absent
    BY <1>0, <1>q, <2>1 DEF AcceptInv, StagedInv, Removing
  <2>3. StagedAsExpected(f)
    BY <2>2 DEF StagedAsExpected
  <2>4. /\ files' = files
        /\ run' = [run EXCEPT !.taken = @ \cup {f}, !.todo = Owned \ (run.taken \cup {f}),
                              !.pc = IF Owned = run.taken \cup {f} THEN "unregister" ELSE "stage"]
    BY <1>7, <1>q, <2>3 DEF InspectStaged
  <2>5. /\ run'.pc \in {"unregister", "stage"} /\ run'.touched = run.touched
        /\ run'.todo = Owned \ (run.taken \cup {f})
    BY <1>0, <2>4 DEF Runs
  <2>6. \A g \in run'.todo : files'[g] # Absent
    BY <1>q, <2>1, <2>4, <2>5 DEF SettledInv
  <2>7. QED
    BY <1>t, <2>5, <2>6 DEF SettledInv, Looking
<1>8. CASE RemoveRegistration
  <2>1. run' = [run EXCEPT !.pc = "remove", !.todo = run.taken]
    BY <1>8, <1>q DEF RemoveRegistration
  <2>2. run'.pc = "remove" /\ run'.touched = run.touched
    BY <1>0, <2>1 DEF Runs
  <2>3. QED
    BY <1>t, <2>2 DEF SettledInv, Looking
<1>9. ASSUME NEW f \in Owned, RemoveStaged(f) PROVE SettledInv'
  <2>1. run'.pc = "remove" /\ run'.touched = run.touched
    BY <1>0, <1>9 DEF RemoveStaged, Runs
  <2>2. QED
    BY <1>t, <2>1 DEF SettledInv, Looking
<1>10. CASE RemoveManifest
  <2>1. run.pc = "remove" /\ run.op = "uninstall"
    BY <1>0, <1>10 DEF RemoveManifest, PhaseInv, Removing
  <2>2. reg = None /\ \A g \in Owned : files[g] = Absent
    BY <1>0, <1>t, <2>1 DEF UninstallInv
  <2>3. Removed' /\ Ends
    BY <1>0, <1>10, <2>2 DEF RemoveManifest, Removed, Files
  <2>4. QED
    BY <2>3, EndIsSettled
<1>11. ASSUME NEW f \in Owned PROVE ~RestoreFile(f) /\ ~RestoreDone
  BY <1>q DEF SettledInv, RestoreFile, RestoreDone
<1>12. QED
  BY <1>1, <1>2, <1>3, <1>4, <1>5, <1>6, <1>7, <1>8, <1>9, <1>10, <1>11 DEF Uninstall, Owned

\* Every step of the program and of the user keeps it.
LEMMA NextSettled == Inv /\ SettledInv /\ [Next]_vars => SettledInv'
<1> SUFFICES ASSUME Inv, SettledInv, [Next]_vars PROVE SettledInv'
  OBVIOUS
<1>0. edits \in Nat /\ faults \in Nat
  BY SetupAssumption DEF Inv, TypeOK
<1>1. CASE UserStep
  <2>1. PICK kind : Edit(kind)
    BY <1>1 DEF UserStep, Modify, Delete, Create, Register
  <2>2. QED
    BY <1>0, <2>1 DEF Edit, SettledInv
<1>2. CASE QueryFails \/ Crash
  BY <1>0, <1>2 DEF QueryFails, Crash, Fault, SettledInv
<1>3. CASE UNCHANGED vars
  BY <1>3 DEF vars, SettledInv, Removed, Installed
<1>4. QED
  BY <1>1, <1>2, <1>3, InstallSettled, UninstallSettled DEF Next

\* Every reachable state satisfies SettledInv.
LEMMA SetupSettled == Spec => []SettledInv
<1>1. Init => SettledInv
  BY DEF Init, IdleRun, SettledInv, Removed
<1>2. QED
  BY <1>1, NextSettled, SetupInvariant, PTL DEF Spec

-----------------------------------------------------------------------------

\* A command that answers "applied: install" has everything in place, one that answers
\* "applied: uninstall" has left nothing behind, whatever earlier commands left; and one
\* that answers "applied: uninstall_noop" finds nothing there, unless a command crashed
\* or failed before or the user changed something.
THEOREM SetupOutcomesTrue == Spec => OutcomesTrue
<1> DEFINE Goal == /\ run.pc \in {"write", "verify"} => Installed(run.options)
                   /\ run.pc = "remove" => Removed'
                   /\ run.pc = "noop" /\ edits = 0 /\ faults = 0 => Removed
           True == run'.pc = "idle" /\ faults' = faults /\ ~run.touched => Goal
<1>1. ASSUME Inv, SettledInv, [Next]_vars, run'.pc = "idle", faults' = faults, ~run.touched
      PROVE  Goal
  <2>0. TypeOK /\ PhaseInv /\ InstallInv /\ UninstallInv
    BY <1>1 DEF Inv, Rest
  <2>1. CASE run.pc = "write"
    <3>1. run.op = "install" /\ run.todo = {} /\ run.found = Of(run.options)
      BY <1>1, <2>0, <2>1, EndingSteps
         DEF WritesDone, NeedsRegistration, PhaseInv, Installing, InstallInv
    <3>2. QED
      BY <1>1, <2>0, <2>1, <3>1 DEF InstallInv, Installed
  <2>2. CASE run.pc = "verify"
    <3>1. run.op = "install" /\ getRegistration = Of(run.options)
      BY <1>1, <2>0, <2>2, EndingSteps DEF PhaseInv, Installing
    <3>2. reg = Of(run.options)
      BY <3>1, Distinct DEF getRegistration
    <3>3. QED
      BY <1>1, <2>0, <2>2, <3>1, <3>2 DEF InstallInv, Installed
  <2>3. CASE run.pc = "remove"
    <3>1. RemoveManifest /\ run.op = "uninstall"
      BY <1>1, <2>0, <2>3, EndingSteps DEF PhaseInv, Removing
    <3>2. reg = None /\ \A f \in Owned : files[f] = Absent
      BY <1>1, <2>0, <2>3, <3>1 DEF UninstallInv
    <3>3. QED
      BY <2>0, <2>3, <3>1, <3>2 DEF RemoveManifest, TypeOK, Files, Removed
  <2>4. CASE run.pc = "noop"
    BY <1>1, <2>4 DEF SettledInv
  <2>5. QED
    BY <2>1, <2>2, <2>3, <2>4
<1>2. Inv /\ SettledInv /\ [Next]_vars => [True]_vars
  BY <1>1
<1>3. Spec => [][True]_vars
  BY <1>2, SetupInvariant, SetupSettled, PTL DEF Spec
<1>4. QED
  BY <1>3, PTL DEF OutcomesTrue
=============================================================================
