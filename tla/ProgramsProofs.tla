---------------------------- MODULE ProgramsProofs --------------------------
(***************************************************************************)
(* Proofs about the programs that users run: Setup, for any builds, and    *)
(* Panel, for any number of meters and levels.                             *)
(*                                                                         *)
(* Setup: the steps of a run only go forward, so what a run knows at a     *)
(* step is what the steps before it have done, for its own build; what     *)
(* holds between runs is what no step of either kind of run breaks, where  *)
(* it may be the last.                                                     *)
(*                                                                         *)
(* Panel: the buttons come back only in a tick that shows how the test     *)
(* ended before it is over.                                                *)
(***************************************************************************)
EXTENDS Setup, Panel, TLAPS

(* The steps of a run that come after another.                             *)
AfterCopies == {"register", "shortcut", "entry"}
AfterPackages == {"dll", "panel", "setup", "register", "shortcut", "entry"}
AfterTrust == {"remove packages", "add package", "dll", "panel", "setup", "register", "shortcut",
               "entry"}
AfterDriver == {"trust", "trust publisher", "remove packages", "add package", "dll", "panel",
                "setup", "register", "shortcut", "entry"}
InstallSteps == {"test signing", "package", "certificate", "trust", "trust publisher",
                 "remove packages", "add package", "dll", "panel", "setup", "register",
                 "shortcut", "entry"}

AfterDistrust == {"remove folder", "remove entry"}
AfterRemoval == {"distrust", "distrust publisher", "remove folder", "remove entry"}
AfterPrograms == {"uninstall packages", "distrust", "distrust publisher", "remove folder",
                  "remove entry"}
AfterUnregister == {"remove programs", "uninstall packages", "distrust", "distrust publisher",
                    "remove folder", "remove entry"}

Steps == InstallSteps \cup {"hand over", "remove shortcut", "unregister"} \cup AfterUnregister

Runs == [at : Steps \cup {"idle"}, build : Builds \cup {None},
         place : {"elsewhere", "programs", "temporary"}, restart : BOOLEAN]

SetupTypes ==
  /\ run \in Runs
  /\ run.at = "idle" => run = Idle
  /\ run.at # "idle" => run.build \in Builds /\ told = Silent
  /\ run.at \in InstallSteps => run.build \in Carrying
  /\ trusted \in [Stores -> SUBSET Carrying]
  /\ file \in [Files -> Builds \cup {None}]
  /\ testSigning \in BOOLEAN /\ booted \in BOOLEAN
  /\ owed \in BOOLEAN /\ ignored \in BOOLEAN

(* What an installation has written is there and its own.                  *)
Written ==
  /\ run.at = "certificate" \/ run.at \in AfterDriver => file["package"] = run.build
  /\ run.at \in AfterDriver => file["certificate"] = run.build
  /\ run.at \in {"panel", "setup"} \cup AfterCopies => file["dll"] = run.build
  /\ run.at = "setup" \/ run.at \in AfterCopies => file["panel"] = run.build
  /\ run.at \in AfterCopies \/ (run.at \in InstallSteps /\ run.place = "programs")
       => file["setup"] = run.build
  /\ run.at \in {"shortcut", "entry"} => keys = Keys
  /\ run.at = "entry" => shortcut

(* It is trusted before its package is the only one.                       *)
Trusted ==
  /\ run.at = "trust publisher" \/ run.at \in AfterTrust => run.build \in trusted["Root"]
  /\ run.at \in AfterTrust => run.build \in trusted["TrustedPublisher"]
  /\ run.at = "add package" \/ run.at \in AfterRemoval => packages = {}
  /\ run.at \in AfterPackages => packages = {run.build}

(* What an uninstallation has removed is gone.                             *)
Removed ==
  /\ run.at = "unregister" \/ run.at \in AfterUnregister => ~shortcut
  /\ run.at \in AfterUnregister => keys = {} \/ ignored
  /\ run.at \in AfterPrograms => \A f \in Programs : file[f] = None
  /\ run.at = "remove entry" => \A f \in DriverFiles : file[f] = None
  /\ run.at = "distrust publisher" \/ run.at \in AfterDistrust
       => ignored \/ run.build \notin trusted["Root"]
  /\ run.at \in AfterDistrust => ignored \/ run.build \notin trusted["TrustedPublisher"]

(* A restart that is owed is remembered.                                   *)
Remembered ==
  /\ run.at = "test signing" => ~owed
  /\ run.at # "idle" /\ owed => run.restart
  /\ run.at \in InstallSteps => run.at = "test signing" \/ booted \/ run.restart

SetupInv ==
  /\ SetupTypes /\ Written /\ Trusted /\ Removed /\ Remembered
  /\ OutcomeIsTrue /\ RestartIsTold /\ PackageIsTrusted /\ NothingDangles

USE DEF InstallSteps, AfterDriver, AfterTrust, AfterPackages, AfterCopies, AfterUnregister,
        AfterPrograms, AfterRemoval, AfterDistrust

LEMMA StepsAreSteps ==
  /\ "idle" \notin Steps /\ InstallSteps \subseteq Steps /\ AfterUnregister \subseteq Steps
  /\ "hand over" \in Steps /\ "remove shortcut" \in Steps /\ "unregister" \in Steps
BY DEF Steps

LEMMA SetupInit == Init => SetupInv
<1> SUFFICES ASSUME Init PROVE SetupInv
  OBVIOUS
<1>1. run = Idle /\ told = Silent
  BY DEF Init
<1>2. SetupTypes
  <2>1. run \in Runs
    BY <1>1 DEF Idle, Runs
  <2>2. run.at = "idle"
    BY <1>1 DEF Idle
  <2>3. trusted \in [Stores -> SUBSET Carrying] /\ file \in [Files -> Builds \cup {None}]
    BY DEF Init
  <2>4. testSigning \in BOOLEAN /\ booted \in BOOLEAN /\ owed \in BOOLEAN /\ ignored \in BOOLEAN
    BY DEF Init
  <2> QED BY <1>1, <2>1, <2>2, <2>3, <2>4 DEF SetupTypes
<1>3. Written /\ Trusted /\ Removed /\ Remembered
  BY <1>1 DEF Idle, Written, Trusted, Removed, Remembered
<1>4. OutcomeIsTrue /\ RestartIsTold
  BY <1>1 DEF Silent, OutcomeIsTrue, InstalledIsComplete, RemovedIsGone, RestartIsTold
<1>5. PackageIsTrusted /\ NothingDangles
  BY DEF Init, PackageIsTrusted, NothingDangles
<1> QED BY <1>2, <1>3, <1>4, <1>5 DEF SetupInv

(* What a step does to the run                                             *)

Begins == \E b \in Builds, place \in {"elsewhere", "programs"} :
            Install(b, place) \/ Uninstall(b, place)

Stops ==
  \/ Fails \/ Restart \/ AddPackageFails \/ RegisterServerFails
  \/ \E all \in BOOLEAN : RegisterUninstall(all)
  \/ RemoveEntry

Aside ==
  \/ LauncherEnds \/ \E f \in {"dll", "panel"} : Starts(f) \/ Closes(f)
  \/ UNCHANGED vars

RemovesPackage == \E p \in packages, again \in BOOLEAN : RemovePackage(p, again)

Installs ==
  \/ EnableTestSigning \/ WriteDriver \/ Trust
  \/ \E again \in BOOLEAN : AddPackage(again)
  \/ WritePrograms \/ CopySetup \/ RegisterServer \/ CreateShortcut

Uninstalls ==
  \/ HandOver \/ RemoveShortcut \/ UnregisterServer \/ RemovePrograms
  \/ Distrust \/ RemoveFolder

LEMMA SetupCases ==
  ASSUME [Next]_vars
  PROVE  Begins \/ Stops \/ Aside \/ RemovesPackage \/ PackagesRemoved \/ Installs \/ Uninstalls
BY DEF Next, Installing, Uninstalling, Begins, Stops, Aside, RemovesPackage, Installs, Uninstalls

RunMoves(from, to) ==
  /\ run.at = from /\ run'.at = to
  /\ run'.build = run.build /\ run' \in Runs
  /\ told' = told

LEMMA StepMoves ==
  ASSUME run \in Runs, NEW from, NEW to \in Steps, Step(from, to)
  PROVE  /\ RunMoves(from, to)
         /\ run'.place = run.place /\ run'.restart = run.restart
BY DEF Runs, Step, RunMoves

LEMMA Begun ==
  ASSUME Begins
  PROVE  /\ run = Idle /\ told' = Silent /\ owed' = FALSE
         /\ UNCHANGED <<computer, ignored>>
         /\ run' \in Runs /\ run'.at \in {"test signing", "hand over"}
         /\ run'.build \in Builds /\ run'.restart = FALSE
         /\ run'.place = "programs" => file["setup"] = run'.build
         /\ run'.at = "test signing" => run'.build \in Carrying
<1>1. PICK b \in Builds, place \in {"elsewhere", "programs"} :
        Install(b, place) \/ Uninstall(b, place)
  BY DEF Begins
<1>2. PICK first \in {"test signing", "hand over"} :
        Begin(b, place, first) /\ (first = "test signing" => b \in Carrying)
  BY <1>1 DEF Install, Uninstall
<1>3. run' = [at |-> first, build |-> b, place |-> place, restart |-> FALSE]
  BY <1>2 DEF Begin
<1>4. run'.at = first /\ run'.build = b /\ run'.place = place /\ run'.restart = FALSE
  BY <1>3
<1>5. run' \in Runs
  BY <1>3, StepsAreSteps DEF Runs
<1> QED BY <1>2, <1>4, <1>5 DEF Begin

LEMMA Stopped ==
  ASSUME Stops
  PROVE  run' = Idle /\ run'.at = "idle"
<1>1. run' = Idle
  BY DEF Stops, Fails, Restart, AddPackageFails, RegisterServerFails, RegisterUninstall,
         RemoveEntry, Ends
<1> QED BY <1>1 DEF Idle

LEMMA SetAside ==
  ASSUME Aside
  PROVE  UNCHANGED <<run, told, testSigning, booted, packages, trusted, file, keys, shortcut,
                     entry, owed, ignored>>
BY DEF Aside, LauncherEnds, Starts, Closes, vars, computer, boot, driver, registry, history

LEMMA PackageRemoved ==
  ASSUME run \in Runs, owed \in BOOLEAN, RemovesPackage
  PROVE  /\ run.at \in {"remove packages", "uninstall packages"}
         /\ run' \in Runs /\ run'.at = run.at /\ run'.build = run.build /\ run'.place = run.place
         /\ packages' \subseteq packages
         /\ owed' \in BOOLEAN /\ (run.restart => run'.restart)
         /\ (owed' => owed \/ run'.restart)
         /\ UNCHANGED <<told, boot, trusted, file, registry, ignored>>
BY DEF RemovesPackage, RemovePackage, Runs

LEMMA FileWritten ==
  ASSUME run \in Runs, file \in [Files -> Builds \cup {None}], NEW f \in Files,
         NEW to \in Steps, WriteFile(f, to)
  PROVE  /\ RunMoves(f, to) /\ run'.place = run.place /\ run'.restart = run.restart
         /\ file' \in [Files -> Builds \cup {None}]
         /\ file'[f] = run.build
         /\ \A g \in Files : g # f => file'[g] = file[g]
         /\ UNCHANGED <<boot, driver, registry, history>>
<1>1. RunMoves(f, to) /\ run'.place = run.place /\ run'.restart = run.restart
  BY StepMoves DEF WriteFile
<1>2. run.build \in Builds \cup {None}
  BY DEF Runs
<1> QED BY <1>1, <1>2 DEF WriteFile

LEMMA FileRemoved ==
  ASSUME file \in [Files -> Builds \cup {None}], NEW f \in Files, RemoveFile(f)
  PROVE  /\ file' \in [Files -> Builds \cup {None}]
         /\ file'[f] = None
         /\ \A g \in Files : g # f => file'[g] = file[g]
         /\ UNCHANGED <<run, told, boot, driver, registry, history>>
BY DEF RemoveFile

LEMMA TrustAdded ==
  ASSUME run \in Runs, trusted \in [Stores -> SUBSET Carrying], run.build \in Carrying,
         NEW s \in Stores, NEW from, NEW to \in Steps, TrustIn(s, from, to)
  PROVE  /\ RunMoves(from, to) /\ run'.place = run.place /\ run'.restart = run.restart
         /\ trusted' \in [Stores -> SUBSET Carrying]
         /\ run.build \in trusted'[s]
         /\ \A t \in Stores : trusted[t] \subseteq trusted'[t]
         /\ UNCHANGED <<boot, packages, file, registry, history>>
<1>1. RunMoves(from, to) /\ run'.place = run.place /\ run'.restart = run.restart
  BY StepMoves DEF TrustIn
<1> QED BY <1>1 DEF TrustIn

(* A certificate is only missing where the run's own is.                   *)
LEMMA TrustRemoved ==
  ASSUME run \in Runs, trusted \in [Stores -> SUBSET Carrying],
         NEW s \in Stores, NEW from, NEW to \in Steps, DistrustIn(s, from, to)
  PROVE  /\ RunMoves(from, to) /\ run'.place = run.place /\ run'.restart = run.restart
         /\ trusted' \in [Stores -> SUBSET Carrying]
         /\ ignored => ignored'
         /\ ignored' \/ run.build \notin trusted'[s]
         /\ \A t \in Stores : trusted'[t] \subseteq trusted[t]
         /\ UNCHANGED <<boot, packages, file, registry, owed>>
<1>1. RunMoves(from, to) /\ run'.place = run.place /\ run'.restart = run.restart
  BY StepMoves DEF DistrustIn
<1>2. UNCHANGED <<boot, packages, file, registry, owed>>
  BY DEF DistrustIn
<1>3. CASE IgnoredMay /\ UNCHANGED trusted /\ ignored' = TRUE
  BY <1>1, <1>2, <1>3
<1>4. CASE trusted' = [trusted EXCEPT ![s] = @ \ {OwnCertificate}] /\ UNCHANGED ignored
  <2>1. trusted'[s] = trusted[s] \ {OwnCertificate}
        /\ \A t \in Stores : t # s => trusted'[t] = trusted[t]
    BY <1>4
  <2>2. trusted' \in [Stores -> SUBSET Carrying]
    BY <1>4
  <2>3. run.build \notin trusted'[s]
    BY <2>1 DEF OwnCertificate
  <2> QED BY <1>1, <1>2, <1>4, <2>1, <2>2, <2>3
<1> QED BY <1>3, <1>4 DEF DistrustIn

LEMMA UninstallMoves ==
  ASSUME run \in Runs, Uninstalls
  PROVE  /\ <<run.at, run'.at>> \in
              {<<"hand over", "remove shortcut">>, <<"remove shortcut", "unregister">>,
               <<"unregister", "remove programs">>, <<"remove programs", "remove programs">>,
               <<"remove programs", "uninstall packages">>, <<"distrust", "distrust publisher">>,
               <<"distrust publisher", "remove folder">>, <<"remove folder", "remove folder">>,
               <<"remove folder", "remove entry">>}
         /\ run'.build = run.build /\ run'.restart = run.restart
         /\ UNCHANGED <<told, boot, packages, entry, owed>>
<1>1. CASE HandOver
  BY <1>1 DEF HandOver, Runs, computer, driver, registry, history
<1>2. CASE RemoveShortcut \/ UnregisterServer
  BY <1>2, StepMoves, StepsAreSteps DEF RemoveShortcut, UnregisterServer, RunMoves, driver, history
<1>3. CASE RemovePrograms
  BY <1>3, StepMoves, StepsAreSteps
     DEF RemovePrograms, RemoveFile, RunMoves, computer, driver, registry, history
<1>4. CASE RemoveFolder
  BY <1>4, StepMoves, StepsAreSteps
     DEF RemoveFolder, RemoveFile, RunMoves, computer, driver, registry, history
<1>5. CASE Distrust
  BY <1>5, StepMoves, StepsAreSteps DEF Distrust, DistrustIn, RunMoves, registry
<1> QED BY <1>1, <1>2, <1>3, <1>4, <1>5 DEF Uninstalls

LEMMA InstallMoves ==
  ASSUME run \in Runs, Installs
  PROVE  /\ run.at \in InstallSteps /\ run'.at \in InstallSteps
         /\ told' = told
<1>1. CASE EnableTestSigning
  BY <1>1 DEF EnableTestSigning, Runs
<1>2. CASE \E again \in BOOLEAN : AddPackage(again)
  BY <1>2 DEF AddPackage, Runs
<1>3. CASE \E from \in InstallSteps, to \in InstallSteps : Step(from, to)
  BY <1>3, StepMoves, StepsAreSteps DEF RunMoves
<1> QED BY <1>1, <1>2, <1>3 DEF Installs, WriteDriver, WritePrograms, CopySetup, WriteFile, Trust,
                                TrustIn, RegisterServer, CreateShortcut

-----------------------------------------------------------------------------
(* Setup: what a run knows                                                 *)

LEMMA TypesKept ==
  ASSUME SetupTypes, run.at # "idle", run' \in Runs, run'.at # "idle", run'.build = run.build,
         told' = told, run'.at \in InstallSteps => run.at \in InstallSteps,
         trusted' \in [Stores -> SUBSET Carrying], file' \in [Files -> Builds \cup {None}],
         UNCHANGED booted, testSigning' \in BOOLEAN, owed' \in BOOLEAN, ignored' \in BOOLEAN
  PROVE  SetupTypes'
BY DEF SetupTypes, Silent

LEMMA SetupTypesStep == SetupTypes /\ [Next]_vars => SetupTypes'
<1> SUFFICES ASSUME SetupTypes, [Next]_vars PROVE SetupTypes'
  OBVIOUS
<1>0. /\ run \in Runs /\ file \in [Files -> Builds \cup {None}]
      /\ trusted \in [Stores -> SUBSET Carrying]
      /\ testSigning \in BOOLEAN /\ booted \in BOOLEAN
      /\ owed \in BOOLEAN /\ ignored \in BOOLEAN
      /\ run.at \in InstallSteps => run.build \in Carrying
  BY DEF SetupTypes
<1>1. CASE Begins
  BY <1>0, <1>1, Begun DEF computer, boot, driver, SetupTypes
<1>2. CASE Stops
  <2>1. run' \in Runs
    <3>1. run' = Idle
      BY <1>2, Stopped
    <3> QED BY <3>1 DEF Idle, Runs
  <2>2. UNCHANGED <<trusted, file, ignored>>
    BY <1>2 DEF Stops, Fails, Restart, AddPackageFails, RegisterServerFails, RegisterUninstall,
                RemoveEntry, computer, driver, history
  <2>3. testSigning' \in BOOLEAN /\ booted' \in BOOLEAN /\ owed' \in BOOLEAN
    <3>1. CASE Restart
      BY <1>0, <3>1 DEF Restart
    <3>2. CASE ~Restart
      BY <1>0, <1>2, <3>2 DEF Stops, Fails, AddPackageFails, RegisterServerFails,
                              RegisterUninstall, RemoveEntry, computer, boot, history
    <3> QED BY <3>1, <3>2
  <2> QED BY <1>0, <1>2, <2>1, <2>2, <2>3, Stopped DEF SetupTypes
<1>3. CASE Aside
  BY <1>3, SetAside DEF SetupTypes
<1>4. CASE RemovesPackage
  BY <1>0, <1>4, PackageRemoved, TypesKept DEF boot
<1>5. CASE PackagesRemoved
  <2>1. UNCHANGED <<trusted, file, testSigning, booted, owed, ignored>>
    BY <1>5 DEF PackagesRemoved, computer, driver, boot, history
  <2> QED BY <1>0, <1>5, <2>1, StepMoves, StepsAreSteps, TypesKept DEF PackagesRemoved, RunMoves
<1>6. CASE Installs
  <2>1. CASE EnableTestSigning
    <3>1. run' = [run EXCEPT !.at = "package", !.restart = ~booted] /\ run.at = "test signing"
      BY <2>1 DEF EnableTestSigning
    <3>2. (~booted) \in BOOLEAN
      BY <1>0
    <3>3. run' \in Runs /\ run'.at = "package" /\ run'.build = run.build
      BY <1>0, <3>1, <3>2, StepsAreSteps DEF Runs
    <3>4. UNCHANGED <<told, trusted, file, booted, owed, ignored>> /\ testSigning' \in BOOLEAN
      BY <1>0, <2>1 DEF EnableTestSigning, driver, history
    <3> QED BY <1>0, <3>1, <3>3, <3>4, TypesKept
  <2>2. CASE WriteDriver \/ WritePrograms \/ CopySetup
    <3>1. CASE \E f \in Files, to \in InstallSteps : WriteFile(f, to)
      <4>1. PICK f \in Files, to \in InstallSteps : WriteFile(f, to)
        BY <3>1
      <4>2. f \in InstallSteps
        BY DEF Files, DriverFiles, Programs
      <4>3. RunMoves(f, to) /\ file' \in [Files -> Builds \cup {None}]
            /\ UNCHANGED <<boot, driver, registry, history>>
        BY <1>0, <4>1, FileWritten, StepsAreSteps
      <4> QED BY <1>0, <4>2, <4>3, TypesKept DEF RunMoves, driver, boot, history
    <3>2. CASE Step("setup", "register") /\ UNCHANGED <<computer, inUse, history>>
      <4>1. UNCHANGED <<trusted, file, testSigning, booted, owed, ignored>>
        BY <3>2 DEF computer, driver, boot, history
      <4> QED BY <1>0, <3>2, <4>1, StepMoves, StepsAreSteps, TypesKept DEF RunMoves
    <3> QED BY <2>2, <3>1, <3>2
               DEF WriteDriver, WritePrograms, CopySetup, Files, DriverFiles, Programs
  <2>3. CASE Trust
    <3>1. run.build \in Carrying
      BY <1>0, <2>3 DEF Trust, TrustIn, Step
    <3> QED BY <1>0, <2>3, <3>1, TrustAdded, StepsAreSteps, TypesKept
               DEF Trust, RunMoves, boot, history, Stores
  <2>4. CASE \E again \in BOOLEAN : AddPackage(again)
    BY <1>0, <2>4, TypesKept, StepsAreSteps DEF AddPackage, Runs, boot
  <2>5. CASE RegisterServer \/ CreateShortcut
    <3>1. UNCHANGED <<trusted, file, testSigning, booted, owed, ignored>>
      BY <2>5 DEF RegisterServer, CreateShortcut, driver, boot, history
    <3> QED BY <1>0, <2>5, <3>1, StepMoves, StepsAreSteps, TypesKept
               DEF RegisterServer, CreateShortcut, RunMoves
  <2> QED BY <1>6, <2>1, <2>2, <2>3, <2>4, <2>5 DEF Installs
<1>7. CASE Uninstalls
  <2>1. CASE HandOver
    <3>1. UNCHANGED <<told, trusted, file, testSigning, booted, owed, ignored>>
      BY <2>1 DEF HandOver, computer, driver, boot, history
    <3> QED BY <1>0, <2>1, <3>1, TypesKept, StepsAreSteps DEF HandOver, Runs
  <2>2. CASE RemoveShortcut \/ UnregisterServer
    <3>1. UNCHANGED <<trusted, file, testSigning, booted, owed>> /\ ignored' \in BOOLEAN
      BY <1>0, <2>2 DEF RemoveShortcut, UnregisterServer, driver, boot, history
    <3> QED BY <1>0, <2>2, <3>1, StepMoves, StepsAreSteps, TypesKept
               DEF RemoveShortcut, UnregisterServer, RunMoves
  <2>3. CASE RemovePrograms \/ RemoveFolder
    <3>1. CASE \E f \in Files : RemoveFile(f)
      BY <1>0, <3>1, FileRemoved DEF driver, boot, history, SetupTypes
    <3>2. CASE /\ UNCHANGED <<computer, inUse, history>>
               /\ \/ Step("remove programs", "uninstall packages")
                  \/ Step("remove folder", "remove entry")
      <4>1. UNCHANGED <<trusted, file, testSigning, booted, owed, ignored>>
        BY <3>2 DEF computer, driver, boot, history
      <4> QED BY <1>0, <3>2, <4>1, StepMoves, StepsAreSteps, TypesKept DEF RunMoves
    <3> QED BY <2>3, <3>1, <3>2 DEF RemovePrograms, RemoveFolder, Files
  <2>4. CASE Distrust
    <3>1. ignored' \in BOOLEAN
      BY <1>0, <2>4 DEF Distrust, DistrustIn
    <3>2. PICK s \in Stores, from \in AfterUnregister, to \in AfterUnregister :
            DistrustIn(s, from, to)
      BY <2>4 DEF Distrust, Stores
    <3>3. /\ RunMoves(from, to) /\ trusted' \in [Stores -> SUBSET Carrying]
          /\ UNCHANGED <<boot, packages, file, registry, owed>>
      BY <1>0, <3>2, TrustRemoved, StepsAreSteps
    <3> QED BY <1>0, <3>1, <3>3, TypesKept DEF RunMoves, boot
  <2> QED BY <1>7, <2>1, <2>2, <2>3, <2>4 DEF Uninstalls
<1> QED BY <1>1, <1>2, <1>3, <1>4, <1>5, <1>6, <1>7, SetupCases

(* A step of an installation to another, and the rest.                     *)
LEMMA WrittenStep == SetupInv /\ [Next]_vars => Written'
<1> SUFFICES ASSUME SetupInv, [Next]_vars PROVE Written'
  OBVIOUS
<1> USE DEF Written
<1>0. /\ run \in Runs /\ file \in [Files -> Builds \cup {None}] /\ Written
      /\ run.build \in Carrying \/ run.at \notin InstallSteps
      /\ trusted \in [Stores -> SUBSET Carrying]
      /\ owed \in BOOLEAN
  BY DEF SetupInv, SetupTypes
<1>1. CASE Begins
  BY <1>1, Begun DEF computer
<1>2. CASE Stops
  BY <1>2, Stopped
<1>3. CASE Aside
  BY <1>0, <1>3, SetAside
<1>4. CASE RemovesPackage
  <2>1. /\ run'.at = run.at /\ run'.build = run.build /\ run'.place = run.place
        /\ UNCHANGED <<file, keys, shortcut>>
    BY <1>0, <1>4, PackageRemoved DEF registry
  <2> QED BY <1>0, <2>1
<1>5. CASE PackagesRemoved
  <2>1. UNCHANGED <<file, keys, shortcut>>
    BY <1>5 DEF PackagesRemoved, computer, registry
  <2> QED BY <1>0, <1>5, <2>1, StepMoves, StepsAreSteps DEF PackagesRemoved, RunMoves
<1>6. CASE Installs
  <2>1. CASE EnableTestSigning
    BY <1>0, <2>1 DEF EnableTestSigning, Runs, registry
  <2>2. CASE WriteDriver \/ WritePrograms \/ CopySetup
    <3>1. ASSUME NEW f \in Files, NEW to \in InstallSteps, WriteFile(f, to),
                 <<f, to>> \in {<<"package", "certificate">>,
                                <<"certificate", "trust">>, <<"dll", "panel">>,
                                <<"panel", "setup">>, <<"setup", "register">>}
          PROVE  Written'
      <4>1. /\ RunMoves(f, to) /\ run'.place = run.place
            /\ file'[f] = run.build /\ \A g \in Files : g # f => file'[g] = file[g]
            /\ UNCHANGED <<boot, driver, registry, history>>
        BY <1>0, <3>1, FileWritten, StepsAreSteps
      <4> QED BY <1>0, <3>1, <4>1 DEF RunMoves, Files, DriverFiles, Programs
    <3>2. CASE /\ Step("setup", "register")
               /\ run.place = "programs"
               /\ UNCHANGED <<computer, inUse, history>>
      <4>1. UNCHANGED <<file, keys, shortcut>>
        BY <3>2 DEF computer, registry
      <4> QED BY <1>0, <3>2, <4>1, StepMoves, StepsAreSteps DEF RunMoves
    <3> QED BY <2>2, <3>1, <3>2
               DEF WriteDriver, WritePrograms, CopySetup, Files, DriverFiles, Programs
  <2>3. CASE Trust
    <3>1. UNCHANGED <<file, keys, shortcut>>
      BY <2>3 DEF Trust, TrustIn, registry
    <3> QED BY <1>0, <2>3, <3>1, StepMoves, StepsAreSteps DEF Trust, TrustIn, RunMoves
  <2>4. CASE \E again \in BOOLEAN : AddPackage(again)
    BY <1>0, <2>4 DEF AddPackage, Runs, registry
  <2>5. CASE RegisterServer
    BY <1>0, <2>5, StepMoves, StepsAreSteps DEF RegisterServer, DllRegisters, RunMoves
  <2>6. CASE CreateShortcut
    BY <1>0, <2>6, StepMoves, StepsAreSteps DEF CreateShortcut, RunMoves
  <2> QED BY <1>6, <2>1, <2>2, <2>3, <2>4, <2>5, <2>6 DEF Installs
<1>7. CASE Uninstalls
  <2>1. run'.at \notin InstallSteps
    BY <1>0, <1>7, UninstallMoves
  <2> QED BY <2>1
<1> QED BY <1>1, <1>2, <1>3, <1>4, <1>5, <1>6, <1>7, SetupCases

LEMMA TrustedStep == SetupInv /\ [Next]_vars => Trusted'
<1> SUFFICES ASSUME SetupInv, [Next]_vars PROVE Trusted'
  OBVIOUS
<1> USE DEF Trusted
<1>0. /\ run \in Runs /\ file \in [Files -> Builds \cup {None}] /\ Trusted
      /\ run.at \in InstallSteps => run.build \in Carrying
      /\ trusted \in [Stores -> SUBSET Carrying]
      /\ owed \in BOOLEAN
  BY DEF SetupInv, SetupTypes
<1>1. CASE Begins
  BY <1>1, Begun
<1>2. CASE Stops
  BY <1>2, Stopped
<1>3. CASE Aside
  BY <1>0, <1>3, SetAside
<1>4. CASE RemovesPackage
  BY <1>0, <1>4, PackageRemoved
<1>5. CASE PackagesRemoved
  <2>1. UNCHANGED <<packages, trusted>> /\ packages = {}
    BY <1>5 DEF PackagesRemoved, computer, driver
  <2> QED BY <1>0, <1>5, <2>1, StepMoves, StepsAreSteps DEF PackagesRemoved, RunMoves
<1>6. CASE Installs
  <2>1. CASE EnableTestSigning
    BY <1>0, <2>1 DEF EnableTestSigning, Runs
  <2>2. CASE WriteDriver \/ WritePrograms \/ CopySetup \/ RegisterServer \/ CreateShortcut
    <3>1. UNCHANGED <<packages, trusted>>
      BY <2>2 DEF WriteDriver, WritePrograms, CopySetup, WriteFile, RegisterServer, CreateShortcut,
                  computer, driver
    <3>2. PICK from \in Steps, to \in Steps : Step(from, to)
               /\ <<from, to>> \in {<<"package", "certificate">>,
                                    <<"certificate", "trust">>, <<"dll", "panel">>,
                                    <<"panel", "setup">>, <<"setup", "register">>,
                                    <<"register", "shortcut">>, <<"shortcut", "entry">>}
      BY <2>2, StepsAreSteps
         DEF WriteDriver, WritePrograms, CopySetup, WriteFile, RegisterServer, CreateShortcut
    <3> QED BY <1>0, <3>1, <3>2, StepMoves DEF RunMoves
  <2>3. CASE Trust
    <3>1. CASE TrustIn("Root", "trust", "trust publisher")
      <4>1. run.build \in Carrying /\ "Root" \in Stores
        BY <1>0, <3>1 DEF TrustIn, Step, Stores
      <4>2. /\ RunMoves("trust", "trust publisher") /\ run.build \in trusted'["Root"]
            /\ UNCHANGED packages
        BY <1>0, <3>1, <4>1, TrustAdded, StepsAreSteps
      <4> QED BY <4>2 DEF RunMoves
    <3>2. CASE TrustIn("TrustedPublisher", "trust publisher", "remove packages")
      <4>1. run.build \in Carrying /\ "Root" \in Stores /\ "TrustedPublisher" \in Stores
        BY <1>0, <3>2 DEF TrustIn, Step, Stores
      <4>2. /\ RunMoves("trust publisher", "remove packages")
            /\ run.build \in trusted'["TrustedPublisher"] /\ trusted["Root"] \subseteq trusted'["Root"]
            /\ UNCHANGED packages
        BY <1>0, <3>2, <4>1, TrustAdded, StepsAreSteps
      <4> QED BY <1>0, <4>2 DEF RunMoves
    <3> QED BY <2>3, <3>1, <3>2 DEF Trust
  <2>4. CASE \E again \in BOOLEAN : AddPackage(again)
    <3>1. file["package"] = run.build
      BY <2>4 DEF AddPackage, SetupInv, Written
    <3> QED BY <1>0, <2>4, <3>1 DEF AddPackage, Runs
  <2> QED BY <1>6, <2>1, <2>2, <2>3, <2>4 DEF Installs
<1>7. CASE Uninstalls
  <2>1. run'.at \notin InstallSteps /\ (run'.at \in AfterRemoval => run.at \in AfterRemoval)
    BY <1>0, <1>7, UninstallMoves
  <2>2. UNCHANGED packages
    BY <1>0, <1>7, UninstallMoves
  <2> QED BY <1>0, <2>1, <2>2
<1> QED BY <1>1, <1>2, <1>3, <1>4, <1>5, <1>6, <1>7, SetupCases

LEMMA RemovedStep == SetupInv /\ [Next]_vars => Removed'
<1> SUFFICES ASSUME SetupInv, [Next]_vars PROVE Removed'
  OBVIOUS
<1> USE DEF Removed
<1>0. /\ run \in Runs /\ file \in [Files -> Builds \cup {None}] /\ Removed
      /\ trusted \in [Stores -> SUBSET Carrying]
      /\ owed \in BOOLEAN /\ ignored \in BOOLEAN
  BY DEF SetupInv, SetupTypes
<1>1. CASE Begins
  BY <1>1, Begun
<1>2. CASE Stops
  BY <1>2, Stopped
<1>3. CASE Aside
  <2>1. UNCHANGED <<run, trusted, file, keys, shortcut, ignored>>
    BY <1>3, SetAside
  <2> QED BY <1>0, <2>1
<1>4. CASE RemovesPackage
  <2>1. /\ run'.at = run.at /\ run'.build = run.build
        /\ UNCHANGED <<trusted, file, keys, shortcut, ignored>>
    BY <1>0, <1>4, PackageRemoved DEF registry
  <2> QED BY <1>0, <2>1
<1>5. CASE PackagesRemoved
  <2>1. UNCHANGED <<trusted, file, keys, shortcut, ignored>>
    BY <1>5 DEF PackagesRemoved, computer, driver, registry, history
  <2> QED BY <1>0, <1>5, <2>1, StepMoves, StepsAreSteps DEF PackagesRemoved, RunMoves
<1>6. CASE Installs
  BY <1>0, <1>6, InstallMoves
<1>7. CASE Uninstalls
  <2>0. run'.build = run.build
    BY <1>0, <1>7, UninstallMoves
  <2>1. CASE HandOver
    BY <1>0, <2>1 DEF HandOver, Runs
  <2>2. CASE RemoveShortcut
    BY <1>0, <2>2, StepMoves, StepsAreSteps DEF RemoveShortcut, RunMoves
  <2>3. CASE UnregisterServer
    <3>1. run.at = "unregister" /\ run'.at = "remove programs" /\ UNCHANGED shortcut
      BY <1>0, <2>3, StepMoves, StepsAreSteps DEF UnregisterServer, RunMoves
    <3>2. keys' = {} \/ ignored'
      <4>1. keys = {} \/ ignored \/ file["dll"] # None
        BY DEF SetupInv, NothingDangles
      <4>2. \/ file["dll"] = None /\ UNCHANGED <<keys, ignored>>
            \/ keys' = {}
            \/ ignored'
        BY <2>3 DEF UnregisterServer, DllUnregisters
      <4> QED BY <4>1, <4>2
    <3> QED BY <1>0, <3>1, <3>2
  <2>4. CASE RemovePrograms
    <3>1. CASE run.at = "remove programs" /\ \E f \in Programs : RemoveFile(f)
      <4>1. UNCHANGED <<run, shortcut, keys, ignored>>
        BY <3>1 DEF RemoveFile, registry, history
      <4> QED BY <1>0, <3>1, <4>1
    <3>2. CASE /\ \A f \in Programs : file[f] = None
               /\ Step("remove programs", "uninstall packages")
               /\ UNCHANGED <<computer, inUse, history>>
      <4>1. UNCHANGED <<file, keys, shortcut, ignored>>
        BY <3>2 DEF computer, registry, history
      <4> QED BY <1>0, <3>2, <4>1, StepMoves, StepsAreSteps DEF RunMoves
    <3> QED BY <2>4, <3>1, <3>2 DEF RemovePrograms
  <2>5. CASE Distrust
    <3>1. PICK s \in Stores, from \in AfterUnregister, to \in AfterUnregister :
            /\ DistrustIn(s, from, to)
            /\ <<s, from, to>> \in {<<"Root", "distrust", "distrust publisher">>,
                                    <<"TrustedPublisher", "distrust publisher", "remove folder">>}
      BY <2>5 DEF Distrust, Stores
    <3>2. /\ RunMoves(from, to) /\ UNCHANGED <<file, registry>>
          /\ ignored => ignored'
          /\ ignored' \/ run.build \notin trusted'[s]
          /\ \A t \in Stores : trusted'[t] \subseteq trusted[t]
      BY <1>0, <3>1, TrustRemoved, StepsAreSteps
    <3> QED BY <1>0, <3>1, <3>2 DEF RunMoves, registry, Stores
  <2>6. CASE RemoveFolder
    <3>1. CASE run.at = "remove folder" /\ \E f \in DriverFiles : RemoveFile(f)
      <4>1. \A g \in Programs : g \notin DriverFiles
        BY DEF Programs, DriverFiles
      <4>2. /\ UNCHANGED <<run, trusted, keys, shortcut, ignored>>
            /\ \A g \in Programs : file'[g] = file[g]
        BY <1>0, <3>1, <4>1, FileRemoved DEF registry, history, driver, Files
      <4> QED BY <1>0, <3>1, <4>2
    <3>2. CASE /\ \A f \in DriverFiles : file[f] = None
               /\ Step("remove folder", "remove entry")
               /\ UNCHANGED <<computer, inUse, history>>
      <4>1. UNCHANGED <<trusted, file, keys, shortcut, ignored>>
        BY <3>2 DEF computer, driver, registry, history
      <4> QED BY <1>0, <3>2, <4>1, StepMoves, StepsAreSteps DEF RunMoves
    <3> QED BY <2>6, <3>1, <3>2 DEF RemoveFolder
  <2> QED BY <1>7, <2>1, <2>2, <2>3, <2>4, <2>5, <2>6 DEF Uninstalls
<1> QED BY <1>1, <1>2, <1>3, <1>4, <1>5, <1>6, <1>7, SetupCases

LEMMA RememberedStep == SetupInv /\ [Next]_vars => Remembered'
<1> SUFFICES ASSUME SetupInv, [Next]_vars PROVE Remembered'
  OBVIOUS
<1> USE DEF Remembered
<1>0. /\ run \in Runs /\ Remembered
      /\ booted \in BOOLEAN /\ owed \in BOOLEAN /\ ignored \in BOOLEAN
  BY DEF SetupInv, SetupTypes
<1>1. CASE Begins
  BY <1>1, Begun
<1>2. CASE Stops
  BY <1>2, Stopped
<1>3. CASE Aside
  <2>1. UNCHANGED <<run, booted, owed>>
    BY <1>3, SetAside
  <2> QED BY <1>0, <2>1
<1>4. CASE RemovesPackage
  <2>1. /\ run'.at = run.at /\ run.at # "test signing" /\ (run.restart => run'.restart)
        /\ (owed' => owed \/ run'.restart) /\ UNCHANGED booted
    BY <1>0, <1>4, PackageRemoved DEF boot
  <2> QED BY <1>0, <2>1
<1>5. CASE PackagesRemoved
  <2>1. UNCHANGED <<booted, owed>>
    BY <1>5 DEF PackagesRemoved, computer, boot, history
  <2> QED BY <1>0, <1>5, <2>1, StepMoves, StepsAreSteps DEF PackagesRemoved, RunMoves
<1>6. CASE Installs
  <2>1. CASE EnableTestSigning
    <3>1. /\ run.at = "test signing" /\ run'.at = "package" /\ run'.restart = ~booted
          /\ UNCHANGED <<booted, owed>>
      BY <1>0, <2>1 DEF EnableTestSigning, Runs, history
    <3> QED BY <1>0, <3>1
  <2>2. CASE \E again \in BOOLEAN : AddPackage(again)
    <3>1. PICK again \in BOOLEAN : AddPackage(again)
      BY <2>2
    <3>2. /\ run.at = "add package" /\ run'.at = "dll" /\ run'.restart = (run.restart \/ again)
          /\ owed' = (owed \/ again) /\ UNCHANGED booted
      BY <1>0, <3>1 DEF AddPackage, Runs, boot
    <3> QED BY <1>0, <3>2
  <2>3. CASE \/ WriteDriver \/ Trust \/ WritePrograms \/ CopySetup \/ RegisterServer
             \/ CreateShortcut
    <3>1. UNCHANGED <<booted, owed>>
      BY <2>3 DEF WriteDriver, WritePrograms, CopySetup, WriteFile, Trust, TrustIn, RegisterServer,
                  CreateShortcut, computer, boot, history
    <3>2. PICK from \in InstallSteps, to \in InstallSteps : Step(from, to)
            /\ from # "test signing" /\ to # "test signing"
      BY <2>3 DEF WriteDriver, WritePrograms, CopySetup, WriteFile, Trust, TrustIn,
                  RegisterServer, CreateShortcut
    <3> QED BY <1>0, <3>1, <3>2, StepMoves, StepsAreSteps DEF RunMoves
  <2> QED BY <1>6, <2>1, <2>2, <2>3 DEF Installs
<1>7. CASE Uninstalls
  <2>1. run'.at # "test signing" /\ run'.at \notin InstallSteps /\ run.at # "idle"
    BY <1>0, <1>7, UninstallMoves
  <2>2. run'.restart = run.restart /\ UNCHANGED owed
    BY <1>0, <1>7, UninstallMoves
  <2> QED BY <1>0, <2>1, <2>2
<1> QED BY <1>1, <1>2, <1>3, <1>4, <1>5, <1>6, <1>7, SetupCases

-----------------------------------------------------------------------------
(* Setup: what it says, and what it leaves                                 *)

LEMMA SilentMeanwhile ==
  ASSUME SetupTypes, Begins \/ RemovesPackage \/ PackagesRemoved \/ Installs \/ Uninstalls
  PROVE  told'.what = "nothing"
<1>0. run \in Runs /\ owed \in BOOLEAN
  BY DEF SetupTypes
<1>1. CASE Begins
  <2>1. told' = Silent
    BY <1>1, Begun
  <2> QED BY <2>1 DEF Silent
<1>2. CASE RemovesPackage \/ PackagesRemoved \/ Installs \/ Uninstalls
  <2>1. told' = told
    BY <1>0, <1>2, PackageRemoved, StepMoves, StepsAreSteps, InstallMoves, UninstallMoves
       DEF PackagesRemoved, RunMoves
  <2>2. run.at # "idle"
    BY <1>0, <1>2, PackageRemoved, StepsAreSteps, InstallMoves, UninstallMoves
       DEF PackagesRemoved, Step
  <2>3. told' = Silent
    BY <2>1, <2>2 DEF SetupTypes
  <2> QED BY <2>3 DEF Silent
<1> QED BY <1>1, <1>2

(* How a run ends.                                                         *)
LEMMA LastWords ==
  ASSUME SetupTypes, Stops, told'.what \notin {"nothing", "failed"}
  PROVE  \/ /\ run.at = "entry" /\ entry' = run.build /\ told'.build = run.build
            /\ told'.what = IF run.restart THEN "installed, restart" ELSE "installed"
            /\ UNCHANGED <<boot, driver, file, keys, shortcut, history>>
         \/ /\ run.at = "remove entry" /\ entry' = None /\ told'.build = run.build
            /\ told'.what = IF run.restart THEN "removed, restart" ELSE "removed"
            /\ UNCHANGED <<boot, driver, file, keys, shortcut, history>>
<1>1. CASE Fails \/ AddPackageFails \/ RegisterServerFails
  <2>1. told' = [what |-> "failed", build |-> run.build]
    BY <1>1 DEF Fails, AddPackageFails, RegisterServerFails, Ends
  <2> QED BY <2>1
<1>2. CASE Restart
  BY <1>2 DEF Restart, Silent
<1>3. CASE \E all \in BOOLEAN : RegisterUninstall(all)
  <2>1. PICK all \in BOOLEAN : RegisterUninstall(all)
    BY <1>3
  <2>2. CASE all
    BY <2>1, <2>2 DEF RegisterUninstall, Ends
  <2>3. CASE ~all
    BY <2>1, <2>3 DEF RegisterUninstall, Ends
  <2> QED BY <2>2, <2>3
<1>4. CASE RemoveEntry
  BY <1>4 DEF RemoveEntry, Ends
<1> QED BY <1>1, <1>2, <1>3, <1>4 DEF Stops

LEMMA OutcomeStep == SetupInv /\ [Next]_vars => (OutcomeIsTrue /\ RestartIsTold)'
<1> SUFFICES ASSUME SetupInv, [Next]_vars PROVE (OutcomeIsTrue /\ RestartIsTold)'
  OBVIOUS
<1> USE DEF OutcomeIsTrue, InstalledIsComplete, RemovedIsGone, RestartIsTold
<1>0. SetupTypes
  BY DEF SetupInv
<1>1. CASE told'.what = "nothing" \/ told'.what = "failed"
  BY <1>1
<1>2. CASE Aside
  <2>1. UNCHANGED <<told, booted, packages, trusted, file, keys, shortcut, entry, owed, ignored>>
    BY <1>2, SetAside
  <2> QED BY <2>1 DEF SetupInv
<1>3. CASE Stops /\ told'.what \notin {"nothing", "failed"}
  <2>1. CASE run.at = "entry"
    <3>1. /\ entry' = run.build /\ told'.build = run.build
          /\ told'.what = IF run.restart THEN "installed, restart" ELSE "installed"
          /\ UNCHANGED <<booted, packages, trusted, file, keys, shortcut, owed>>
      BY <1>0, <1>3, <2>1, LastWords DEF boot, driver, history
    <3>2. /\ packages = {run.build} /\ \A s \in Stores : run.build \in trusted[s]
          /\ \A f \in Files : file[f] = run.build
          /\ keys = Keys /\ shortcut
      BY <2>1 DEF SetupInv, Trusted, Written, Stores, Files, DriverFiles, Programs
    <3>3. run.restart \/ (booted /\ ~owed)
      BY <2>1 DEF SetupInv, Remembered
    <3>4. OutcomeIsTrue'
      BY <3>1, <3>2
    <3>5. RestartIsTold'
      BY <3>1, <3>3
    <3> QED BY <3>4, <3>5
  <2>2. CASE run.at = "remove entry"
    <3>1. /\ entry' = None /\ told'.build = run.build
          /\ told'.what = IF run.restart THEN "removed, restart" ELSE "removed"
          /\ UNCHANGED <<packages, trusted, file, keys, shortcut, owed, ignored>>
      BY <1>0, <1>3, <2>2, LastWords DEF boot, driver, history
    <3>2. /\ packages = {} /\ ~shortcut /\ \A f \in Files : file[f] = None
          /\ keys = {} \/ ignored
          /\ ignored \/ \A s \in Stores : run.build \notin trusted[s]
      BY <2>2 DEF SetupInv, Trusted, Removed, Stores, Files
    <3>3. run.restart \/ ~owed
      BY <2>2 DEF SetupInv, Remembered
    <3>4. OutcomeIsTrue'
      BY <3>1, <3>2
    <3>5. RestartIsTold'
      BY <3>1, <3>3
    <3> QED BY <3>4, <3>5
  <2> QED BY <1>0, <1>3, <2>1, <2>2, LastWords
<1> QED BY <1>0, <1>1, <1>2, <1>3, SetupCases, SilentMeanwhile

LEMMA PackageStep == SetupInv /\ [Next]_vars => PackageIsTrusted'
<1> SUFFICES ASSUME SetupInv, [Next]_vars PROVE PackageIsTrusted'
  OBVIOUS
<1> USE DEF PackageIsTrusted
<1>0. /\ run \in Runs /\ trusted \in [Stores -> SUBSET Carrying] /\ PackageIsTrusted
      /\ file \in [Files -> Builds \cup {None}] /\ owed \in BOOLEAN
      /\ run.at \in InstallSteps => run.build \in Carrying
  BY DEF SetupInv, SetupTypes
<1>1. ASSUME packages' \subseteq packages, \A s \in Stores : trusted[s] \subseteq trusted'[s]
      PROVE  PackageIsTrusted'
  BY <1>0, <1>1
<1>2. ASSUME packages' = packages \cup {file["package"]}, UNCHANGED trusted, run.at = "add package"
      PROVE  PackageIsTrusted'
  <2>1. \A s \in Stores : file["package"] \in trusted[s]
    BY <1>2 DEF SetupInv, Written, Trusted, Stores
  <2> QED BY <1>0, <1>2, <2>1
<1>3. CASE Begins \/ Aside
  <2>1. UNCHANGED <<packages, trusted>>
    BY <1>3, Begun, SetAside DEF computer, driver
  <2> QED BY <1>1, <2>1
<1>4. CASE Stops
  <2>1. CASE AddPackageFails
    BY <1>2, <2>1 DEF AddPackageFails
  <2>2. CASE ~AddPackageFails
    <3>1. UNCHANGED <<packages, trusted>>
      BY <1>4, <2>2 DEF Stops, Fails, Restart, RegisterServerFails, RegisterUninstall, RemoveEntry,
                        computer, driver
    <3> QED BY <1>1, <3>1
  <2> QED BY <2>1, <2>2
<1>5. CASE RemovesPackage
  BY <1>0, <1>1, <1>5, PackageRemoved
<1>6. CASE PackagesRemoved
  BY <1>1, <1>6 DEF PackagesRemoved, computer, driver
<1>7. CASE Installs
  <2>1. CASE Trust
    <3>1. run.build \in Carrying
      BY <1>0, <2>1 DEF Trust, TrustIn, Step
    <3>2. UNCHANGED packages /\ \A s \in Stores : trusted[s] \subseteq trusted'[s]
      BY <1>0, <2>1, <3>1, TrustAdded, StepsAreSteps DEF Trust, Stores
    <3> QED BY <1>1, <3>2
  <2>2. CASE \E again \in BOOLEAN : AddPackage(again)
    BY <1>2, <2>2 DEF AddPackage
  <2>3. CASE \/ EnableTestSigning \/ WriteDriver \/ WritePrograms \/ CopySetup \/ RegisterServer
             \/ CreateShortcut
    <3>1. UNCHANGED <<packages, trusted>>
      BY <2>3 DEF EnableTestSigning, WriteDriver, WritePrograms, CopySetup, WriteFile,
                  RegisterServer, CreateShortcut, computer, driver
    <3> QED BY <1>1, <3>1
  <2> QED BY <1>7, <2>1, <2>2, <2>3 DEF Installs
<1>8. CASE Uninstalls
  <2>1. CASE Distrust
    <3>1. packages = {}
      BY <2>1 DEF Distrust, DistrustIn, Step, SetupInv, Trusted
    <3> QED BY <1>0, <1>8, <3>1, UninstallMoves
  <2>2. CASE HandOver \/ RemoveShortcut \/ UnregisterServer \/ RemovePrograms \/ RemoveFolder
    <3>1. UNCHANGED <<packages, trusted>>
      BY <2>2 DEF HandOver, RemoveShortcut, UnregisterServer, RemovePrograms, RemoveFolder,
                  RemoveFile, computer, driver
    <3> QED BY <1>1, <3>1
  <2> QED BY <1>8, <2>1, <2>2 DEF Uninstalls
<1> QED BY <1>3, <1>4, <1>5, <1>6, <1>7, <1>8, SetupCases

LEMMA DanglesStep == SetupInv /\ [Next]_vars => NothingDangles'
<1> SUFFICES ASSUME SetupInv, [Next]_vars PROVE NothingDangles'
  OBVIOUS
<1> USE DEF NothingDangles
<1>0. /\ run \in Runs /\ NothingDangles /\ file \in [Files -> Builds \cup {None}]
      /\ owed \in BOOLEAN /\ ignored \in BOOLEAN
      /\ run.at # "idle" => run.build # None
  BY SetupAssumption DEF SetupInv, SetupTypes
<1> DEFINE Same == UNCHANGED <<file, keys, shortcut, entry, ignored>>
<1>1. ASSUME Same
      PROVE  NothingDangles'
  BY <1>0, <1>1
<1> HIDE DEF Same
<1>2. CASE Begins \/ Aside
  BY <1>1, <1>2, Begun, SetAside DEF computer, registry, Same
<1>3. CASE RemovesPackage \/ PackagesRemoved
  BY <1>0, <1>1, <1>3, PackageRemoved DEF PackagesRemoved, computer, registry, history, Same
<1>4. CASE Stops
  <2>1. CASE Fails \/ Restart \/ AddPackageFails
    BY <1>1, <2>1 DEF Fails, Restart, AddPackageFails, computer, registry, history, Same
  <2>2. CASE RegisterServerFails
    <3>1. file["dll"] # None /\ file["panel"] # None /\ file["setup"] # None
      BY <1>0, <2>2 DEF RegisterServerFails, SetupInv, Written
    <3>2. UNCHANGED <<file, shortcut, entry, ignored>>
      BY <2>2 DEF RegisterServerFails, history
    <3> QED BY <1>0, <3>1, <3>2
  <2>3. CASE \E all \in BOOLEAN : RegisterUninstall(all)
    <3>1. file["dll"] # None /\ file["panel"] # None /\ file["setup"] # None
      BY <1>0, <2>3 DEF RegisterUninstall, SetupInv, Written
    <3>2. UNCHANGED <<file, keys, shortcut, ignored>>
      BY <2>3 DEF RegisterUninstall, history
    <3> QED BY <1>0, <3>1, <3>2
  <2>4. CASE RemoveEntry
    BY <1>0, <2>4 DEF RemoveEntry, history
  <2> QED BY <1>4, <2>1, <2>2, <2>3, <2>4 DEF Stops
<1>5. CASE Installs
  <2>1. CASE EnableTestSigning \/ Trust \/ \E again \in BOOLEAN : AddPackage(again)
    BY <1>1, <2>1 DEF EnableTestSigning, Trust, TrustIn, AddPackage, registry, history, Same
  <2>2. CASE WriteDriver \/ WritePrograms \/ CopySetup
    <3>1. CASE UNCHANGED <<computer, inUse, history>>
      BY <1>1, <3>1 DEF computer, registry, history, Same
    <3>2. CASE \E f \in Files, to \in InstallSteps : WriteFile(f, to) /\ f \in InstallSteps
      <4>1. PICK f \in Files, to \in InstallSteps : WriteFile(f, to) /\ f \in InstallSteps
        BY <3>2
      <4>2. /\ run.at = f /\ file'[f] = run.build /\ \A g \in Files : g # f => file'[g] = file[g]
            /\ UNCHANGED <<keys, shortcut, entry, ignored>>
        BY <1>0, <4>1, FileWritten, StepsAreSteps DEF RunMoves, registry, history
      <4>3. \A g \in Files : file[g] # None => file'[g] # None
        BY <1>0, <4>1, <4>2, StepsAreSteps
      <4>4. "dll" \in Files /\ "panel" \in Files /\ "setup" \in Files
        BY DEF Files, Programs
      <4> QED BY <1>0, <4>2, <4>3, <4>4
    <3> QED BY <2>2, <3>1, <3>2
               DEF WriteDriver, WritePrograms, CopySetup, Files, DriverFiles, Programs
  <2>3. CASE RegisterServer
    <3>1. file["dll"] # None /\ file["panel"] # None /\ file["setup"] # None
      BY <1>0, <2>3 DEF RegisterServer, Step, SetupInv, Written
    <3>2. UNCHANGED <<file, shortcut, entry, ignored>>
      BY <2>3 DEF RegisterServer, history
    <3> QED BY <1>0, <3>1, <3>2
  <2>4. CASE CreateShortcut
    <3>1. file["dll"] # None /\ file["panel"] # None /\ file["setup"] # None
      BY <1>0, <2>4 DEF CreateShortcut, Step, SetupInv, Written
    <3>2. UNCHANGED <<file, keys, entry, ignored>>
      BY <2>4 DEF CreateShortcut, history
    <3> QED BY <1>0, <3>1, <3>2
  <2> QED BY <1>5, <2>1, <2>2, <2>3, <2>4 DEF Installs
<1>6. CASE Uninstalls
  <2>1. CASE HandOver
    BY <1>1, <2>1 DEF HandOver, computer, registry, history, Same
  <2>2. CASE RemoveShortcut
    BY <1>0, <2>2 DEF RemoveShortcut, history
  <2>3. CASE UnregisterServer
    <3>1. UNCHANGED <<file, shortcut, entry>>
      BY <2>3 DEF UnregisterServer
    <3>2. \/ UNCHANGED <<keys, ignored>>
          \/ keys' = {} /\ UNCHANGED ignored
          \/ ignored'
      BY <2>3 DEF UnregisterServer, DllUnregisters
    <3> QED BY <1>0, <3>1, <3>2
  <2>4. CASE RemovePrograms
    <3>1. ~shortcut /\ (keys = {} \/ ignored)
      BY <2>4 DEF RemovePrograms, Step, SetupInv, Removed
    <3>2. UNCHANGED <<keys, shortcut, entry, ignored>>
      BY <2>4 DEF RemovePrograms, RemoveFile, computer, registry, history
    <3> QED BY <3>1, <3>2
  <2>5. CASE Distrust
    <3>1. UNCHANGED <<file, keys, shortcut, entry>> /\ (ignored => ignored')
      BY <1>0, <2>5 DEF Distrust, DistrustIn, registry
    <3> QED BY <1>0, <3>1
  <2>6. CASE RemoveFolder
    <3>1. ~shortcut /\ (keys = {} \/ ignored)
      BY <2>6 DEF RemoveFolder, Step, SetupInv, Removed
    <3>2. UNCHANGED <<keys, shortcut, entry, ignored>>
      BY <2>6 DEF RemoveFolder, RemoveFile, computer, registry, history
    <3> QED BY <3>1, <3>2
  <2> QED BY <1>6, <2>1, <2>2, <2>3, <2>4, <2>5, <2>6 DEF Uninstalls
<1> QED BY <1>2, <1>3, <1>4, <1>5, <1>6, SetupCases

LEMMA SetupInvariance == Spec => []SetupInv
<1>1. SetupInv /\ [Next]_vars => SetupInv'
  <2> SUFFICES ASSUME SetupInv, [Next]_vars PROVE SetupInv'
    OBVIOUS
  <2>1. SetupTypes
    BY DEF SetupInv
  <2> QED BY <2>1, SetupTypesStep, WrittenStep, TrustedStep, RemovedStep, RememberedStep,
             OutcomeStep, PackageStep, DanglesStep DEF SetupInv
<1> QED BY <1>1, SetupInit, PTL DEF Spec

(* Whatever earlier runs have left, of whatever builds, and whatever       *)
(* failed, what the setup says last is true.                               *)
THEOREM LastLineIsTrue == Spec => []OutcomeIsTrue
<1>1. SetupInv => OutcomeIsTrue
  BY DEF SetupInv
<1> QED BY <1>1, SetupInvariance, PTL

(* No restart that Windows or test signing asks for is forgotten on the    *)
(* way to the last line.                                                   *)
THEOREM RestartIsNotForgotten == Spec => []RestartIsTold
<1>1. SetupInv => RestartIsTold
  BY DEF SetupInv
<1> QED BY <1>1, SetupInvariance, PTL

(* A failure or a restart between any two steps leaves no package in the   *)
(* driver store without the trust in its certificate.                      *)
THEOREM TrustOutlivesPackage == Spec => []PackageIsTrusted
<1>1. SetupInv => PackageIsTrusted
  BY DEF SetupInv
<1> QED BY <1>1, SetupInvariance, PTL

(* Nor does it leave an ASIO driver, a shortcut or a button that shows     *)
(* without the file it is for.                                             *)
THEOREM RemainsAreUsable == Spec => []NothingDangles
<1>1. SetupInv => NothingDangles
  BY DEF SetupInv
<1> QED BY <1>1, SetupInvariance, PTL

-----------------------------------------------------------------------------
(* Panel: the test                                                         *)

(* The buttons are disabled from the start of a test to the tick that      *)
(* finds it over, and an error that is not shown is behind them or in the  *)
(* hands of that tick.                                                     *)
TestInv ==
  /\ running \in BOOLEAN /\ buttons \in BOOLEAN /\ failure \in BOOLEAN
  /\ tester # "away" => running
  /\ running => ~buttons
  /\ failure => ~buttons \/ ui = "test error"

LEMMA TestInit == PanelInit => TestInv
BY DEF PanelInit, TestInv

LEMMA TestStep == TestInv /\ [PanelNext]_panelVars => TestInv'
<1> SUFFICES ASSUME TestInv, [PanelNext]_panelVars PROVE TestInv'
  OBVIOUS
<1> USE DEF TestInv
<1>1. CASE StartTest
  BY <1>1 DEF StartTest, test
<1>2. CASE Tester
  <2>1. CASE TestPlayed
    BY <2>1 DEF TestPlayed, dialog
  <2>2. CASE TestFailed
    BY <2>2 DEF TestFailed, dialog
  <2>3. CASE TestDone
    BY <2>3 DEF TestDone, dialog
  <2> QED BY <1>2, <2>1, <2>2, <2>3 DEF Tester
<1>3. CASE TickRunning
  BY <1>3 DEF TickRunning, test
<1>4. CASE TickTestError
  BY <1>4 DEF TickTestError
<1>5. CASE Closed
  BY <1>5 DEF Closed
<1>6. CASE /\ UNCHANGED <<running, failure, tester, buttons>>
           /\ ui = "test error" => ui' = ui
  BY <1>6
<1>7. CASE StopMeter \/ Close \/ \E m \in Meters : StartMeter(m)
  BY <1>6, <1>7 DEF StopMeter, Close, StartMeter, BeginDrop, test
<1>8. CASE MeterStopped \/ MeterDropped \/ TickMeterFailed \/ TickMeterRuns \/ TakePeaks
  BY <1>6, <1>8 DEF MeterStopped, MeterDropped, TickMeterFailed, TickMeterRuns, TakePeaks,
                    BeginDrop, test
<1>9. CASE \E m \in Meters : Measurer(m)
  BY <1>6, <1>9 DEF Measurer, MeasureFails, Opened, CheckStop, NoMorePackets, GetBuffer, LoadPeak,
                    ExchangePeak, ExchangeFails, ReleaseBuffer, dialog, test
<1>10. CASE UNCHANGED panelVars
  BY <1>6, <1>10 DEF panelVars, dialog, test
<1> QED BY <1>1, <1>2, <1>3, <1>4, <1>5, <1>7, <1>8, <1>9, <1>10 DEF PanelNext, Handlers, Tick

(* The dialog shows how a test failed before it lets the user start the    *)
(* next one, although it looks at the flag and at the error in two steps.  *)
THEOREM OutcomeComesFirst == PanelSpec => OutcomeIsShown
<1>1. TestInv /\ [PanelNext]_panelVars => [~running /\ running' => ~failure]_panelVars
  <2> SUFFICES ASSUME TestInv, [PanelNext]_panelVars, ~running, running'
               PROVE  ~failure
    OBVIOUS
  <2>1. CASE StartTest
    BY <2>1 DEF StartTest, TestInv
  <2>2. CASE ~StartTest
    <3>1. running' = running \/ running' = FALSE
      BY <2>2 DEF PanelNext, StopMeter, Close, StartMeter, Handlers, Tick, Tester, Measurer,
                  MeterStopped, MeterDropped, Closed, TickRunning, TickTestError, TickMeterFailed,
                  TickMeterRuns, TakePeaks, TestPlayed, TestFailed, TestDone, MeasureFails, Opened,
                  CheckStop, NoMorePackets, GetBuffer, LoadPeak, ExchangePeak, ExchangeFails,
                  ReleaseBuffer, panelVars, dialog, test
    <3> QED BY <3>1
  <2> QED BY <2>1, <2>2
<1> QED BY <1>1, TestInit, TestStep, PTL DEF PanelSpec, OutcomeIsShown

-----------------------------------------------------------------------------
(* Panel: the meter                                                        *)

PeakInv ==
  /\ peak \in [Meters -> Levels] /\ measured \in [Meters -> Levels] /\ loud \in [Meters -> Levels]
  /\ PeaksAreKept

LEMMA Louder ==
  ASSUME NEW a \in Levels, NEW b \in Levels
  PROVE  Max2(a, b) \in Levels
BY PanelAssumption DEF Levels, Max2

LEMMA PeakInit == PanelInit => PeakInv
BY PanelAssumption DEF PanelInit, PeakInv, PeaksAreKept, Levels

LEMMA PeakStep == PeakInv /\ [PanelNext]_panelVars => PeakInv'
<1> SUFFICES ASSUME PeakInv, [PanelNext]_panelVars PROVE PeakInv'
  OBVIOUS
<1> USE DEF PeakInv, PeaksAreKept
<1>0. 0 \in Levels
  BY PanelAssumption DEF Levels
<1>1. CASE UNCHANGED <<peak, measured, loud>>
  BY <1>1
<1>2. CASE StartTest \/ StopMeter \/ Close \/ Tester
  BY <1>1, <1>2 DEF StartTest, StopMeter, Close, Tester, TestPlayed, TestFailed, TestDone, measuring
<1>3. CASE \E m \in Meters : StartMeter(m)
  BY <1>0, <1>3 DEF StartMeter
<1>4. CASE TakePeaks
  BY <1>0, <1>4 DEF TakePeaks
<1>5. CASE MeterStopped \/ MeterDropped \/ Closed \/ TickRunning \/ TickTestError
           \/ TickMeterFailed \/ TickMeterRuns
  BY <1>1, <1>5 DEF MeterStopped, MeterDropped, Closed, TickRunning, TickTestError,
                    TickMeterFailed, TickMeterRuns, measuring
<1>6. CASE \E m \in Meters : Measurer(m)
  <2>1. PICK m \in Meters : Measurer(m)
    BY <1>6
  <2>2. CASE \E level \in Levels : GetBuffer(m, level)
    BY <2>2 DEF GetBuffer
  <2>3. CASE ExchangePeak(m)
    <3>1. /\ peak' = [peak EXCEPT ![m] = Max2(peak[m], loud[m])]
          /\ measured' = [measured EXCEPT ![m] = Max2(measured[m], loud[m])]
          /\ loud' = [loud EXCEPT ![m] = 0]
      BY <2>3 DEF ExchangePeak
    <3>2. Max2(peak[m], loud[m]) \in Levels /\ Max2(measured[m], loud[m]) \in Levels
      BY Louder
    <3> QED BY <1>0, <3>1, <3>2
  <2>4. CASE \/ MeasureFails(m) \/ Opened(m) \/ CheckStop(m) \/ NoMorePackets(m) \/ LoadPeak(m)
             \/ ExchangeFails(m) \/ ReleaseBuffer(m)
    BY <1>1, <2>4 DEF MeasureFails, Opened, CheckStop, NoMorePackets, LoadPeak, ExchangeFails,
                      ReleaseBuffer
  <2> QED BY <2>1, <2>2, <2>3, <2>4 DEF Measurer
<1>7. CASE UNCHANGED panelVars
  BY <1>1, <1>7 DEF panelVars, measuring
<1> QED BY <1>2, <1>3, <1>4, <1>5, <1>6, <1>7 DEF PanelNext, Handlers, Tick

(* Taking the peak and raising it are one step each, so the level shown    *)
(* misses no frame and counts none twice.                                  *)
THEOREM NoPeakIsLost == PanelSpec => []PeaksAreKept
<1>1. PeakInv => PeaksAreKept
  BY DEF PeakInv
<1> QED BY <1>1, PeakInit, PeakStep, PTL DEF PanelSpec

(* A meter is replaced or forgotten when its thread has been joined, and   *)
(* the box follows it.                                                     *)
MeterInv ==
  /\ meter \in Meters \cup {NoMeter} /\ checked \in BOOLEAN /\ DOMAIN thread = Meters
  /\ \A m \in Meters : thread[m] # "away" => m = meter
  /\ ui \notin {"switching off", "meter failed", "closing", "closed"}
       => (checked <=> meter # NoMeter)
  /\ ui = "switching off" => ~checked

LEMMA MeterInit == PanelInit => MeterInv
BY DEF PanelInit, MeterInv

(* The thread of a meter only ends by itself.                              *)
LEMMA MeasurerKeeps ==
  ASSUME MeterInv, NEW m \in Meters, Measurer(m)
  PROVE  /\ thread[m] # "away" /\ DOMAIN thread' = Meters
         /\ \A n \in Meters : n # m => thread'[n] = thread[n]
         /\ UNCHANGED dialog
<1>1. DOMAIN thread = Meters
  BY DEF MeterInv
<1>2. UNCHANGED dialog
  BY DEF Measurer, MeasureFails, Opened, CheckStop, NoMorePackets, GetBuffer, LoadPeak,
         ExchangePeak, ExchangeFails, ReleaseBuffer
<1>3. thread[m] # "away" /\ \E to : thread' = [thread EXCEPT ![m] = to]
  BY DEF Measurer, MeasureFails, Opened, CheckStop, NoMorePackets, GetBuffer, LoadPeak,
         ExchangePeak, ExchangeFails, ReleaseBuffer, At
<1> QED BY <1>1, <1>2, <1>3

LEMMA MeterStep == MeterInv /\ [PanelNext]_panelVars => MeterInv'
<1> SUFFICES ASSUME MeterInv, [PanelNext]_panelVars PROVE MeterInv'
  OBVIOUS
<1> USE DEF MeterInv
<1>1. CASE UNCHANGED <<ui, meter, checked, thread>>
  BY <1>1
<1>2. CASE StartTest \/ Tester
  BY <1>1, <1>2 DEF StartTest, Tester, TestPlayed, TestFailed, TestDone, dialog, measuring
<1>3. CASE \E m \in Meters : StartMeter(m)
  <2>1. PICK m \in Meters : StartMeter(m)
    BY <1>3
  <2>2. /\ ui = "waiting" /\ ~checked /\ UNCHANGED ui
        /\ checked' = TRUE /\ meter' = m /\ thread' = [thread EXCEPT ![m] = "opening"]
    BY <2>1 DEF StartMeter
  <2>3. \A n \in Meters : thread[n] = "away"
    BY <2>2, PanelAssumption
  <2>4. m # NoMeter
    BY PanelAssumption
  <2> QED BY <2>2, <2>3, <2>4
<1>4. CASE StopMeter \/ Close
  BY <1>4 DEF StopMeter, Close, BeginDrop
<1>5. CASE MeterStopped \/ MeterDropped \/ Closed
  <2>1. \A m \in Meters : thread[m] = "away"
    BY <1>5 DEF MeterStopped, MeterDropped, Closed, Joined
  <2>2. meter' = NoMeter /\ UNCHANGED thread
    BY <1>5 DEF MeterStopped, MeterDropped, Closed, measuring
  <2>3. ui' \in {"waiting", "closed"} /\ (ui' = "waiting" => ~checked')
    <3>1. CASE MeterStopped
      <4>1. ~checked /\ UNCHANGED checked /\ ui' = "waiting"
        BY <3>1 DEF MeterStopped
      <4> QED BY <4>1
    <3>2. CASE MeterDropped
      BY <3>2 DEF MeterDropped
    <3>3. CASE Closed
      BY <3>3 DEF Closed
    <3> QED BY <1>5, <3>1, <3>2, <3>3
  <2>4. checked' \in BOOLEAN
    BY <1>5 DEF MeterStopped, MeterDropped, Closed
  <2> QED BY <2>1, <2>2, <2>3, <2>4
<1>6. CASE Tick
  <2>1. UNCHANGED <<meter, checked, thread>>
    BY <1>6 DEF Tick, TickRunning, TickTestError, TickMeterFailed, TickMeterRuns, TakePeaks,
                measuring
  <2>2. /\ ui \in {"waiting", "test error", "meter error", "peaks"}
        /\ ui' # "switching off"
    BY <1>6 DEF Tick, TickRunning, TickTestError, TickMeterFailed, TickMeterRuns, TakePeaks,
                BeginDrop
  <2> QED BY <2>1, <2>2
<1>7. CASE \E m \in Meters : Measurer(m)
  <2>1. PICK m \in Meters : Measurer(m)
    BY <1>7
  <2>2. UNCHANGED <<ui, meter, checked>>
    BY <2>1, MeasurerKeeps DEF dialog
  <2> QED BY <2>1, <2>2, MeasurerKeeps
<1>8. CASE UNCHANGED panelVars
  BY <1>1, <1>8 DEF panelVars, dialog, measuring
<1> QED BY <1>2, <1>3, <1>4, <1>5, <1>6, <1>7, <1>8 DEF PanelNext, Handlers

(* The inputs are closed when the box is cleared, whoever clears it, and   *)
(* open for no other meter than the one the box is for.                    *)
THEOREM InputsFollowTheBox == PanelSpec => []MeasuredWhileOn
<1>1. MeterInv => MeasuredWhileOn
  BY DEF MeterInv, MeasuredWhileOn
<1> QED BY <1>1, MeterInit, MeterStep, PTL DEF PanelSpec
=============================================================================
