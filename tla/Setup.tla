-------------------------------- MODULE Setup -------------------------------
(***************************************************************************)
(* Installing and uninstalling (setup/src/main.rs), with the registration  *)
(* that regsvr32 makes the ASIO driver do (asio/src/lib.rs).               *)
(*                                                                         *)
(* A run of the setup is a sequence of steps, each one call that changes   *)
(* the computer. Any of them may fail, which ends the run where it is, and *)
(* Windows may restart between any two; nothing is undone. A file that a   *)
(* program runs from cannot be written or deleted. Setups are run one at a *)
(* time, in any order, of any build.                                       *)
(***************************************************************************)
EXTENDS Naturals

CONSTANTS
  Builds,     \* builds of the setup, each with a certificate of its own
  Carrying,   \* those that carry files to install
  None,       \* no build
  IgnoredMay  \* whether a call whose error the setup ignores may fail

ASSUME SetupAssumption ==
  /\ Carrying \subseteq Builds /\ None \notin Builds
  /\ IgnoredMay \in BOOLEAN

(* The driver folder (the three files of the package are written one after *)
(* the other and used together) and the programs folder.                   *)
DriverFiles == {"package", "certificate"}
Programs == {"dll", "panel", "setup"}
Files == DriverFiles \cup Programs
Stores == {"Root", "TrustedPublisher"}
Keys == {"class", "asio"}

VARIABLES
  run,          \* the setup that runs: its step, build, place, and whether to restart
  told,         \* what the last one said, and its build
  launcher,     \* the installed setup that handed over still runs
  testSigning,  \* for the next start of Windows
  booted,       \* Windows started with it
  packages,     \* in the driver store
  trusted,      \* certificates in each store
  file,         \* the build each file is of
  keys,         \* the ASIO driver's in the registry
  shortcut,
  entry,        \* the build listed in Settings > Apps
  inUse,        \* programs and libraries that run
  \* history
  owed,         \* Windows asked this run for a restart
  ignored       \* a call failed whose error the setup ignores

boot == <<testSigning, booted>>
driver == <<packages, trusted>>
registry == <<keys, shortcut, entry>>
history == <<owed, ignored>>
computer == <<boot, driver, file, registry>>
vars == <<run, told, launcher, computer, inUse, history>>

Idle == [at |-> "idle", build |-> None, place |-> "elsewhere", restart |-> FALSE]
Silent == [what |-> "nothing", build |-> None]

Init ==
  /\ run = Idle /\ told = Silent /\ launcher = FALSE
  /\ testSigning \in BOOLEAN /\ booted = testSigning
  /\ packages = {} /\ trusted = [s \in Stores |-> {}]
  /\ file = [f \in Files |-> None]
  /\ keys = {} /\ shortcut = FALSE /\ entry = None
  /\ inUse = {}
  /\ owed = FALSE /\ ignored = FALSE

-----------------------------------------------------------------------------
(* A run                                                                   *)

Begin(b, place, first) ==
  /\ run = Idle
  /\ place = "programs" => file["setup"] = b
  /\ run' = [at |-> first, build |-> b, place |-> place, restart |-> FALSE]
  /\ told' = Silent /\ owed' = FALSE
  /\ UNCHANGED <<launcher, computer, inUse, ignored>>

(* A build without files says so and does nothing.                         *)
Install(b, place) == b \in Carrying /\ Begin(b, place, "test signing")

Uninstall(b, place) == Begin(b, place, "hand over")

Step(from, to) ==
  /\ run.at = from
  /\ run' = [run EXCEPT !.at = to]
  /\ UNCHANGED <<told, launcher>>

Ends(what) ==
  /\ run' = Idle
  /\ told' = [what |-> what, build |-> run.build]
  /\ UNCHANGED launcher

(* The error of a step is the end of the run.                              *)
Fails ==
  /\ run # Idle
  /\ Ends("failed")
  /\ UNCHANGED <<computer, inUse, history>>

InUse(f) == f \in inUse \/ (f = "setup" /\ (launcher \/ run.place = "programs"))

WriteFile(f, to) ==
  /\ Step(f, to)
  /\ ~InUse(f)
  /\ file' = [file EXCEPT ![f] = run.build]
  /\ UNCHANGED <<boot, driver, registry, inUse, history>>

RemoveFile(f) ==
  /\ file[f] # None /\ ~InUse(f)
  /\ file' = [file EXCEPT ![f] = None]
  /\ UNCHANGED <<run, told, launcher, boot, driver, registry, inUse, history>>

-----------------------------------------------------------------------------
(* Installing                                                              *)

(* Looks at how Windows has started. Secure Boot, the user's no and        *)
(* bcdedit's error end the run.                                            *)
EnableTestSigning ==
  /\ run.at = "test signing"
  /\ run' = [run EXCEPT !.at = "package", !.restart = ~booted]
  /\ testSigning' = (testSigning \/ ~booted)
  /\ UNCHANGED <<told, launcher, booted, driver, file, registry, inUse, history>>

WriteDriver == WriteFile("package", "certificate") \/ WriteFile("certificate", "trust")

TrustIn(s, from, to) ==
  /\ Step(from, to)
  /\ trusted' = [trusted EXCEPT ![s] = @ \cup {run.build}]
  /\ UNCHANGED <<boot, packages, file, registry, inUse, history>>

Trust == TrustIn("Root", "trust", "trust publisher")
         \/ TrustIn("TrustedPublisher", "trust publisher", "remove packages")

(* Mutant: the answer of the last package is the one that counts.          *)
RemovePackage_Last(p, again) ==
  /\ run.at \in {"remove packages", "uninstall packages"}
  /\ packages' = packages \ {p}
  /\ run' = [run EXCEPT !.restart = again]
  /\ owed' = (owed \/ again)
  /\ UNCHANGED <<told, launcher, boot, trusted, file, registry, inUse, ignored>>

(* Of either kind of run: one published package; Windows may ask for a     *)
(* restart (3010).                                                         *)
RemovePackage(p, again) ==
  /\ run.at \in {"remove packages", "uninstall packages"}
  /\ packages' = packages \ {p}
  /\ run' = [run EXCEPT !.restart = @ \/ again]
  /\ owed' = (owed \/ again)
  /\ UNCHANGED <<told, launcher, boot, trusted, file, registry, inUse, ignored>>

(* Mutant: only the package in the folder is looked for.                   *)
PackagesRemoved_InFolder ==
  /\ file["package"] \notin packages
  /\ Step("remove packages", "add package") \/ Step("uninstall packages", "distrust")
  /\ UNCHANGED <<computer, inUse, history>>

PackagesRemoved ==
  /\ packages = {}
  /\ Step("remove packages", "add package") \/ Step("uninstall packages", "distrust")
  /\ UNCHANGED <<computer, inUse, history>>

(* Windows keeps the package also when it cannot install it on the device. *)
AddPackage(again) ==
  /\ run.at = "add package"
  /\ packages' = packages \cup {file["package"]}
  /\ run' = [run EXCEPT !.at = "dll", !.restart = @ \/ again]
  /\ owed' = (owed \/ again)
  /\ UNCHANGED <<told, launcher, boot, trusted, file, registry, inUse, ignored>>

AddPackageFails ==
  /\ run.at = "add package"
  /\ packages' = packages \cup {file["package"]}
  /\ Ends("failed")
  /\ UNCHANGED <<boot, trusted, file, registry, inUse, history>>

WritePrograms == WriteFile("dll", "panel") \/ WriteFile("panel", "setup")

(* Mutant: the setup is copied once.                                       *)
CopySetup_Once ==
  \/ file["setup"] = None /\ WriteFile("setup", "register")
  \/ /\ file["setup"] # None
     /\ Step("setup", "register")
     /\ UNCHANGED <<computer, inUse, history>>

(* The installed copy does not copy itself.                                *)
CopySetup ==
  \/ run.place # "programs" /\ WriteFile("setup", "register")
  \/ /\ run.place = "programs"
     /\ Step("setup", "register")
     /\ UNCHANGED <<computer, inUse, history>>

(* DllRegisterServer writes the class first, then the entry ASIO hosts     *)
(* list, each in several values.                                           *)
DllRegisters == keys' = Keys

DllRegistersInPart == keys' \in {keys \cup {"class"}, Keys}

DllUnregisters == keys' = {}

RegisterServer ==
  /\ Step("register", "shortcut")
  /\ DllRegisters
  /\ UNCHANGED <<boot, driver, file, shortcut, entry, inUse, history>>

RegisterServerFails ==
  /\ run.at = "register"
  /\ DllRegistersInPart
  /\ Ends("failed")
  /\ UNCHANGED <<boot, driver, file, shortcut, entry, inUse, history>>

CreateShortcut ==
  /\ Step("shortcut", "entry")
  /\ shortcut' = TRUE
  /\ UNCHANGED <<boot, driver, file, keys, entry, inUse, history>>

(* The last value may fail when the entry is listed already.               *)
RegisterUninstall(all) ==
  /\ run.at = "entry"
  /\ entry' = run.build
  /\ Ends(IF ~all THEN "failed" ELSE IF run.restart THEN "installed, restart" ELSE "installed")
  /\ UNCHANGED <<boot, driver, file, keys, shortcut, inUse, history>>

-----------------------------------------------------------------------------
(* Uninstalling                                                            *)

(* The installed copy starts one in the temporary directory and ends.      *)
HandOver ==
  /\ run.at = "hand over"
  /\ run' = [run EXCEPT !.at = "remove shortcut",
                        !.place = IF @ = "programs" THEN "temporary" ELSE @]
  /\ launcher' = (launcher \/ run.place = "programs")
  /\ UNCHANGED <<told, computer, inUse, history>>

LauncherEnds ==
  /\ launcher
  /\ launcher' = FALSE
  /\ UNCHANGED <<run, told, computer, inUse, history>>

(* Mutant: an error is ignored.                                            *)
RemoveShortcut_Ignored ==
  /\ Step("remove shortcut", "unregister")
  /\ shortcut' \in {FALSE, shortcut}
  /\ UNCHANGED <<boot, driver, file, keys, entry, inUse, history>>

RemoveShortcut ==
  /\ Step("remove shortcut", "unregister")
  /\ shortcut' = FALSE
  /\ UNCHANGED <<boot, driver, file, keys, entry, inUse, history>>

(* Only a DLL that is there can unregister itself. Its errors and those of *)
(* regsvr32 are ignored.                                                   *)
UnregisterServer ==
  /\ Step("unregister", "remove programs")
  /\ \/ file["dll"] = None /\ UNCHANGED <<keys, ignored>>
     \/ file["dll"] # None /\ DllUnregisters /\ UNCHANGED ignored
     \/ /\ file["dll"] # None /\ IgnoredMay
        /\ keys' \in SUBSET keys
        /\ ignored' = TRUE
  /\ UNCHANGED <<boot, driver, file, shortcut, entry, inUse, owed>>

(* remove_dir_all deletes one file after the other, up to one it cannot.   *)
RemovePrograms ==
  \/ run.at = "remove programs" /\ \E f \in Programs : RemoveFile(f)
  \/ /\ \A f \in Programs : file[f] = None
     /\ Step("remove programs", "uninstall packages")
     /\ UNCHANGED <<computer, inUse, history>>

(* Mutant: the one in the folder.                                          *)
OwnCertificate_InFolder == file["certificate"]

(* The certificate the setup carries, or else the one in the folder.       *)
OwnCertificate == IF run.build \in Carrying THEN run.build ELSE file["certificate"]

(* A certificate that cannot be deleted is left without a word.            *)
DistrustIn(s, from, to) ==
  /\ Step(from, to)
  /\ \/ trusted' = [trusted EXCEPT ![s] = @ \ {OwnCertificate}] /\ UNCHANGED ignored
     \/ IgnoredMay /\ UNCHANGED trusted /\ ignored' = TRUE
  /\ UNCHANGED <<boot, packages, file, registry, inUse, owed>>

Distrust == DistrustIn("Root", "distrust", "distrust publisher")
            \/ DistrustIn("TrustedPublisher", "distrust publisher", "remove folder")

RemoveFolder ==
  \/ run.at = "remove folder" /\ \E f \in DriverFiles : RemoveFile(f)
  \/ /\ \A f \in DriverFiles : file[f] = None
     /\ Step("remove folder", "remove entry")
     /\ UNCHANGED <<computer, inUse, history>>

RemoveEntry ==
  /\ run.at = "remove entry"
  /\ entry' = None
  /\ Ends(IF run.restart THEN "removed, restart" ELSE "removed")
  /\ UNCHANGED <<boot, driver, file, keys, shortcut, inUse, history>>

-----------------------------------------------------------------------------
(* The computer                                                            *)

(* A host loads the ASIO driver it finds in the registry; the panel is     *)
(* opened by whoever finds it.                                             *)
Starts(f) ==
  /\ file[f] # None /\ f \notin inUse
  /\ f = "dll" => keys = Keys
  /\ inUse' = inUse \cup {f}
  /\ UNCHANGED <<run, told, launcher, computer, history>>

Closes(f) ==
  /\ f \in inUse
  /\ inUse' = inUse \ {f}
  /\ UNCHANGED <<run, told, launcher, computer, history>>

(* Test signing is off again if Secure Boot is on.                         *)
Restart ==
  /\ run' = Idle /\ told' = Silent /\ launcher' = FALSE
  /\ inUse' = {}
  /\ testSigning' \in {testSigning, FALSE} /\ booted' = testSigning'
  /\ owed' = FALSE
  /\ UNCHANGED <<driver, file, registry, ignored>>

Installing ==
  \/ EnableTestSigning \/ WriteDriver \/ Trust \/ PackagesRemoved
  \/ \E again \in BOOLEAN : AddPackage(again)
  \/ AddPackageFails \/ WritePrograms \/ CopySetup
  \/ RegisterServer \/ RegisterServerFails \/ CreateShortcut
  \/ \E all \in BOOLEAN : RegisterUninstall(all)

Uninstalling ==
  \/ HandOver \/ RemoveShortcut \/ UnregisterServer \/ RemovePrograms
  \/ \E p \in packages, again \in BOOLEAN : RemovePackage(p, again)
  \/ Distrust \/ RemoveFolder \/ RemoveEntry

Next ==
  \/ \E b \in Builds, place \in {"elsewhere", "programs"} : Install(b, place) \/ Uninstall(b, place)
  \/ Installing \/ Uninstalling \/ Fails
  \/ LauncherEnds \/ Restart
  \/ \E f \in {"dll", "panel"} : Starts(f) \/ Closes(f)

Spec == Init /\ [][Next]_vars

-----------------------------------------------------------------------------
(* Properties                                                              *)

(* When the setup says that it has installed, everything is there and of   *)
(* its build, whatever earlier runs have left.                             *)
InstalledIsComplete ==
  told.what \in {"installed", "installed, restart"} =>
    /\ packages = {told.build}
    /\ \A s \in Stores : told.build \in trusted[s]
    /\ \A f \in Files : file[f] = told.build
    /\ keys = Keys /\ shortcut /\ entry = told.build

(* When the setup says that it has removed, nothing is left of what it     *)
(* looks for, unless a call failed whose error it ignores.                 *)
RemovedIsGone ==
  told.what \in {"removed", "removed, restart"} =>
    /\ packages = {} /\ ~shortcut /\ entry = None
    /\ \A f \in Files : file[f] = None
    /\ ~ignored => keys = {} /\ \A s \in Stores : told.build \notin trusted[s]

(* The last line of a run is true, whatever runs before it left behind.    *)
OutcomeIsTrue == InstalledIsComplete /\ RemovedIsGone

(* Windows has test signing on, and no call of the run has asked for a     *)
(* restart, when the setup says that it is done without one.               *)
RestartIsTold ==
  /\ told.what = "installed" => booted /\ ~owed
  /\ told.what = "removed" => ~owed

(* Whatever fails, an installed package is one Windows trusts: the trust   *)
(* comes before it and goes after it, of whichever build the setups are.   *)
PackageIsTrusted == \A p \in packages, s \in Stores : p \in trusted[s]

(* Nothing that shows points at what is gone: neither the driver hosts     *)
(* list, unless a failure to unregister it was ignored, nor the shortcut.  *)
(* The button in Settings > Apps is without the setup it runs only in the  *)
(* remains of an uninstallation, where the other two are gone already.     *)
NothingDangles ==
  /\ keys # {} /\ ~ignored => file["dll"] # None
  /\ shortcut => file["panel"] # None
  /\ entry # None /\ file["setup"] = None => ~shortcut /\ (keys = {} \/ ignored)
=============================================================================
