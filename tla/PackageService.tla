--------------------------- MODULE PackageService ---------------------------
(***************************************************************************)
(* The package installs and uninstalls of platform-service/src/install.rs, *)
(* with the import of platform-buildroot/src/package_importer.rs, on top   *)
(* of the operation runner.  Requests are served by blocking threads: each *)
(* loads the stored snapshot, runs the runner on it, and goes on to work   *)
(* outside the journal: asset directories, one private data directory per  *)
(* app, and the launch grants, which are added to a snapshot loaded again  *)
(* and stored as a whole.                                                  *)
(*                                                                         *)
(* A failure of one of these steps ends the request and leaves what a      *)
(* crash before the step leaves, so only the crash is modelled.            *)
(***************************************************************************)
EXTENDS AppOperationRunner

VARIABLES request,  \* what each process does for its client
          assets,   \* installations whose web assets are published
          dataDirs  \* apps that have a private data directory

serviceVars == <<vars, request, assets, dataDirs>>

(***************************************************************************)
(* A request: its stage, the installation it is about, and the snapshot    *)
(* the grants are added to.                                                *)
(***************************************************************************)
NoRequest == [stage |-> "none", inst |-> CHOOSE i \in Installations : TRUE,
              loaded |-> NoState]

ServiceInit ==
    /\ Init
    /\ request = [p \in Processes |-> NoRequest]
    /\ assets = {}
    /\ dataDirs = {}

At(p, stage, pc) == request[p].stage = stage /\ proc[p].pc = pc

Enter(p, stage, i) ==
    request' = [request EXCEPT ![p] = [NoRequest EXCEPT !.stage = stage, !.inst = i]]

EndRequest(p) ==
    /\ request' = [request EXCEPT ![p] = NoRequest]
    /\ proc' = [proc EXCEPT ![p] = Idle]

(***************************************************************************)
(* install_with and uninstall_with up to the call of the runner.           *)
(***************************************************************************)
InstallPackage(p, i) ==
    /\ At(p, "none", "idle")
    /\ Install(p, i, snapshot)
    /\ Enter(p, "installing", i)
    /\ UNCHANGED <<assets, dataDirs>>

UninstallPackage(p, i) ==
    /\ At(p, "none", "idle")
    /\ Uninstall(p, i, snapshot)
    /\ Enter(p, "uninstalling", i)
    /\ UNCHANGED <<assets, dataDirs>>

(***************************************************************************)
(* publish: the asset tree of a web app or the image of a container.       *)
(***************************************************************************)
Publish(i) ==
    IF App(i).runtime = "Web"
    THEN assets' = assets \cup {i} /\ UNCHANGED resources
    ELSE resources' = [resources EXCEPT ![i].image = TRUE] /\ UNCHANGED assets

PublishInstalled(p) ==
    /\ At(p, "installing", "ok")
    /\ Publish(request[p].inst)
    /\ Enter(p, "installed", request[p].inst)
    /\ UNCHANGED <<journal, target, snapshot, proc, faults, dataDirs>>

(***************************************************************************)
(* After a failed install: the first incomplete install of the same app,   *)
(* of whichever request, is published and everything incomplete recovered. *)
(***************************************************************************)
IncompleteInstalls(app) ==
    {id \in Incomplete : journal[id].kind = "Install" /\ AppOf[target[id]] = app}

SelectIncompleteInstall(p) ==
    /\ At(p, "installing", "error")
    /\ LET candidates == IncompleteInstalls(AppOf[request[p].inst])
       IN  IF candidates = {}
           THEN EndRequest(p) /\ UNCHANGED <<resources, assets>>
           ELSE \E first \in candidates :
                   /\ \A other \in candidates \ {first} : StartOrder(first, other)
                   /\ Publish(target[first])
                   /\ Enter(p, "recovering", target[first])
                   /\ UNCHANGED proc
    /\ UNCHANGED <<journal, target, snapshot, faults, dataDirs>>

RecoverIncomplete(p) ==
    /\ At(p, "recovering", "error")
    /\ ListIncomplete(p, proc[p].live)
    /\ request' = [request EXCEPT ![p].stage = "resuming"]
    /\ UNCHANGED <<assets, dataDirs>>

Resumed(p) ==
    /\ At(p, "resuming", "ok")
    /\ Enter(p, "installed", request[p].inst)
    /\ UNCHANGED <<vars, assets, dataDirs>>

FailRequest(p) ==
    /\ At(p, "resuming", "error") \/ At(p, "uninstalling", "error")
    /\ EndRequest(p)
    /\ UNCHANGED <<durable, faults, assets, dataDirs>>

(***************************************************************************)
(* installed_info reads the snapshot; then the data directory is made.     *)
(***************************************************************************)
CreateDataDir(p) ==
    /\ At(p, "installed", "ok")
    /\ LET i == request[p].inst
       IN  IF i \in snapshot.apps
           THEN /\ dataDirs' = dataDirs \cup {AppOf[i]}
                /\ Enter(p, "granting", i)
                /\ UNCHANGED proc
           ELSE EndRequest(p) /\ UNCHANGED dataDirs
    /\ UNCHANGED <<durable, faults, assets>>

LoadForGrants(p) ==
    /\ At(p, "granting", "ok")
    /\ request' = [request EXCEPT ![p].stage = "storing", ![p].loaded = snapshot]
    /\ UNCHANGED <<vars, assets, dataDirs>>

StoreGrants(p) ==
    /\ At(p, "storing", "ok")
    /\ snapshot' = [request[p].loaded EXCEPT !.grants = @ \cup {request[p].inst}]
    /\ EndRequest(p)
    /\ UNCHANGED <<journal, target, resources, faults, assets, dataDirs>>

(* Mutant: clean-up drops the data of every app. *)
CleanUpAll(p) ==
    /\ At(p, "uninstalling", "ok")
    /\ assets' = assets \ {request[p].inst}
    /\ dataDirs' = {}
    /\ EndRequest(p)
    /\ UNCHANGED <<durable, faults>>

(***************************************************************************)
(* After the uninstall has committed.  The data directory is named after   *)
(* the app, not after the installation.                                    *)
(***************************************************************************)
CleanUp(p) ==
    /\ At(p, "uninstalling", "ok")
    /\ assets' = assets \ {request[p].inst}
    /\ dataDirs' = dataDirs \ {AppOf[request[p].inst]}
    /\ EndRequest(p)
    /\ UNCHANGED <<durable, faults>>

CrashService(p) ==
    /\ Crash(p)
    /\ request' = [request EXCEPT ![p] = NoRequest]
    /\ UNCHANGED <<assets, dataDirs>>

ServiceStep(p) ==
    \/ PublishInstalled(p)
    \/ SelectIncompleteInstall(p)
    \/ RecoverIncomplete(p)
    \/ Resumed(p)
    \/ FailRequest(p)
    \/ CreateDataDir(p)
    \/ LoadForGrants(p)
    \/ StoreGrants(p)
    \/ CleanUp(p)

RunnerWorks(p) == RunnerStep(p) /\ UNCHANGED <<request, assets, dataDirs>>

ServiceNext ==
    \E p \in Processes :
        \/ \E i \in Installations : InstallPackage(p, i) \/ UninstallPackage(p, i)
        \/ RunnerWorks(p)
        \/ ServiceStep(p)
        \/ CrashService(p)

ServiceSpec == ServiceInit /\ [][ServiceNext]_serviceVars

(***************************************************************************)
(* A thread that serves a request is scheduled until it answers.           *)
(***************************************************************************)
FairServiceSpec ==
    /\ ServiceSpec
    /\ \A p \in Processes : WF_serviceVars(RunnerWorks(p) \/ ServiceStep(p))

-----------------------------------------------------------------------------
Quiet == \A p \in Processes : request[p].stage = "none"

(***************************************************************************)
(* "every existing account gets an explicit launch grant": when no request *)
(* runs and none was interrupted, every advertised app can be launched.    *)
(***************************************************************************)
InstalledIsGranted ==
    Quiet /\ faults = 0 => snapshot.apps \subseteq snapshot.grants

(***************************************************************************)
(* Then it also has its payload and its data directory.                    *)
(***************************************************************************)
InstalledHasItsFiles ==
    Quiet /\ faults = 0 =>
        \A i \in snapshot.apps :
            /\ i \in assets \/ resources[i].image
            /\ AppOf[i] \in dataDirs

(***************************************************************************)
(* The work outside the journal agrees with the snapshot: grants, payload  *)
(* and data directory are there, whatever was installed or removed before. *)
(***************************************************************************)
InstalledIsComplete == InstalledIsGranted /\ InstalledHasItsFiles

(***************************************************************************)
(* "cleanup is best effort and cannot resurrect the app": an installation  *)
(* whose uninstall has committed is not advertised again.                  *)
(***************************************************************************)
UninstalledStaysUninstalled ==
    \A id \in Stored :
        journal[id].kind = "Uninstall" /\ journal[id].phase = "Committed"
            => target[id] \notin snapshot.apps

(***************************************************************************)
(* Every request is answered, whatever others do to the journal.           *)
(***************************************************************************)
RequestsEnd == \A p \in Processes : []<>(request[p].stage = "none")
=============================================================================
