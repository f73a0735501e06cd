------------------------ MODULE PackageServiceProofs ------------------------
(***************************************************************************)
(* What the operation runner promises of the platform snapshot still holds *)
(* under the package service, whose requests load and store snapshots on   *)
(* their own, for any number of requests that run together and fail.       *)
(***************************************************************************)
EXTENDS PackageService, AppOperationRunnerProofs

Stages == {"none", "installing", "uninstalling", "installed", "recovering", "resuming",
           "granting", "storing"}

Requests == [stage : Stages, inst : Installations \cup {SomeInstallation}, loaded : State]

\* A request holds a snapshot that may be stored again, and names an installation.
RequestOK(j, t, r) ==
    /\ r \in Requests
    /\ StateOK(j, t, r.loaded)
    /\ r.stage # "none" => r.inst \in Installations

ServiceInv ==
    /\ RunnerInv
    /\ request \in [Processes -> Requests]
    /\ \A p \in Processes : RequestOK(journal, target, request[p])

(***************************************************************************)
(* The rule of induction: a step of process p that is a step the runner    *)
(* may do, or leaves it alone, and that leaves p with a sound request.     *)
(***************************************************************************)
LEMMA ServiceStepKeepsInv ==
    ASSUME ServiceInv, NEW p \in Processes,
           StepOK(p) \/ UNCHANGED <<journal, target, snapshot, proc>>,
           NEW r, RequestOK(journal', target', r), request' = [request EXCEPT ![p] = r]
    PROVE  ServiceInv'
<1>1. RunnerInv /\ RunnerInv'
  BY StepKeepsInv, QuietKeepsInv DEF ServiceInv
<1>2. Moves(journal, target, journal', target') /\ JournalOK(journal, target)
  BY <1>1 DEF StepOK, Moves, RunnerInv
<1>3. r \in Requests /\ request' \in [Processes -> Requests]
  BY DEF ServiceInv, RequestOK
<1>4. ASSUME NEW q \in Processes
      PROVE  RequestOK(journal', target', request'[q])
  <2>1. CASE q = p
    BY <2>1 DEF ServiceInv
  <2>2. CASE q # p
    <3>1. request'[q] = request[q] /\ RequestOK(journal, target, request[q])
      BY <2>2 DEF ServiceInv
    <3>2. StateOK(journal', target', request[q].loaded)
      BY <1>2, <3>1, MovesKeepState DEF RequestOK
    <3> QED
      BY <3>1, <3>2 DEF RequestOK
  <2> QED
    BY <2>1, <2>2
<1> QED
  BY <1>1, <1>3, <1>4 DEF ServiceInv

\* Enter and EndRequest leave a sound request.
LEMMA EnteredIsOK ==
    ASSUME NEW j, NEW t, NEW stage \in Stages, NEW i \in Installations,
           NEW r, r = [NoRequest EXCEPT !.stage = stage, !.inst = i]
    PROVE  RequestOK(j, t, r)
<1>1. NoRequest \in Requests
  BY NoStateIsOK DEF NoRequest, Requests, Stages, SomeInstallation, StateOK
<1>2. NoRequest.loaded = NoState
  BY DEF NoRequest
<1> HIDE DEF NoRequest
<1>3. r \in Requests
  BY <1>1, Zenon DEF Requests
<1>4. r.stage = stage /\ r.inst = i
  BY <1>1 DEF Requests
<1>5. r.loaded = NoState
  BY <1>1, <1>2 DEF Requests
<1> QED
  BY <1>3, <1>4, <1>5, NoStateIsOK DEF RequestOK

\* A thread without a request holds nothing that could be wrong.
LEMMA NoRequestIsOK ==
    ASSUME NEW j, NEW t
    PROVE  RequestOK(j, t, NoRequest)
<1>1. NoRequest \in Requests /\ NoRequest.loaded = NoState /\ NoRequest.stage = "none"
  BY NoStateIsOK DEF NoRequest, Requests, Stages, SomeInstallation, StateOK
<1> QED
  BY <1>1, NoStateIsOK DEF RequestOK

\* Moving a request to its next stage, with or without a step of the runner.
LEMMA EnterKeepsInv ==
    ASSUME ServiceInv, NEW p \in Processes,
           StepOK(p) \/ UNCHANGED <<journal, target, snapshot, proc>>,
           NEW stage \in Stages, NEW i \in Installations, Enter(p, stage, i)
    PROVE  ServiceInv'
  BY EnteredIsOK, ServiceStepKeepsInv, Zenon DEF Enter

\* Ending a request, whose last act may store a fitting snapshot.
LEMMA EndRequestKeepsInv ==
    ASSUME ServiceInv, NEW p \in Processes, EndRequest(p),
           UNCHANGED <<journal, target>>, StateOK(journal, target, snapshot')
    PROVE  ServiceInv'
<1>1. Moves(journal, target, journal', target') /\ StateOK(journal', target', snapshot')
  BY DEF Moves
<1>2. proc' = [proc EXCEPT ![p] = Idle] /\ request' = [request EXCEPT ![p] = NoRequest]
  BY DEF EndRequest
<1>3. StepOK(p)
  BY <1>1, <1>2, IdleIsOK, Zenon DEF StepOK
<1> QED
  BY <1>2, <1>3, NoRequestIsOK, ServiceStepKeepsInv, Zenon

\* What the invariant says of the thread that takes the step.
LEMMA RunnerPartFacts ==
    ASSUME ServiceInv, NEW p \in Processes
    PROVE  /\ RunnerInv /\ JournalOK(journal, target) /\ StateOK(journal, target, snapshot)
           /\ StateOK(journal, target, proc[p].live)
           /\ RequestOK(journal, target, request[p])
           /\ request[p] \in Requests
           /\ request[p].stage # "none" => request[p].inst \in Installations
<1>1. ProcOK(journal, target, proc[p]) /\ RequestOK(journal, target, request[p]) /\ RunnerInv
  BY DEF ServiceInv, RunnerInv
<1> QED
  BY <1>1 DEF RunnerInv, ProcOK, RequestOK

\* The calls of the runner by a request.
LEMMA RunnerCallsKeepInv ==
    ASSUME ServiceInv, NEW p \in Processes,
           \/ \E i \in Installations : InstallPackage(p, i) \/ UninstallPackage(p, i)
           \/ RunnerWorks(p)
           \/ CrashService(p)
           \/ RecoverIncomplete(p)
    PROVE  ServiceInv'
<1>0. /\ RunnerInv /\ StateOK(journal, target, snapshot)
      /\ StateOK(journal, target, proc[p].live)
      /\ RequestOK(journal, target, request[p]) /\ request[p] \in Requests
  BY RunnerPartFacts
<1>1. ASSUME NEW i \in Installations, InstallPackage(p, i)
      PROVE  ServiceInv'
  <2>1. StepOK(p)
    BY <1>0, <1>1, InstallStep DEF InstallPackage
  <2> QED
    BY <1>1, <2>1, EnterKeepsInv DEF InstallPackage, Stages
<1>2. ASSUME NEW i \in Installations, UninstallPackage(p, i)
      PROVE  ServiceInv'
  <2>1. StepOK(p)
    BY <1>0, <1>2, UninstallStep DEF UninstallPackage
  <2> QED
    BY <1>2, <2>1, EnterKeepsInv DEF UninstallPackage, Stages
<1>3. CASE RunnerWorks(p)
  <2>1. StepOK(p) /\ UNCHANGED request
    BY <1>0, <1>3, RunnerStepOK DEF RunnerWorks
  <2>2. request' = [request EXCEPT ![p] = request[p]]
    BY <2>1 DEF ServiceInv
  <2>3. StateOK(journal', target', request[p].loaded)
    BY <1>0, <2>1, MovesKeepState DEF StepOK, RequestOK, RunnerInv
  <2>4. RequestOK(journal', target', request[p])
    BY <1>0, <2>3 DEF RequestOK
  <2> QED
    BY <2>1, <2>2, <2>4, ServiceStepKeepsInv, Zenon
<1>4. CASE CrashService(p)
  <2>1. StepOK(p)
    BY <1>0, <1>4, CrashStep DEF CrashService
  <2> QED
    BY <1>4, <2>1, NoRequestIsOK, ServiceStepKeepsInv, Zenon DEF CrashService
<1>5. CASE RecoverIncomplete(p)
  <2> DEFINE r == [request[p] EXCEPT !.stage = "resuming"]
  <2>1. ListIncomplete(p, proc[p].live) /\ request[p].stage = "recovering"
        /\ request' = [request EXCEPT ![p].stage = "resuming"]
    BY <1>5 DEF RecoverIncomplete, At
  <2>2. StepOK(p) /\ UNCHANGED <<journal, target>>
    BY <1>0, <2>1, ListIncompleteStep, Zenon DEF ListIncomplete, durable
  <2>3. r \in Requests
    BY <1>0 DEF Requests, Stages
  <2>4. r.stage = "resuming" /\ r.inst = request[p].inst /\ r.loaded = request[p].loaded
    BY <1>0 DEF Requests
  <2>5. RequestOK(journal', target', r)
    BY <1>0, <2>1, <2>2, <2>3, <2>4 DEF RequestOK
  <2>6. request' = [request EXCEPT ![p] = r]
    BY <2>1
  <2> QED
    BY <2>2, <2>5, <2>6, ServiceStepKeepsInv, Zenon
<1> QED
  BY <1>1, <1>2, <1>3, <1>4, <1>5

\* The work of a request outside the runner.
LEMMA OutsideWorkKeepsInv ==
    ASSUME ServiceInv, NEW p \in Processes,
           \/ PublishInstalled(p) \/ SelectIncompleteInstall(p) \/ Resumed(p)
           \/ FailRequest(p) \/ CreateDataDir(p) \/ CleanUp(p)
    PROVE  ServiceInv'
<1>0. /\ RunnerInv /\ StateOK(journal, target, snapshot) /\ JournalOK(journal, target)
      /\ request[p].stage # "none" => request[p].inst \in Installations
  BY RunnerPartFacts
<1>1. CASE PublishInstalled(p)
  BY <1>0, <1>1, EnterKeepsInv DEF PublishInstalled, At, Stages
<1>2. CASE SelectIncompleteInstall(p)
  <2> DEFINE candidates == IncompleteInstalls(AppOf[request[p].inst])
  <2>1. UNCHANGED <<journal, target, snapshot>>
    BY <1>2 DEF SelectIncompleteInstall
  <2>2. CASE candidates = {}
    BY <1>0, <1>2, <2>1, <2>2, EndRequestKeepsInv DEF SelectIncompleteInstall
  <2>3. CASE candidates # {}
    <3>1. PICK first \in candidates : Enter(p, "recovering", target[first]) /\ UNCHANGED proc
      BY <1>2, <2>3 DEF SelectIncompleteInstall
    <3>2. target[first] \in Installations
      BY <1>0 DEF JournalOK, In, IncompleteInstalls, Incomplete, Stored
    <3> QED
      BY <2>1, <3>1, <3>2, EnterKeepsInv DEF Stages
  <2> QED
    BY <2>2, <2>3
<1>3. CASE Resumed(p)
  BY <1>0, <1>3, EnterKeepsInv DEF Resumed, At, Stages, vars, durable
<1>4. CASE FailRequest(p)
  BY <1>0, <1>4, EndRequestKeepsInv DEF FailRequest, durable
<1>5. CASE CreateDataDir(p)
  <2>1. UNCHANGED <<journal, target, snapshot>> /\ request[p].stage = "installed"
    BY <1>5 DEF CreateDataDir, durable, At
  <2>2. CASE request[p].inst \in snapshot.apps
    BY <1>0, <1>5, <2>1, <2>2, EnterKeepsInv DEF CreateDataDir, Stages
  <2>3. CASE request[p].inst \notin snapshot.apps
    BY <1>0, <1>5, <2>1, <2>3, EndRequestKeepsInv DEF CreateDataDir
  <2> QED
    BY <2>2, <2>3
<1>6. CASE CleanUp(p)
  BY <1>0, <1>6, EndRequestKeepsInv DEF CleanUp, durable
<1> QED
  BY <1>1, <1>2, <1>3, <1>4, <1>5, <1>6

\* The grants: a snapshot is loaded, and stored again as a whole with one grant more.
LEMMA GrantsKeepInv ==
    ASSUME ServiceInv, NEW p \in Processes, LoadForGrants(p) \/ StoreGrants(p)
    PROVE  ServiceInv'
<1>0. /\ RunnerInv /\ StateOK(journal, target, snapshot)
      /\ RequestOK(journal, target, request[p]) /\ request[p] \in Requests
      /\ request[p].stage # "none" => request[p].inst \in Installations
  BY RunnerPartFacts
<1>1. CASE LoadForGrants(p)
  <2> DEFINE r == [request[p] EXCEPT !.stage = "storing", !.loaded = snapshot]
  <2>1. /\ request[p].stage = "granting" /\ UNCHANGED <<journal, target, snapshot, proc>>
        /\ request' = [request EXCEPT ![p] = r]
    BY <1>1, Zenon DEF LoadForGrants, At, vars, durable
  <2>2. r \in Requests
    BY <1>0, Zenon DEF Requests, Stages, StateOK
  <2>3. r.stage = "storing" /\ r.inst = request[p].inst /\ r.loaded = snapshot
    BY <1>0 DEF Requests
  <2>4. RequestOK(journal', target', r)
    BY <1>0, <2>1, <2>2, <2>3 DEF RequestOK
  <2> QED
    BY <2>1, <2>4, ServiceStepKeepsInv, Zenon
<1>2. CASE StoreGrants(p)
  <2> DEFINE loaded == request[p].loaded
             s == [loaded EXCEPT !.grants = @ \cup {request[p].inst}]
  <2>1. EndRequest(p) /\ UNCHANGED <<journal, target>> /\ snapshot' = s
        /\ request[p].inst \in Installations
    BY <1>0, <1>2 DEF StoreGrants, At
  <2>2. StateOK(journal, target, loaded)
    BY <1>0 DEF RequestOK
  <2> HIDE DEF loaded
  <2>3. s \in State /\ s.apps = loaded.apps
    BY <2>1, <2>2 DEF StateOK, State
  <2>4. StateOK(journal, target, s)
    BY <2>2, <2>3 DEF StateOK, OneEach
  <2> QED
    BY <2>1, <2>4, EndRequestKeepsInv
<1> QED
  BY <1>1, <1>2

\* Every step of the package service keeps the invariant.
LEMMA NextKeepsServiceInv ==
    ASSUME ServiceInv, [ServiceNext]_serviceVars
    PROVE  ServiceInv'
<1>1. CASE UNCHANGED serviceVars
  <2>1. UNCHANGED <<journal, target, snapshot, proc, request>>
    BY <1>1 DEF serviceVars, vars, durable
  <2> QED
    BY <2>1, QuietKeepsInv DEF ServiceInv
<1>2. CASE ServiceNext
  BY <1>2, RunnerCallsKeepInv, OutsideWorkKeepsInv, GrantsKeepInv DEF ServiceNext, ServiceStep
<1> QED
  BY <1>1, <1>2

(***************************************************************************)
(* Requests that store a snapshot they loaded earlier store one that names *)
(* applied installs only, one for each app, whatever happened since.       *)
(***************************************************************************)
THEOREM ServiceInvariant == ServiceSpec => []ServiceInv
<1>1. ServiceInit => ServiceInv
  <2> SUFFICES ASSUME ServiceInit PROVE ServiceInv
    OBVIOUS
  <2>1. RunnerInv
    BY InitRunnerInv DEF ServiceInit
  <2>2. RequestOK(journal, target, NoRequest) /\ NoRequest \in Requests
    BY NoRequestIsOK DEF RequestOK
  <2> QED
    BY <2>1, <2>2 DEF ServiceInit, ServiceInv
<1>2. ServiceInv /\ [ServiceNext]_serviceVars => ServiceInv'
  BY NextKeepsServiceInv
<1> QED
  BY <1>1, <1>2, PTL DEF ServiceSpec

(***************************************************************************)
(* install_with and uninstall_with, any number of them at once: no app is  *)
(* advertised before an install of it has its provider steps completed.    *)
(***************************************************************************)
THEOREM ServiceAdvertisesApplied == ServiceSpec => []AdvertisedWasApplied
<1>1. ServiceInv => AdvertisedWasApplied
  BY RunnerInvAdvertises DEF ServiceInv
<1> QED
  BY <1>1, ServiceInvariant, PTL

(***************************************************************************)
(* The same requests never leave two installations of one app in the       *)
(* stored snapshot.                                                        *)
(***************************************************************************)
THEOREM ServiceOneInstallation == ServiceSpec => []OneInstallationPerApp
<1>1. ServiceInv => OneInstallationPerApp
  BY DEF ServiceInv, RunnerInv, StateOK, OneEach, OneInstallationPerApp
<1> QED
  BY <1>1, ServiceInvariant, PTL
=============================================================================
