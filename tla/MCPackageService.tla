-------------------------- MODULE MCPackageService --------------------------
(***************************************************************************)
(* i1 and i2 are installations of the first app, i3 is one of the second,  *)
(* i4 and i5 are installations of the third.  The first is a container     *)
(* with every resource, the second a web app with databases and OIDC, and  *)
(* the third a plain container; or all are plain web apps.                 *)
(*                                                                         *)
(* A behaviour keeps one pace: requests run alone, one after the other and *)
(* uninterrupted, on the apps with resources; or together, on the plain    *)
(* container; or any way.                                                  *)
(***************************************************************************)
EXTENDS PackageService

CONSTANTS i1, i2, i3, i4, i5, p1,
          Paces,       \* the paces a run looks at
          MaxTogether  \* operations begun by requests that run together

VARIABLE pace

paceVars == <<pace, serviceVars>>

MCAppOf ==
    [i \in Installations |->
        IF i \in {i1, i2} THEN "first" ELSE IF i = i3 THEN "second" ELSE "third"]

MCMixed ==
    [first  |-> [databases |-> TRUE, oidc |-> "confidential",
                 runtime |-> "Container", lifecycle |-> "AlwaysOn"],
     second |-> [databases |-> TRUE, oidc |-> "public",
                 runtime |-> "Web", lifecycle |-> "OnDemand"],
     third  |-> [databases |-> FALSE, oidc |-> "none",
                 runtime |-> "Container", lifecycle |-> "AlwaysOn"]]

MCPlainWeb ==
    [app \in {"first", "second", "third"} |->
        [databases |-> FALSE, oidc |-> "none", runtime |-> "Web", lifecycle |-> "OnDemand"]]

\* The states of a pace.
Alone ==
    /\ faults = 0
    /\ \A p \in Processes \ {p1} : request[p].stage = "none"
    /\ \A id \in Stored : AppOf[target[id]] # "third"

Together ==
    /\ Stored \subseteq 1 .. MaxTogether
    /\ \A id \in Stored : AppOf[target[id]] = "third"

PacedInit == pace \in Paces /\ ServiceInit

PacedNext ==
    /\ UNCHANGED pace
    /\ ServiceNext
    /\ pace = "alone" => Alone'
    /\ pace = "together" => Together'

PacedSpec == PacedInit /\ [][PacedNext]_paceVars

FairPacedSpec ==
    /\ PacedSpec
    /\ \A p \in Processes : WF_serviceVars(RunnerWorks(p) \/ ServiceStep(p))

\* The work outside the journal agrees with the snapshot after requests that ran alone:
\* grants, payload and data directory are there, whatever was installed or removed before
\* (install_with, uninstall_with).
InstalledAloneIsComplete == pace = "alone" => InstalledIsComplete
=============================================================================
