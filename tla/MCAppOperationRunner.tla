------------------------ MODULE MCAppOperationRunner ------------------------
(***************************************************************************)
(* Two apps that differ in every declaration, one installation of each.    *)
(***************************************************************************)
EXTENDS AppOperationRunner

CONSTANTS i1, i2

MCAppOf == [i \in Installations |-> IF i = i1 THEN "container" ELSE "web"]

MCEverything ==
    [container |-> [databases |-> TRUE, oidc |-> "confidential",
                    runtime |-> "Container", lifecycle |-> "AlwaysOn"],
     web |-> [databases |-> FALSE, oidc |-> "public",
              runtime |-> "Web", lifecycle |-> "OnDemand"]]
=============================================================================
