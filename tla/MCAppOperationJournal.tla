----------------------- MODULE MCAppOperationJournal -----------------------
(***************************************************************************)
(* Two processes on one operation with a plan of three resources, and a    *)
(* clock that may step back.                                               *)
(***************************************************************************)
EXTENDS AppOperationJournal

MCPlans == {<<"RuntimeInstance", "RuntimeActivation", "PlatformSnapshot">>}
=============================================================================
