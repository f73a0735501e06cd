---------------------------- MODULE AppDatabases -----------------------------
(***************************************************************************)
(* The databases of an installation as directories (persistence-sqlite/    *)
(* src/app_database_provider.rs): `.staging` while they are made, `active` *)
(* while the app may open them, `retained` after an uninstallation that    *)
(* keeps the data.  Every step of a call is a call to the file system, and *)
(* two calls for one installation may run at a time, or be cut off by a    *)
(* crash.                                                                  *)
(*                                                                         *)
(* A directory is the set of the files in it; a file is its database and   *)
(* whether the app has written to it.                                      *)
(***************************************************************************)
EXTENDS Integers, FiniteSets, Sequences

CONSTANTS DatabaseCalls,      \* threads that may be in a call
          BindingLists,       \* the lists of databases a call may name
          MaxDatabaseCalls,   \* bound on the calls
          NoDirectory

ASSUME DatabaseBounds ==
    MaxDatabaseCalls \in Nat /\ NoDirectory # {}

DatabaseAreas == {"active", "retained", "staging"}

VARIABLES directories,        \* [area -> the files in the installation's directory]
          databaseCall,       \* [thread -> the call it is in, and how far]
          databaseCalls,      \* calls so far
          appWrote            \* the databases the app has written to

databaseVars == <<directories, databaseCall, databaseCalls, appWrote>>

NoDatabaseCall == [op |-> "none", at |-> "idle", bindings |-> <<>>, made |-> 0,
                   answer |-> "none"]

DatabasesInit ==
    /\ directories = [area \in DatabaseAreas |-> NoDirectory]
    /\ databaseCall = [c \in DatabaseCalls |-> NoDatabaseCall]
    /\ databaseCalls = 0
    /\ appWrote = {}

------------------------------------------------------------------------------
(* What the calls ask of the directories and of their bindings. *)

ExistingAreas == {area \in DatabaseAreas : directories[area] # NoDirectory}

\* installation_state_internal: one of the three, none, or a conflict.
InstallationState ==
    IF Cardinality(ExistingAreas) > 1 THEN "conflict"
    ELSE IF ExistingAreas = {} THEN "absent"
    ELSE CHOOSE area \in ExistingAreas : TRUE

\* validate_bindings: one owner, no database twice.
BindingsAreValid(bindings) ==
    /\ \A m, n \in DOMAIN bindings : bindings[m].owner = bindings[n].owner
    /\ \A m, n \in DOMAIN bindings : m # n => bindings[m].id # bindings[n].id

Sidecars == {"-wal", "-shm", "-journal"}

\* verify_active_bindings: every database is there, and nothing else but the files
\* SQLite keeps beside them.
ActiveMatches(bindings) ==
    LET expected == {bindings[n].id : n \in DOMAIN bindings}
        found == directories["active"]
    IN  /\ {f.id : f \in {f \in found : f.suffix = ""}} = expected
        /\ \A f \in found : f.suffix # "" => f.suffix \in Sidecars /\ f.id \in expected

------------------------------------------------------------------------------
(* The calls. *)

CallAt(c, at) == databaseCall[c].at = at
CallTo(c, at) == databaseCall' = [databaseCall EXCEPT ![c].at = at]
EndCall(c, answer) ==
    databaseCall' = [databaseCall EXCEPT ![c] = [NoDatabaseCall EXCEPT !.answer = answer]]

BeginDatabaseCall(c, op, bindings) ==
    /\ CallAt(c, "idle") /\ databaseCalls < MaxDatabaseCalls
    /\ op = "provision" => BindingsAreValid(bindings) /\ bindings # <<>>
    /\ databaseCalls' = databaseCalls + 1
    /\ databaseCall' = [databaseCall EXCEPT ![c] =
           [op |-> op, at |-> "look", bindings |-> bindings, made |-> 0, answer |-> "none"]]
    /\ UNCHANGED <<directories, appWrote>>

\* provision_installation, to the match: databases that are active are only compared,
\* retained ones are refused, staged ones are leftovers.
LookForProvision(c) ==
    /\ CallAt(c, "look") /\ databaseCall[c].op = "provision"
    /\ CASE InstallationState = "staging" -> CallTo(c, "clear")
         [] InstallationState = "absent" -> CallTo(c, "stage")
         [] InstallationState = "active" ->
                EndCall(c, IF ActiveMatches(databaseCall[c].bindings) THEN "done" ELSE "refused")
         [] OTHER -> EndCall(c, "refused")
    /\ UNCHANGED <<directories, databaseCalls, appWrote>>

\* remove_dir_all fails when the directory has gone.
ClearStaging(c) ==
    /\ CallAt(c, "clear")
    /\ IF directories["staging"] = NoDirectory THEN EndCall(c, "failed") ELSE CallTo(c, "stage")
    /\ directories' = [directories EXCEPT !["staging"] = NoDirectory]
    /\ UNCHANGED <<databaseCalls, appWrote>>

\* create_dir fails when the directory is there.
MakeStaging(c) ==
    /\ CallAt(c, "stage")
    /\ IF directories["staging"] # NoDirectory
       THEN EndCall(c, "failed") /\ UNCHANGED directories
       ELSE CallTo(c, "fill") /\ directories' = [directories EXCEPT !["staging"] = {}]
    /\ UNCHANGED <<databaseCalls, appWrote>>

\* One database after the other, and then the rename.  A database cannot be made in a
\* directory that has gone.
MakeDatabase(c) ==
    LET call == databaseCall[c]
        id == call.bindings[call.made + 1].id
    IN  /\ CallAt(c, "fill") /\ call.made < Len(call.bindings)
        /\ IF directories["staging"] = NoDirectory
           THEN CallTo(c, "undo") /\ UNCHANGED directories
           ELSE /\ directories' = [directories EXCEPT !["staging"] =
                                       @ \union {[id |-> id, suffix |-> ""]}]
                /\ databaseCall' = [databaseCall EXCEPT ![c].made = @ + 1]
        /\ UNCHANGED <<databaseCalls, appWrote>>

\* A directory can only be renamed onto nothing or onto an empty directory (external).
MayRename(from, to) ==
    directories[from] # NoDirectory /\ directories[to] \in {NoDirectory, {}}

RenamedDirectories(from, to) ==
    [directories EXCEPT ![to] = directories[from], ![from] = NoDirectory]

CommitStaging(c) ==
    /\ CallAt(c, "fill") /\ databaseCall[c].made = Len(databaseCall[c].bindings)
    /\ IF MayRename("staging", "active")
       THEN EndCall(c, "done") /\ directories' = RenamedDirectories("staging", "active")
       ELSE CallTo(c, "undo") /\ UNCHANGED directories
    /\ UNCHANGED <<databaseCalls, appWrote>>


\* remove_staging, whoever's it is by now.
UndoStaging(c) ==
    /\ CallAt(c, "undo")
    /\ directories' = [directories EXCEPT !["staging"] = NoDirectory]
    /\ EndCall(c, "failed")
    /\ UNCHANGED <<databaseCalls, appWrote>>

\* retain_installation and restore_installation: a look, and one rename.
MoveFrom(op) == IF op = "retain" THEN "active" ELSE "retained"
MoveTo(op) == IF op = "retain" THEN "retained" ELSE "active"

LookForMove(c) ==
    /\ CallAt(c, "look") /\ databaseCall[c].op \in {"retain", "restore"}
    /\ CASE InstallationState = MoveFrom(databaseCall[c].op) -> CallTo(c, "move")
         [] InstallationState = MoveTo(databaseCall[c].op) -> EndCall(c, "done")
         [] InstallationState = "absent" -> EndCall(c, "nothing")
         [] OTHER -> EndCall(c, "refused")
    /\ UNCHANGED <<directories, databaseCalls, appWrote>>

MoveDirectory(c) ==
    LET from == MoveFrom(databaseCall[c].op)
        to == MoveTo(databaseCall[c].op)
    IN  /\ CallAt(c, "move")
        /\ directories' = IF MayRename(from, to) THEN RenamedDirectories(from, to) ELSE directories
        /\ EndCall(c, IF MayRename(from, to) THEN "done" ELSE "failed")
        /\ UNCHANGED <<databaseCalls, appWrote>>

\* access: the app opens one of its active databases and writes to it; SQLite keeps
\* its log in a file beside it.
AppWrites(id) ==
    /\ directories["active"] # NoDirectory
    /\ [id |-> id, suffix |-> ""] \in directories["active"]
    /\ directories' = [directories EXCEPT !["active"] = @ \union {[id |-> id, suffix |-> "-wal"]}]
    /\ appWrote' = appWrote \union {id}
    /\ UNCHANGED <<databaseCall, databaseCalls>>

\* The service stops; open() makes the three parent directories again and touches
\* nothing in them.
StopDatabases ==
    /\ \E c \in DatabaseCalls : ~CallAt(c, "idle")
    /\ databaseCall' = [c \in DatabaseCalls |-> NoDatabaseCall]
    /\ UNCHANGED <<directories, databaseCalls, appWrote>>

BoundIds == {bindings[1].id : bindings \in BindingLists \ {<<>>}}

DatabasesNext ==
    \/ \E c \in DatabaseCalls :
           \/ \E bindings \in BindingLists : BeginDatabaseCall(c, "provision", bindings)
           \/ \E op \in {"retain", "restore"} : BeginDatabaseCall(c, op, <<>>)
           \/ LookForProvision(c) \/ ClearStaging(c) \/ MakeStaging(c) \/ MakeDatabase(c)
           \/ CommitStaging(c) \/ UndoStaging(c) \/ LookForMove(c) \/ MoveDirectory(c)
    \/ \E id \in BoundIds : AppWrites(id)
    \/ StopDatabases

DatabasesSpec == DatabasesInit /\ [][DatabasesNext]_databaseVars

------------------------------------------------------------------------------

==============================================================================
