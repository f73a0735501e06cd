---------------------------- MODULE PersonalFiles ----------------------------
(***************************************************************************)
(* The files one user keeps on the system: the table personal_files behind *)
(* /api/v1/files (persistence-sqlite/src/personal_files.rs and             *)
(* platform-web/src/files.rs).  Every row names its parent by identifier,  *)
(* so the tree is a property of the rows and is kept by the checks each    *)
(* operation makes in its immediate transaction.  Contents are sealed with *)
(* the platform's key when one is available at start.                      *)
(***************************************************************************)
EXTENDS Integers, FiniteSets, FiniteSetsExt

CONSTANTS MaxFileIds,     \* how many random identifiers are drawn
          FileNames,      \* the names that pass name_valid
          FileSizes,      \* the sizes of what is uploaded
          MaxFileSize,    \* 16 MiB in the code
          MaxFiles,       \* 1000 in the code
          MaxTotalSize,   \* 128 MiB in the code
          NotSealed       \* encrypted = 0

ASSUME FileBounds == /\ MaxFileIds \in Nat /\ FileSizes \subseteq Nat
                     /\ {MaxFileSize, MaxFiles, MaxTotalSize} \subseteq Nat

VARIABLES entries,        \* the rows, as records with their identifiers
          drawn,          \* identifiers drawn so far, numbered in that order
          keyed           \* this start of the service opened the store with a key

fileVars == <<entries, drawn, keyed>>

Root == 0          \* "root", which is no row
Ids == {e.id : e \in entries}
Entry(id) == CHOOSE e \in entries : e.id = id
TotalSize == MapThenSumSet(LAMBDA e : e.size, entries)

------------------------------------------------------------------------------
(* The checks. *)

\* parent: the root, or a row that is a directory.
IsDirectory(p) == p = Root \/ \E e \in entries : e.id = p /\ e.directory

\* duplicate: another row of that name beside it.
NameIsFree(p, name, id) ==
    ~ \E e \in entries : e.parent = p /\ e.name = name /\ e.id # id

(* Mutant: the walk looks at the new parent alone. *)
MeetsOnlyAtTheParent(id, p) == p = id

\* The walk of relocate from the new parent up to the root; it fails when it meets
\* the entry that is being moved.
MeetsOnTheWay(id, p) ==
    LET up[n \in 0 .. MaxFiles] ==
          IF n = 0 THEN {p}
          ELSE up[n - 1] \union {Entry(x).parent : x \in up[n - 1] \ {Root}}
    IN id \in up[MaxFiles]

\* The context a content is sealed under: owner and identifier.
ContentContext(id, p) == <<id>>

Encrypted(id, p) == IF keyed THEN ContentContext(id, p) ELSE NotSealed

------------------------------------------------------------------------------
(* The operations. *)

FilesInit == entries = {} /\ drawn = 0 /\ keyed = TRUE

CreateEntry(id, p, name, directory, size) ==
    /\ id = drawn + 1 /\ id <= MaxFileIds
    /\ size <= MaxFileSize /\ (directory => size = 0)
    /\ IsDirectory(p)
    /\ NameIsFree(p, name, Root)
    /\ Cardinality(entries) < MaxFiles
    /\ TotalSize + size <= MaxTotalSize
    /\ entries' = entries \union
         {[id |-> id, parent |-> p, name |-> name, directory |-> directory,
           size |-> size,
           sealed |-> IF directory THEN NotSealed ELSE Encrypted(id, p)]}
    /\ drawn' = id
    /\ UNCHANGED keyed

Relocate(id, p, name) ==
    /\ IsDirectory(p)
    /\ NameIsFree(p, name, id)
    /\ ~ MeetsOnTheWay(id, p)
    /\ id \in Ids
    /\ entries' = (entries \ {Entry(id)})
                    \union {[Entry(id) EXCEPT !.parent = p, !.name = name]}
    /\ UNCHANGED <<drawn, keyed>>

DeleteEntry(id) ==
    /\ ~ \E e \in entries : e.parent = id
    /\ id \in Ids
    /\ entries' = entries \ {Entry(id)}
    /\ UNCHANGED <<drawn, keyed>>

\* The service starts again; the key may be missing this time, or back.
ReopenFiles(key) ==
    /\ keyed' = key
    /\ UNCHANGED <<entries, drawn>>

\* read: a sealed content opens with the key and the context of the row as it is now.
Readable(e) ==
    \/ e.sealed = NotSealed
    \/ keyed /\ e.sealed = ContentContext(e.id, e.parent)

FilesNext ==
    \/ \E id \in 1 .. MaxFileIds, name \in FileNames :
         \/ \E p \in 0 .. drawn :
               \/ \E directory \in BOOLEAN, size \in FileSizes :
                     CreateEntry(id, p, name, directory, size)
               \/ Relocate(id, p, name)
         \/ DeleteEntry(id)
    \/ \E key \in BOOLEAN : ReopenFiles(key)

FilesSpec == FilesInit /\ [][FilesNext]_fileVars

------------------------------------------------------------------------------
(* Properties *)

\* The rows form a tree under the root: every entry's parent is the root or a stored
\* directory, following parents from any entry ends at the root, and no two entries
\* of a directory share a name, whatever was created, moved, renamed and deleted.
FilesStayATree ==
    LET reach[n \in 0 .. Cardinality(entries)] ==
          IF n = 0 THEN {Root}
          ELSE reach[n - 1] \union {e.id : e \in {x \in entries : x.parent \in reach[n - 1]}}
    IN /\ Ids \subseteq reach[Cardinality(entries)]
       /\ \A e \in entries : IsDirectory(e.parent)
                               /\ NameIsFree(e.parent, e.name, e.id)

\* Moving or renaming a file never costs its content: whenever the service has its
\* key, every stored file can be read, and the limits of the user hold.
StoredFilesCanBeRead ==
    /\ keyed => \A e \in entries : Readable(e)
    /\ Cardinality(entries) <= MaxFiles /\ TotalSize <= MaxTotalSize
==============================================================================
