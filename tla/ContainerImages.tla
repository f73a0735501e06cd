--------------------------- MODULE ContainerImages ---------------------------
(* From the archive of a package to the image its container runs.  The        *)
(* supervisor feeds the archive to `docker load`, reads off the output which   *)
(* image came out of it, keeps that image's digest in a file of the            *)
(* installation, and looks the digest up again when the container is created.  *)
(*                                                                             *)
(* The daemon outlives the commands sent to it: a load that was given up after *)
(* its timeout may still be carried out, later, and move a name to its own     *)
(* image.  Digests never move.                                                 *)
(*                                                                             *)
(* A text is a record of what the code asks of it: its length, whether its     *)
(* characters are admitted, and the parts it splits into.                      *)
EXTENDS Integers, Sequences, FiniteSets

CONSTANTS
    ImageInstalls,      \* installations that import an image
    ArchiveOf,          \* the archive of the package of each installation
    SpecsOf,            \* the runtime specifications each may be prepared with
    TargetOptions,      \* the command lines the supervisor may be started with
    FoundDirectories,   \* what the supervisor may find in place of a directory
    MaxImageLoads,      \* bound on the number of `docker load` commands
    NoImage             \* no file, no container, no name to inspect

ASSUME ImageBounds ==
    /\ MaxImageLoads \in Nat
    /\ \A i \in ImageInstalls : NoImage # ArchiveOf[i]

VARIABLES
    target,         \* the options of the running supervisor, or NoImage
    daemonTags,     \* the names Docker knows, each with the digest it stands for
    daemonImages,   \* the digests Docker holds
    lateLoads,      \* archives whose load was given up and may still be done
    importing,      \* the one image request being served
    stagedFile,     \* [installation -> lines of its metadata file, or NoImage]
    imageOf,        \* [installation -> digest its container was created from]
    imageLoads      \* number of `docker load` commands so far

imageVars == <<target, daemonTags, daemonImages, lateLoads, importing,
               stagedFile, imageOf, imageLoads>>

-----------------------------------------------------------------------------
(* What may be a reference, a name, a directory.                               *)

MaxReferenceLength == 512

IsDigest(d) ==
    d.length = 64 /\ d.hex

(* Only a reference by digest is admitted: `name@sha256:d` or `sha256:d`.      *)
ReferenceParses(r) ==
    /\ r.length \in 1 .. MaxReferenceLength
    /\ r.plain
    /\ r.pinned
    /\ IsDigest(r.digest)

ReferenceTo(digest) ==
    [length |-> 7 + digest.length, plain |-> TRUE, pinned |-> TRUE, digest |-> digest]

ValidName(name, maximum) ==
    name.length \in 1 .. maximum /\ name.plain

TargetConstructs(o) ==
    /\ o.executable = "absolute"
    /\ o.runtimeRoot = "absolute"
    /\ ValidName(o.network, 128)
    /\ ValidName(o.instance, 64)
    /\ o.commandTimeout > 0
    /\ o.stopTimeout \in 1 .. 60

ImporterConstructs(o) ==
    /\ o.executable = "absolute"
    /\ o.runtimeRoot \in {"absolute", "absolute with a comma"}
    /\ o.imageRoot = "absolute"
    /\ o.importTimeout > 0

SocketModeAllowed(mode) ==
    mode \in {"owner", "owner and group"}

(* A directory or file the supervisor trusts: no link, its own, and writable   *)
(* by nobody else.                                                             *)
OwnDirectory(d) ==
    d.kind = "directory" /\ d.owner = "self" /\ d.writable = "self"

OwnRuntimeRoot(d) ==
    OwnDirectory(d)

(* The daemon answers and the network exists.                                  *)
Probes(o) ==
    /\ OwnRuntimeRoot(o.runtimeDirectory)
    /\ o.daemonAnswers
    /\ o.networkExists

(* An address already in use is refused.  When the mode cannot be set, the     *)
(* socket is removed again.                                                    *)
ImageSocketBinds(o) ==
    ~o.socketInUse /\ SocketModeAllowed(o.socketMode)

-----------------------------------------------------------------------------
(* What `docker load` says.  It names the images that carry a name and gives   *)
(* the digests of those that do not (external).                                *)

LoadOutput(archive) ==
    [digests |-> archive.untagged, names |-> {t.name : t \in archive.tagged}]

DigestTokens(output) ==
    {d \in output.digests : IsDigest(d)}

(* Mutant: one of several digests is taken. *)
AnyToken(output) ==
    IF DigestTokens(output) # {} THEN {CHOOSE d \in DigestTokens(output) : TRUE} ELSE {}

(* The only digest in the text, if there is exactly one.                       *)
UniqueToken(output) ==
    IF Cardinality(DigestTokens(output)) = 1 THEN DigestTokens(output) ELSE {}

LoadedImageNames(output) ==
    {n \in output.names : n # ""}

DigestsIn(archive) ==
    archive.untagged \union {t.digest : t \in archive.tagged}

(* Loading an archive moves its names to its images (external).                *)
TagsAfter(archive) ==
    archive.tagged \union
    {t \in daemonTags : \A u \in archive.tagged : u.name # t.name}

-----------------------------------------------------------------------------
(* The file that hands the reference over.                                     *)

FormatVersion == "RDI1"

EncodedReference(artifact, reference) ==
    <<FormatVersion, artifact, reference, "">>

(* What the resolver makes of the file of an installation.                     *)
ResolvesTo(lines, artifact, root, directory) ==
    /\ OwnDirectory(root)
    /\ OwnDirectory(directory)
    /\ lines # NoImage
    /\ Len(lines) = 4
    /\ lines[1] = FormatVersion
    /\ lines[4] = ""
    /\ lines[2] = artifact
    /\ ReferenceParses(lines[3])

-----------------------------------------------------------------------------
(* What a runtime specification comes to: the artifact of its only container   *)
(* entrypoint, and a fingerprint of everything in it, each field with its      *)
(* length, so that no two specifications share one.                            *)

ContainerEntrypoints(spec) ==
    {n \in DOMAIN spec.entrypoints : spec.entrypoints[n].target = "container"}

SpecIsContainer(spec) ==
    /\ spec.kind = "container"
    /\ Cardinality(ContainerEntrypoints(spec)) = 1
    /\ \A n \in DOMAIN spec.entrypoints : spec.entrypoints[n].target # "web"

SpecArtifact(spec) ==
    spec.entrypoints[CHOOSE n \in ContainerEntrypoints(spec) : TRUE].value

HashField(field) == <<"field", field>>

SpecFingerprint(spec) ==
    <<HashField(spec.install), HashField(spec.version), HashField("container")>> \o
    [n \in DOMAIN spec.entrypoints |->
        <<HashField(spec.entrypoints[n].id), HashField(spec.entrypoints[n].target),
          HashField(spec.entrypoints[n].value)>>]

-----------------------------------------------------------------------------
(* Requests.                                                                   *)

NoImport == [stage |-> "idle", install |-> NoImage, name |-> NoImage,
             digest |-> NoImage, moved |-> FALSE]

ImagesInit ==
    /\ target = NoImage
    /\ daemonTags = {}
    /\ daemonImages = {}
    /\ lateLoads = {}
    /\ importing = NoImport
    /\ stagedFile = [i \in ImageInstalls |-> [lines |-> NoImage, moved |-> FALSE]]
    /\ imageOf = [i \in ImageInstalls |->
           [digest |-> NoImage, spec |-> NoImage, moved |-> FALSE]]
    /\ imageLoads = 0

StartTarget(o) ==
    /\ target = NoImage
    /\ TargetConstructs(o) /\ Probes(o)
    /\ ImporterConstructs(o) /\ ImageSocketBinds(o)
    /\ target' = o
    /\ UNCHANGED <<daemonTags, daemonImages, lateLoads, importing, stagedFile,
                   imageOf, imageLoads>>

(* The supervisor stops, whatever it was doing.                                *)
StopTarget ==
    /\ target # NoImage
    /\ target' = NoImage
    /\ importing' = NoImport
    /\ UNCHANGED <<daemonTags, daemonImages, lateLoads, stagedFile, imageOf, imageLoads>>

MaxArchiveLength == 2

(* import_archive, to the end of `docker load`: an archive of no bytes or of   *)
(* too many is refused before the command.  What the output says decides how   *)
(* it goes on.                                                                 *)
LoadArchive(i) ==
    LET archive == ArchiveOf[i]
        output == LoadOutput(archive)
        names == LoadedImageNames(output)
    IN  /\ target # NoImage
        /\ importing = NoImport
        /\ imageLoads < MaxImageLoads
        /\ archive.length \in 1 .. MaxArchiveLength
        /\ imageLoads' = imageLoads + 1
        /\ daemonTags' = TagsAfter(archive)
        /\ daemonImages' = daemonImages \union DigestsIn(archive)
        /\ importing' =
               IF UniqueToken(output) # {}
               THEN [NoImport EXCEPT !.stage = "write", !.install = i,
                                     !.digest = CHOOSE d \in UniqueToken(output) : TRUE]
               ELSE IF Cardinality(names) = 1
               THEN [NoImport EXCEPT !.stage = "inspect", !.install = i,
                                     !.name = CHOOSE n \in names : TRUE]
               ELSE NoImport
        /\ UNCHANGED <<target, lateLoads, stagedFile, imageOf>>

(* The command is killed at its timeout, fails, or writes too much: the        *)
(* request fails, and the daemon may still carry the load out.                 *)
LoadGivenUp(i) ==
    /\ target # NoImage
    /\ importing = NoImport
    /\ imageLoads < MaxImageLoads
    /\ ArchiveOf[i].length \in 1 .. MaxArchiveLength
    /\ imageLoads' = imageLoads + 1
    /\ lateLoads' = lateLoads \union {ArchiveOf[i]}
    /\ UNCHANGED <<target, daemonTags, daemonImages, importing, stagedFile, imageOf>>

LateLoad(archive) ==
    /\ archive \in lateLoads
    /\ lateLoads' = lateLoads \ {archive}
    /\ daemonTags' = TagsAfter(archive)
    /\ daemonImages' = daemonImages \union DigestsIn(archive)
    /\ importing' = [importing EXCEPT
           !.moved = @ \/ \E t \in archive.tagged : t.name = importing.name]
    /\ UNCHANGED <<target, stagedFile, imageOf, imageLoads>>

(* `docker image inspect` of the one name the load spoke of.                   *)
InspectImageId ==
    /\ importing.stage = "inspect"
    /\ \E t \in daemonTags :
           /\ t.name = importing.name
           /\ importing' = [importing EXCEPT !.stage = "write", !.digest = t.digest]
    /\ UNCHANGED <<target, daemonTags, daemonImages, lateLoads, stagedFile, imageOf,
                   imageLoads>>

(* The writer replaces the file in one rename.                                 *)
WriteReference ==
    /\ importing.stage = "write"
    /\ ReferenceParses(ReferenceTo(importing.digest))
    /\ stagedFile' = [stagedFile EXCEPT ![importing.install] =
           [lines |-> EncodedReference(ArchiveOf[importing.install].artifact,
                                       ReferenceTo(importing.digest)),
            moved |-> importing.moved]]
    /\ importing' = NoImport
    /\ UNCHANGED <<target, daemonTags, daemonImages, lateLoads, imageOf, imageLoads>>

(* The inspection fails or is given up.                                        *)
InspectGivenUp ==
    /\ importing.stage = "inspect"
    /\ importing' = NoImport
    /\ UNCHANGED <<target, daemonTags, daemonImages, lateLoads, stagedFile, imageOf,
                   imageLoads>>

(* prepare: the reference is resolved, the image it names is inspected, and    *)
(* the container is created from it.  A container that is there is left alone, *)
(* accepted under its own specification and refused under any other.           *)
CreateFromImage(i, spec, root, directory) ==
    LET lines == stagedFile[i].lines
    IN  /\ target # NoImage
        /\ SpecIsContainer(spec)
        /\ imageOf[i].digest = NoImage
        /\ ResolvesTo(lines, SpecArtifact(spec), root, directory)
        /\ lines[3].digest \in daemonImages
        /\ imageOf' = [imageOf EXCEPT ![i] =
               [digest |-> lines[3].digest, spec |-> SpecFingerprint(spec),
                moved |-> stagedFile[i].moved]]
        /\ UNCHANGED <<target, daemonTags, daemonImages, lateLoads, importing,
                       stagedFile, imageLoads>>

ImagesNext ==
    \/ \E o \in TargetOptions : StartTarget(o)
    \/ StopTarget
    \/ \E i \in ImageInstalls : LoadArchive(i)
    \/ \E i \in ImageInstalls : LoadGivenUp(i)
    \/ \E archive \in lateLoads : LateLoad(archive)
    \/ InspectImageId
    \/ WriteReference
    \/ InspectGivenUp
    \/ \E i \in ImageInstalls, root \in FoundDirectories, directory \in FoundDirectories :
           \E spec \in SpecsOf[i] : CreateFromImage(i, spec, root, directory)

ImagesSpec == ImagesInit /\ [][ImagesNext]_imageVars

-----------------------------------------------------------------------------

(* A container runs the one image of the archive of its own package: no step   *)
(* of another import, no retry and no restart in between puts another image    *)
(* under it, and an archive of several images of one kind is refused, not      *)
(* guessed at.  Left out are an archive that holds an image with a name beside *)
(* one without (the one without is taken), and a name that a load given up     *)
(* earlier moved between the load and the inspection of the name.              *)
ContainersRunTheirArchive ==
    \A i \in ImageInstalls :
        /\ imageOf[i].digest # NoImage
        /\ ~imageOf[i].moved
        /\ {} \in {ArchiveOf[i].tagged, ArchiveOf[i].untagged}
        => DigestsIn(ArchiveOf[i]) = {imageOf[i].digest}

=============================================================================
