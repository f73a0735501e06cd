---------------------------- MODULE PackageTrust -----------------------------
(***************************************************************************)
(* App packages (app-packages/src): the package.json that PackageManifest  *)
(* reads and the signer writes back, and the way from the signing of a     *)
(* package directory to its publication: PackageSigner::sign and the       *)
(* rumahl-package tool, PackageVerifier::verify, and                       *)
(* WebAssetPublisher::publish.                                             *)
(*                                                                         *)
(* Each of them goes through the directory file by file, and the files may *)
(* change in the meantime.  The content of a file is a name that stands    *)
(* for its digest as well; a key pair is a number, and a signature is the  *)
(* pair, the key id it is filed under and the document it was made over.   *)
(*                                                                         *)
(* A document is a record of                                               *)
(*   version, publisher, app, kind                                         *)
(*   lifecycle     <<>> or <<text>>                                        *)
(*   entrypoints   sequence of [id, kind, path, endpoint], path and        *)
(*                 endpoint <<>> or <<text>>                               *)
(*   permissions   sequence of [id, scope, required, reason], scope and    *)
(*                 reason <<>> or <<text>>                                 *)
(*   capabilities  sequence of names                                       *)
(*   connectors    sequence of [target, entrypoint]                        *)
(*   settings      sequence of [key, kind, options, required]              *)
(*   files         sequence of [path, size, sha256]                        *)
(* and what is read from it has the same fields, defaults filled in.  Text *)
(* is abstract: a blank reason is "" and an unreadable name is "?".        *)
(***************************************************************************)
EXTENDS PlatformState, FiniteSets

MaxPackageFiles == 2048
MaxFileBytes == 64
MaxPackageBytes == 256

ReadsAsName(text) == text # "?"

\* Names in a list are read one by one and must differ.
NamesDiffer(s, key) == DistinctBy(s, key) /\ \A n \in DOMAIN s : ReadsAsName(s[n][key])

------------------------------------------------------------------------------
(* Reading *)

RuntimeKinds == {"web", "container", "native"}

\* parse_entrypoint
EntrypointReads(e) ==
    /\ ReadsAsName(e.id)
    /\ \/ /\ e.kind \in {"web-asset", "container-artifact"}
          /\ e.endpoint = <<>> /\ e.path # <<>> /\ ReadsAsName(e.path[1])
       \/ /\ e.kind = "endpoint"
          /\ e.path = <<>> /\ e.endpoint # <<>> /\ ReadsAsName(e.endpoint[1])

EntrypointKind ==
    [k \in {"web-asset", "container-artifact", "endpoint"} |->
        CASE k = "web-asset" -> "WebAsset"
          [] k = "container-artifact" -> "ContainerArtifact"
          [] k = "endpoint" -> "Endpoint"]

\* parse_runtime: every entrypoint reads, fits the runtime and has an id of its own.
RuntimeReads(d) ==
    /\ d.kind \in RuntimeKinds
    /\ \A e \in Elements(d.entrypoints) : EntrypointReads(e)
    /\ EntrypointsFitRuntime([kind |-> d.kind,
          entrypoints |-> [n \in DOMAIN d.entrypoints |->
              [id |-> d.entrypoints[n].id, kind |-> EntrypointKind[d.entrypoints[n].kind]]]])

PackageScopes == {"user-own", "app-private", "user-selected", "explicit", "family-shared",
                  "system"}

\* parse_permission
PermissionReads(p) ==
    ReadsAsName(p.id) /\ p.scope \in {<<>>} \union {<<s>> : s \in PackageScopes}

ReadPermission(p) ==
    [p EXCEPT !.scope = IF @ = <<>> THEN "user-own" ELSE @[1],
              !.reason = IF @ = <<"">> THEN <<>> ELSE @]

\* parse_setting
SettingReads(s) ==
    /\ ReadsAsName(s.key)
    /\ \/ s.kind \in {"text", "number", "boolean"} /\ s.options = <<>>
       \/ s.kind = "select" /\ s.options # <<>>

Lifecycles == {"always-on", "on-demand"}

LifecycleReads(d) == d.lifecycle \in {<<>>} \union {<<l>> : l \in Lifecycles}

ReadLifecycle(d) == IF d.lifecycle = <<>> THEN "on-demand" ELSE d.lifecycle[1]

\* to_app_manifest, which from_raw calls in the end: the lists are added one by one.
FitsAppManifest(d) ==
    /\ NamesDiffer(d.connectors, "target")
    /\ SettingsFit([settings |-> [n \in DOMAIN d.settings |-> d.settings[n].key]])

\* PackageAppManifest::from_raw
AppReads(d) ==
    /\ ReadsAsName(d.app)
    /\ RuntimeReads(d)
    /\ LifecycleReads(d)
    /\ \A p \in Elements(d.permissions) : PermissionReads(p)
    /\ DistinctBy(d.permissions, "id")
    /\ Distinct(d.capabilities) /\ \A c \in Elements(d.capabilities) : ReadsAsName(c)
    /\ \A c \in Elements(d.connectors) : ReadsAsName(c.entrypoint)
    /\ \A s \in Elements(d.settings) : SettingReads(s)
    /\ DistinctBy(d.settings, "key")

\* The running total of the sizes, checked after each file.
TotalBytes(files) ==
    LET sum[n \in 0 .. Len(files)] == IF n = 0 THEN 0 ELSE sum[n - 1] + files[n].size
    IN sum[Len(files)]

FilesRead(d) ==
    /\ Len(d.files) <= MaxPackageFiles
    /\ NamesDiffer(d.files, "path")
    /\ \A f \in Elements(d.files) : f.size <= MaxFileBytes /\ ReadsAsName(f.sha256)
    /\ TotalBytes(d.files) <= MaxPackageBytes

\* PackageManifest::from_raw
DocumentReads(d) ==
    /\ d.version = 1 /\ ReadsAsName(d.publisher) /\ AppReads(d) /\ FilesRead(d)
    /\ FitsAppManifest(d)

ReadDocument(d) ==
    [d EXCEPT !.lifecycle = ReadLifecycle(d),
              !.permissions = [n \in DOMAIN @ |-> ReadPermission(@[n])]]

------------------------------------------------------------------------------
(* Writing *)

\* manifest_value writes the fields of what was read, with the files found.
WrittenPermission(p) == [p EXCEPT !.scope = <<@>>]

ManifestValue(m, files) ==
    [m EXCEPT !.lifecycle = <<@>>, !.files = files,
              !.permissions = [n \in DOMAIN @ |-> WrittenPermission(@[n])]]

------------------------------------------------------------------------------
CONSTANTS PackagePaths,     \* paths a payload may have
          PackageContents,  \* contents of a file, all of one size
          Templates,        \* the documents offered for signing
          KeyIds,
          Installations,    \* installations published to
          MaxKeyPairs, MaxEdits, MaxSignings, MaxPublishings,
          Absent

ASSUME PackageBounds == {MaxKeyPairs, MaxEdits, MaxSignings, MaxPublishings} \subseteq Nat

VARIABLES payload,       \* the payload files of the package directory
          packageDoc,    \* package.json
          packageSig,    \* package.sig.json
          keyPairs,      \* the key id of each pair generated
          trusted,       \* the entries of the trust store
          signing,       \* a run of sign
          publishing,    \* a verification and the publication after it
          publishedAs,   \* what each installation serves
          images,        \* the archives handed to Docker for each installation
          signedDocs,    \* history: the pairs and documents signed
          edits, signings, publishings

packageDir == <<payload, packageDoc, packageSig>>
keyVars == <<keyPairs, trusted>>
published == <<publishedAs, images>>
packageCounts == <<edits, signings, publishings>>
packageVars == <<packageDir, keyVars, signing, publishing, published, signedDocs,
                 packageCounts>>

NotSigning == [step |-> "idle", pair |-> 0, template |-> Absent, left |-> {}, list |-> <<>>,
               doc |-> Absent]

NotPublishing == [step |-> "idle", inst |-> Absent, doc |-> Absent, left |-> {},
                  copied |-> {}]

PackageInit ==
    /\ payload = [p \in PackagePaths |-> Absent]
    /\ packageDoc = Absent /\ packageSig = Absent
    /\ keyPairs = <<>> /\ trusted = {}
    /\ signing = NotSigning /\ publishing = NotPublishing
    /\ publishedAs = [i \in Installations |-> Absent] /\ images = {}
    /\ signedDocs = {}
    /\ edits = 0 /\ signings = 0 /\ publishings = 0

\* The author, or whatever else has the directory, changes a payload file.
EditPayload(p, content) ==
    /\ edits < MaxEdits /\ edits' = edits + 1
    /\ payload' = [payload EXCEPT ![p] = content]
    /\ UNCHANGED <<packageDoc, packageSig, keyVars, signing, publishing, published,
                   signedDocs, signings, publishings>>

FoundPaths == {p \in PackagePaths : payload[p] # Absent}

------------------------------------------------------------------------------
(* Keys *)

\* keygen writes the key store and then adds the public key to the trust store; a key
\* id that is there already is refused after the key store was written.
GenerateKey(id, publisher) ==
    /\ Len(keyPairs) < MaxKeyPairs
    /\ keyPairs' = Append(keyPairs, id)
    /\ trusted' = IF \E e \in trusted : e.id = id THEN trusted
                  ELSE trusted \union {[id |-> id, publisher |-> publisher,
                                        pair |-> Len(keyPairs) + 1]}
    /\ UNCHANGED <<packageDir, signing, publishing, published, signedDocs, packageCounts>>

\* TrustStore::verifying_key; a store without keys is refused by from_bytes.
VerifyingKey(publisher, id) ==
    {e.pair : e \in {e \in trusted : e.id = id /\ e.publisher = publisher}}

------------------------------------------------------------------------------
(* sign *)

BeginSign(pair, template) ==
    /\ signing.step = "idle" /\ signings < MaxSignings
    /\ pair \in DOMAIN keyPairs /\ DocumentReads(template)
    /\ signings' = signings + 1
    /\ signing' = [NotSigning EXCEPT !.step = "digest", !.pair = pair, !.template = template,
                                     !.left = FoundPaths]
    /\ UNCHANGED <<packageDir, keyVars, publishing, published, signedDocs, edits,
                   publishings>>

\* The files are taken by path; any order gives the same document.  A file that has gone
\* since the directory was listed fails the whole signing.
DigestFile(p) ==
    /\ signing.step = "digest" /\ p \in signing.left
    /\ signing' = IF payload[p] = Absent THEN NotSigning
                  ELSE [signing EXCEPT !.left = @ \ {p},
                          !.list = Append(@, [path |-> p, size |-> 1, sha256 |-> payload[p]])]
    /\ UNCHANGED <<packageDir, keyVars, publishing, published, signedDocs, packageCounts>>

\* The document is read back before it replaces package.json.
WriteManifest ==
    LET doc == ManifestValue(ReadDocument(signing.template), signing.list) IN
    /\ signing.step = "digest" /\ signing.left = {}
    /\ IF DocumentReads(doc)
       THEN /\ packageDoc' = doc
            /\ signing' = [signing EXCEPT !.step = "sign", !.doc = doc]
       ELSE signing' = NotSigning /\ UNCHANGED packageDoc
    /\ UNCHANGED <<payload, packageSig, keyVars, publishing, published, signedDocs,
                   packageCounts>>

WriteSignature ==
    /\ signing.step = "sign"
    /\ packageSig' = [id |-> keyPairs[signing.pair], pair |-> signing.pair, doc |-> signing.doc]
    /\ signedDocs' = signedDocs \union {[pair |-> signing.pair, doc |-> signing.doc,
                                         template |-> signing.template]}
    /\ signing' = NotSigning
    /\ UNCHANGED <<payload, packageDoc, keyVars, publishing, published, packageCounts>>

\* The tool is interrupted: package.json may be new and the signature old.
SigningStops ==
    /\ signing.step # "idle"
    /\ signing' = NotSigning
    /\ UNCHANGED <<packageDir, keyVars, publishing, published, signedDocs, packageCounts>>

------------------------------------------------------------------------------
(* verify, and publish *)

BeginVerify(i) ==
    /\ publishing.step = "idle" /\ publishings < MaxPublishings
    /\ packageDoc # Absent /\ DocumentReads(packageDoc)
    /\ publishings' = publishings + 1
    /\ publishing' = [NotPublishing EXCEPT !.step = "signature", !.inst = i,
                                           !.doc = packageDoc]
    /\ UNCHANGED <<packageDir, keyVars, signing, published, signedDocs, edits, signings>>

\* The signature must be over the bytes of package.json that were read before, by a
\* key the trust store has for this publisher.
SignatureHolds(doc, sig) ==
    /\ sig # Absent
    /\ sig.doc = doc
    /\ sig.pair \in VerifyingKey(doc.publisher, sig.id)

CheckSignature ==
    /\ publishing.step = "signature"
    /\ publishing' = IF SignatureHolds(publishing.doc, packageSig)
                     THEN [publishing EXCEPT !.step = "walk"] ELSE NotPublishing
    /\ UNCHANGED <<packageDir, keyVars, signing, published, signedDocs, packageCounts>>

Listed(doc) == {f.path : f \in Elements(doc.files)}

ListedContent(doc, p) == (CHOOSE f \in Elements(doc.files) : f.path = p).sha256

\* verify_payload: the paths found are the paths listed.
WalkPayload ==
    /\ publishing.step = "walk"
    /\ publishing' = IF FoundPaths = Listed(publishing.doc)
                     THEN [publishing EXCEPT !.step = "verify", !.left = FoundPaths]
                     ELSE NotPublishing
    /\ UNCHANGED <<packageDir, keyVars, signing, published, signedDocs, packageCounts>>

VerifyFile(p) ==
    /\ publishing.step = "verify" /\ p \in publishing.left
    /\ publishing' = IF payload[p] = ListedContent(publishing.doc, p)
                     THEN [publishing EXCEPT !.left = @ \ {p}] ELSE NotPublishing
    /\ UNCHANGED <<packageDir, keyVars, signing, published, signedDocs, packageCounts>>

\* The paths that entrypoints name: require_web_entrypoints, container_artifacts
EntrypointPaths(doc) ==
    {e.path[1] : e \in {e \in Elements(doc.entrypoints) : e.path # <<>>}}

\* PackageImporter::publish: a web app's entrypoints are among its files and an
\* installation that has its directory is refused; a container app has an artifact.
Publication(doc, i) ==
    CASE doc.kind = "web" /\ EntrypointPaths(doc) # {} /\ EntrypointPaths(doc) \subseteq Listed(doc)
             /\ publishedAs[i] = Absent -> [step |-> "copy", left |-> Listed(doc)]
      [] doc.kind = "container" /\ EntrypointPaths(doc) # {} ->
             [step |-> "stage", left |-> EntrypointPaths(doc)]
      [] OTHER -> [step |-> "idle", left |-> {}]

BeginPublish ==
    LET next == Publication(publishing.doc, publishing.inst) IN
    /\ publishing.step = "verify" /\ publishing.left = {}
    /\ publishing' = IF next.step = "idle" THEN NotPublishing
                     ELSE [publishing EXCEPT !.step = next.step, !.left = next.left]
    /\ UNCHANGED <<packageDir, keyVars, signing, published, signedDocs, packageCounts>>

(* Mutant: the copy is not compared with the declaration. *)
CopyUnverified(p) ==
    /\ publishing.step = "copy" /\ p \in publishing.left
    /\ publishing' = IF payload[p] = Absent THEN NotPublishing
                     ELSE [publishing EXCEPT !.left = @ \ {p},
                                             !.copied = @ \union {[path |-> p, content |-> payload[p]]}]
    /\ UNCHANGED <<packageDir, keyVars, signing, published, signedDocs, packageCounts>>

\* copy_verified digests what it copies once more; a mismatch removes the staging
\* directory.
CopyVerified(p) ==
    /\ publishing.step = "copy" /\ p \in publishing.left
    /\ publishing' = IF payload[p] # ListedContent(publishing.doc, p) THEN NotPublishing
                     ELSE [publishing EXCEPT !.left = @ \ {p},
                                             !.copied = @ \union {[path |-> p, content |-> payload[p]]}]
    /\ UNCHANGED <<packageDir, keyVars, signing, published, signedDocs, packageCounts>>

\* The rename of the staging directory.
CommitPublish ==
    /\ publishing.step = "copy" /\ publishing.left = {}
    /\ publishedAs' = [publishedAs EXCEPT ![publishing.inst] =
                          [doc |-> publishing.doc, files |-> publishing.copied]]
    /\ publishing' = NotPublishing
    /\ UNCHANGED <<packageDir, keyVars, signing, images, signedDocs, packageCounts>>

\* stage_image reads the artifact and sends it to the supervisor; its digest is not
\* compared again.
StageImage(p) ==
    /\ publishing.step = "stage" /\ p \in publishing.left
    /\ IF payload[p] = Absent THEN publishing' = NotPublishing /\ UNCHANGED images
       ELSE /\ images' = images \union {[inst |-> publishing.inst, path |-> p,
                                         content |-> payload[p], doc |-> publishing.doc]}
            /\ publishing' = IF publishing.left = {p} THEN NotPublishing
                             ELSE [publishing EXCEPT !.left = @ \ {p}]
    /\ UNCHANGED <<packageDir, keyVars, signing, publishedAs, signedDocs, packageCounts>>

\* A crash, or a read or write that fails: nothing is published.
PublishingStops ==
    /\ publishing.step # "idle"
    /\ publishing' = NotPublishing
    /\ UNCHANGED <<packageDir, keyVars, signing, published, signedDocs, packageCounts>>

SignStep ==
    \/ \E pair \in DOMAIN keyPairs, t \in Templates : BeginSign(pair, t)
    \/ \E p \in PackagePaths : DigestFile(p)
    \/ WriteManifest \/ WriteSignature \/ SigningStops

PublishStep ==
    \/ \E i \in Installations : BeginVerify(i)
    \/ CheckSignature \/ WalkPayload
    \/ \E p \in PackagePaths : VerifyFile(p) \/ CopyVerified(p) \/ StageImage(p)
    \/ BeginPublish \/ CommitPublish \/ PublishingStops

PackageNext ==
    \/ \E p \in PackagePaths, c \in PackageContents \union {Absent} : EditPayload(p, c)
    \/ \E id \in KeyIds, t \in Templates : GenerateKey(id, t.publisher)
    \/ SignStep
    \/ PublishStep

PackageSpec == PackageInit /\ [][PackageNext]_packageVars

------------------------------------------------------------------------------
(* Properties *)

IsSigned(doc) ==
    \E s \in signedDocs :
        /\ s.doc = doc
        /\ \E e \in trusted : e.pair = s.pair /\ e.publisher = doc.publisher
        /\ [ReadDocument(doc) EXCEPT !.files = <<>>] =
           [ReadDocument(s.template) EXCEPT !.files = <<>>]

\* What an installation serves is what a trusted key of the publisher signed: the
\* files published are exactly the listed ones with the digests listed, the document
\* they are listed in was signed by that key, and it says of the app what the signer's
\* template says.  A payload swapped after its verification, a signing run cut off
\* between its two files and a second key under a known key id all come to nothing.
\* Of an image only the document is known to be signed.
PublishedIsSigned ==
    /\ \A i \in Installations : publishedAs[i] # Absent =>
           LET doc == publishedAs[i].doc IN
           /\ IsSigned(doc)
           /\ publishedAs[i].files = {[path |-> f.path, content |-> f.sha256] :
                                         f \in Elements(doc.files)}
    /\ \A image \in images : IsSigned(image.doc)
==============================================================================
