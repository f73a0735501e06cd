---------------------------- MODULE SealedSecrets ----------------------------
(***************************************************************************)
(* What is stored encrypted: the app secrets                               *)
(* (persistence-sqlite/src/secret_store.rs) and the fields of other tables *)
(* (field_cipher.rs), with the keys a TPM unseals                          *)
(* (platform-buildroot/src/tpm2_key_provider.rs).  The service may be      *)
(* started again with another configuration of keys.                       *)
(*                                                                         *)
(* AES-GCM is external: a ciphertext opens under the key, the nonce and    *)
(* the associated data it was made with, and fails under any other.  The   *)
(* tpm2_unseal program is external too: it may answer, fail, answer with   *)
(* the wrong length or hang until it is killed.                            *)
(***************************************************************************)
EXTENDS Integers, Sequences, FiniteSets

CONSTANTS
    KeyConfigurations,   \* what the environment may configure at a start
    SecretOwners,        \* app identities: installation, app and publisher
    SecretPurposes, Secrets, Contexts,
    UnsealRuns,          \* how a run of the unseal program may end
    NonceLength, MaxSeals,
    NoProvider           \* no key provider: nothing is stored or read

ASSUME SealBounds == NonceLength \in Nat \ {0} /\ MaxSeals \in Nat

VARIABLES
    provider,      \* the configured keys, or NoProvider
    secretTable,   \* encrypted_app_secret
    fieldTable,    \* sealed fields: the context and the envelope's bytes
    inserting,     \* a secret that is encrypted and not yet written, if any
    seals,         \* nonces drawn so far
    told           \* history: secrets and fields as they were stored, and the last answer

sealVars == <<provider, secretTable, fieldTable, inserting, seals, told>>

-----------------------------------------------------------------------------
(***************************************************************************)
(* Keys.  A key identifier is a sequence of characters.                    *)
(***************************************************************************)
KeyIdCharacters == {"a", "1", ".", "-", "_"}

KeyIdParses(id) == Len(id) \in 1 .. 120 /\ \A i \in 1 .. Len(id) : id[i] \in KeyIdCharacters

SealedKeyConstructs(k) == k.object = "absolute" /\ k.policySession \in {"none", "absolute"}

KeyIdsOf(c) == {k.id : k \in c.sealed}

ProviderConstructs(c) ==
    /\ c.executable = "absolute" /\ c.timeout > 0
    /\ Cardinality(KeyIdsOf(c)) = Cardinality(c.sealed) /\ c.sealed # {}
    /\ c.active \in KeyIdsOf(c)

\* optional_key_provider: whatever does not fit leaves the service without keys.
ProviderOf(c) ==
    IF /\ \A k \in c.sealed : KeyIdParses(k.id) /\ SealedKeyConstructs(k)
       /\ ProviderConstructs(c)
    THEN c
    ELSE NoProvider

\* unseal: the reader takes at most one byte more than a key has.
ReadOutput(length) == IF length > 33 THEN 33 ELSE length

Unseals(run) == run.exit = "success" /\ ReadOutput(run.length) = 32

\* active_key and key_by_id.
ActiveKey(run) == {id \in {provider.active} : Unseals(run)}

KeyById(id, run) == {k \in KeyIdsOf(provider) : k = id /\ Unseals(run)}

-----------------------------------------------------------------------------
(***************************************************************************)
(* Sealing.  The associated data of a secret names its row.                *)
(***************************************************************************)
Sealed(key, nonce, data, plain) == [key |-> key, nonce |-> nonce, data |-> data, plain |-> plain]

Opened(c, key, nonce, data) ==
    {p \in {c.plain} : c.key = key /\ c.nonce = nonce /\ c.data = data}

SecretData(id, owner, purpose, keyId, at) ==
    <<"rumahl-secret-v1", id, owner.installation, owner.app, owner.publisher, purpose, keyId, at>>

FieldData(context) == <<"rumahl-field-v1", context>>

SecretValueFits(v) == v.length \in 1 .. 64 * 1024

Nonce(n) == [i \in 1 .. NonceLength |-> n]

EncryptedRow(id, owner, purpose, value, key) ==
    [id |-> id, installation |-> owner.installation, app |-> owner.app, publisher |-> owner.publisher,
     purpose |-> purpose, key |-> key, nonce |-> Nonce(id), createdAt |-> id,
     ciphertext |-> Sealed(key, Nonce(id), SecretData(id, owner, purpose, key, id), value)]

OwnerOf(row) == [installation |-> row.installation, app |-> row.app, publisher |-> row.publisher]

DecodedSecretOf(row, run) ==
    UNION {Opened(row.ciphertext, k, row.nonce,
                  SecretData(row.id, OwnerOf(row), row.purpose, k, row.createdAt))
           : k \in KeyById(row.key, run)}

-----------------------------------------------------------------------------
(***************************************************************************)
(* The envelope of a sealed field: magic, length of the key identifier in  *)
(* two bytes, key identifier, nonce, ciphertext (here one byte).           *)
(***************************************************************************)
EnvelopeMagic == <<"R", "F", "E", "1">>

EncodedEnvelope(e) ==
    EnvelopeMagic \o <<Len(e.key) \div 256, Len(e.key) % 256>> \o e.key \o e.nonce \o <<e.ciphertext>>

EnvelopeNonceStart(bytes) == 6 + 256 * bytes[5] + bytes[6]

DecodedEnvelope(bytes) ==
    LET start == EnvelopeNonceStart(bytes)
        key == SubSeq(bytes, 7, start)
        rest == start + NonceLength
    IN {[key |-> key, nonce |-> SubSeq(bytes, start + 1, rest), ciphertext |-> b] :
          b \in {bytes[i] : i \in {j \in {rest + 1} :
                    /\ Len(bytes) >= 6 + NonceLength /\ SubSeq(bytes, 1, 4) = EnvelopeMagic
                    /\ rest < Len(bytes) /\ start > 6 /\ KeyIdParses(key)}}}

\* seal_field and open_field.
SealedField(context, plain, key, n) ==
    [key |-> key, nonce |-> Nonce(n), ciphertext |-> Sealed(key, Nonce(n), FieldData(context), plain)]

OpenedField(context, bytes, run) ==
    UNION {UNION {Opened(e.ciphertext, k, e.nonce, FieldData(context)) : k \in KeyById(e.key, run)}
           : e \in DecodedEnvelope(bytes)}

-----------------------------------------------------------------------------
SealInit ==
    /\ provider = NoProvider /\ secretTable = {} /\ fieldTable = {} /\ inserting = {}
    /\ seals = 0 /\ told = [secrets |-> {}, fields |-> {}, answer |-> {}]

\* The service starts, with whatever keys its environment names now.
StartWith(c) ==
    /\ provider' = ProviderOf(c) /\ inserting' = {}
    /\ UNCHANGED <<secretTable, fieldTable, seals, told>>

\* insert: encrypted first, written when the database is free.
EncryptSecret(owner, purpose, value, run) ==
    /\ provider # NoProvider /\ inserting = {} /\ seals < MaxSeals
    /\ SecretValueFits(value)
    /\ \E key \in ActiveKey(run) :
         inserting' = {EncryptedRow(seals + 1, owner, purpose, value, key)}
    /\ seals' = seals + 1
    /\ UNCHANGED <<provider, secretTable, fieldTable, told>>

SecretRowFits(row) ==
    \A other \in secretTable :
        /\ other.id # row.id
        /\ <<other.installation, other.purpose>> # <<row.installation, row.purpose>>
        /\ <<other.key, other.nonce>> # <<row.key, row.nonce>>

InsertSecret ==
    /\ \E row \in inserting :
         IF SecretRowFits(row)
         THEN /\ secretTable' = secretTable \cup {row}
              /\ told' = [told EXCEPT !.secrets = @ \cup
                   {[owner |-> OwnerOf(row), purpose |-> row.purpose, value |-> row.ciphertext.plain]}]
         ELSE UNCHANGED <<secretTable, told>>
    /\ inserting' = {}
    /\ UNCHANGED <<provider, fieldTable, seals>>

\* find_by_owner_and_purpose: found by installation and purpose, then compared.
FindSecret(owner, purpose, run) ==
    /\ provider # NoProvider
    /\ \E row \in secretTable :
         /\ row.installation = owner.installation /\ row.purpose = purpose
         /\ OwnerOf(row) = owner
         /\ \E value \in DecodedSecretOf(row, run) :
              told' = [told EXCEPT !.answer =
                  {[owner |-> owner, purpose |-> purpose, value |-> value]}]
    /\ UNCHANGED <<provider, secretTable, fieldTable, inserting, seals>>

RemoveSecrets(installation) ==
    /\ secretTable' = {row \in secretTable : row.installation # installation}
    /\ told' = [told EXCEPT !.secrets = {s \in @ : s.owner.installation # installation}, !.answer = {}]
    /\ UNCHANGED <<provider, fieldTable, inserting, seals>>

\* SqlitePersonalFiles::encrypt and the update of the row.
SealField(context, plain, run) ==
    /\ provider # NoProvider /\ seals < MaxSeals
    /\ \E key \in ActiveKey(run) :
         fieldTable' = {f \in fieldTable : f.context # context} \cup
             {[context |-> context,
               bytes |-> EncodedEnvelope(SealedField(context, plain, key, seals + 1))]}
    /\ seals' = seals + 1
    /\ told' = [told EXCEPT !.fields = {f \in @ : f.context # context} \cup
                                       {[context |-> context, plain |-> plain]}]
    /\ UNCHANGED <<provider, secretTable, inserting>>

SealNext ==
    \/ \E c \in KeyConfigurations : StartWith(c)
    \/ \E run \in UnsealRuns :
         \/ \E owner \in SecretOwners, purpose \in SecretPurposes :
              \/ \E value \in Secrets : EncryptSecret(owner, purpose, value, run)
              \/ FindSecret(owner, purpose, run)
         \/ \E context \in Contexts, plain \in Secrets : SealField(context, plain, run)
    \/ InsertSecret
    \/ \E owner \in SecretOwners : RemoveSecrets(owner.installation)

SealSpec == SealInit /\ [][SealNext]_sealVars

-----------------------------------------------------------------------------
GoodRun == [exit |-> "success", length |-> 32]

(* Whatever was sealed can be read back, for as long as the key it was     *)
(* sealed under is configured: every stored secret decodes to the value    *)
(* its installation stored first for the purpose and every field opens to  *)
(* its last plaintext, also after a restart with another active key; and a *)
(* secret is handed to the identity that stored it and to no other.        *)
SealedReadsBack ==
    /\ provider # NoProvider =>
         /\ \A row \in secretTable : row.key \in KeyIdsOf(provider) =>
              \E s \in told.secrets :
                /\ s.owner = OwnerOf(row) /\ s.purpose = row.purpose
                /\ DecodedSecretOf(row, GoodRun) = {s.value}
         /\ \A f \in fieldTable, g \in told.fields : f.context = g.context =>
              \A e \in {d \in DecodedEnvelope(f.bytes) : d.key \in KeyIdsOf(provider)} :
                OpenedField(f.context, f.bytes, GoodRun) = {g.plain}
    /\ \A f \in fieldTable : \E e \in DecodedEnvelope(f.bytes) : EncodedEnvelope(e) = f.bytes
    /\ told.answer \subseteq told.secrets
=============================================================================
