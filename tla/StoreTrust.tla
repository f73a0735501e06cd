----------------------------- MODULE StoreTrust -----------------------------
(***************************************************************************)
(* The app store pages of the shell (platform-web/src/store.rs): fetching  *)
(* a catalogue or an image from a store the user named, and the            *)
(* certificates users decided to trust, kept for all of them in one file.  *)
(*                                                                         *)
(* A fetch reads the pin, connects, and after a failed connection looks at *)
(* the certificate once more to explain the failure: three moments, and    *)
(* the store may have another certificate at each.  Trusting a certificate *)
(* loads the file, changes it and saves it, under one lock; the save goes  *)
(* through a temporary file, and the process may stop in between.          *)
(***************************************************************************)
EXTENDS Integers, Sequences, FiniteSets

CONSTANTS
    StoreUsers, Shoppers,   \* users, and those of them who fetch
    Urls,            \* addresses someone may ask for, with what the store replies
    TypedHosts,      \* hosts of trust requests: the text and what is left of it
    PrintTexts,      \* fingerprints of trust requests
    PublicPrints,    \* certificates the public roots vouch for
    TrustEntries,    \* MAX_TRUST_ENTRIES
    MaxTrusts, MaxRenewals,
    NoPin, NoHost

ASSUME TrustBounds ==
    /\ Shoppers \subseteq StoreUsers
    /\ TrustEntries \in Nat \ {0}
    /\ {MaxTrusts, MaxRenewals} \subseteq Nat

VARIABLES
    trustFile,    \* the entries of the trust file, oldest first
    presents,     \* the certificate each store presents
    shopper,      \* a fetch of each of them
    trusting,     \* one trust request per user
    renewals,
    acknowledged  \* history: trust requests that were answered with success

trustVars == <<trustFile, presents, shopper, trusting, renewals, acknowledged>>

-----------------------------------------------------------------------------
ImageTypes == {"image/png", "image/jpeg", "image/webp", "image/gif", "image/avif"}

StoreHosts == {u.host : u \in Urls} \ {NoHost}

SourceUrl(u) ==
    u.length \in 1 .. 2048 /\ u.scheme = "https" /\ u.host # NoHost /\ ~u.login /\ ~u.fragment

\* trust_host and parse_fingerprint.
TrustHost(h) == {t \in {h.lowered} : h.length \in 1 .. 253 /\ ~h.separators}

ParseFingerprint(f) == {t \in {f.lowered} : f.length = 64 /\ f.hex}

\* load_trust refuses what save_trust would not have written.
DocumentLoads(entries) ==
    /\ Len(entries) \leq TrustEntries
    /\ \A i \in 1 .. Len(entries) : entries[i].host \in {h.lowered : h \in TypedHosts}

Pins(entries, user, host) == {i \in 1 .. Len(entries) : entries[i].user = user /\ entries[i].host = host}

TrustedFingerprint(user, host) ==
    IF DocumentLoads(trustFile) /\ Pins(trustFile, user, host) # {}
    THEN LET i == CHOOSE j \in Pins(trustFile, user, host) :
                     \A k \in Pins(trustFile, user, host) : j \leq k
         IN trustFile[i].print
    ELSE NoPin

OtherThan(entries, user, host) ==
    SelectSeq(entries, LAMBDA e : ~(e.user = user /\ e.host = host))

Remembered(entries, user, host, print) ==
    LET others == OtherThan(entries, user, host)
        room == IF Len(others) >= TrustEntries THEN Tail(others) ELSE others
    IN Append(room, [user |-> user, host |-> host, print |-> print])

-----------------------------------------------------------------------------
IdleTrust == [stage |-> "idle"]

IdleShopper == [stage |-> "idle"]

TrustInit ==
    /\ trustFile = <<>>
    /\ presents = [h \in StoreHosts |-> CHOOSE p \in PublicPrints : TRUE]
    /\ shopper = [u \in Shoppers |-> IdleShopper]
    /\ trusting = [u \in StoreUsers |-> IdleTrust]
    /\ renewals = 0 /\ acknowledged = <<>>

\* A store presents another certificate.
RenewCertificate(host, print) ==
    /\ renewals < MaxRenewals /\ renewals' = renewals + 1
    /\ presents' = [presents EXCEPT ![host] = print]
    /\ UNCHANGED <<trustFile, shopper, trusting, acknowledged>>


NobodySaves == \A u \in StoreUsers : trusting[u].stage = "idle"

\* trust: the request is read, then remember_certificate loads under the lock.
LoadForTrust(user, typed, text) ==
    /\ NobodySaves /\ trusting[user].stage = "idle"
    /\ Len(acknowledged) < MaxTrusts
    /\ DocumentLoads(trustFile)
    /\ \E host \in TrustHost(typed), print \in ParseFingerprint(text) :
         trusting' = [trusting EXCEPT ![user] =
             [stage |-> "saving", host |-> host, print |-> print,
              entries |-> Remembered(trustFile, user, host, print)]]
    /\ UNCHANGED <<trustFile, presents, shopper, renewals, acknowledged>>

\* save_trust: the rename puts the whole file in place.
SaveTrust(user) ==
    /\ trusting[user].stage = "saving"
    /\ trustFile' = trusting[user].entries
    /\ trusting' = [trusting EXCEPT ![user] = IdleTrust]
    /\ acknowledged' = Append(acknowledged,
           [user |-> user, host |-> trusting[user].host, print |-> trusting[user].print])
    /\ UNCHANGED <<presents, shopper, renewals>>

\* The process stops: temporary files stay behind, the trust file is as it was.
StopService ==
    /\ \E u \in StoreUsers : trusting[u].stage = "saving"
    /\ trusting' = [u \in StoreUsers |-> IdleTrust]
    /\ shopper' = [u \in Shoppers |-> IdleShopper]
    /\ UNCHANGED <<trustFile, presents, renewals, acknowledged>>

-----------------------------------------------------------------------------
(***************************************************************************)
(* fetch and image: fetch_remote.                                          *)
(***************************************************************************)
BeginFetch(user, url) ==
    /\ shopper[user].stage = "idle"
    /\ SourceUrl(url)
    /\ shopper' = [shopper EXCEPT ![user] =
           [stage |-> "sending", host |-> url.host,
            pinned |-> TrustedFingerprint(user, url.host), reply |-> url.reply]]
    /\ UNCHANGED <<trustFile, presents, trusting, renewals, acknowledged>>

\* PinnedCertificate with a pin, the public roots without.
Verified(pinned, print) == IF pinned = NoPin THEN print \in PublicPrints ELSE print = pinned

FetchGoesTo(user, answer) ==
    /\ shopper' = [shopper EXCEPT ![user] =
           [stage |-> answer, host |-> shopper[user].host,
            pinned |-> shopper[user].pinned, seen |-> presents[shopper[user].host]]]
    /\ UNCHANGED <<trustFile, presents, trusting, renewals, acknowledged>>

\* fetch_remote's tail, and the content type an image must have.
ReplyOutcome(reply) ==
    IF reply.status # 200 THEN "bad gateway"
    ELSE IF reply.length > reply.maximum THEN "too large"
    ELSE IF reply.for = "image" /\ reply.type \notin ImageTypes THEN "bad gateway"
    ELSE "received"

ReceiveCatalogue(user) ==
    /\ shopper[user].stage = "sending" /\ Verified(shopper[user].pinned, presents[shopper[user].host])
    /\ FetchGoesTo(user, ReplyOutcome(shopper[user].reply))

HandshakeFails(user) ==
    /\ shopper[user].stage = "sending" /\ ~Verified(shopper[user].pinned, presents[shopper[user].host])
    /\ FetchGoesTo(user, IF shopper[user].pinned = NoPin THEN "probing roots" ELSE "probing any")

\* untrusted_certificate, first with the public roots, then with any certificate.
ProbeRoots(user) ==
    /\ shopper[user].stage = "probing roots"
    /\ FetchGoesTo(user, IF presents[shopper[user].host] \in PublicPrints THEN "unavailable" ELSE "probing any")

ProbeAny(user) ==
    /\ shopper[user].stage = "probing any"
    /\ FetchGoesTo(user, IF presents[shopper[user].host] = shopper[user].pinned
                         THEN "unavailable" ELSE "certificate required")

TrustNext ==
    \/ \E h \in StoreHosts, f \in PrintTexts : RenewCertificate(h, f.lowered)
    \/ \E u \in StoreUsers :
         \/ \E typed \in TypedHosts, f \in PrintTexts : LoadForTrust(u, typed, f)
         \/ SaveTrust(u)
    \/ \E u \in Shoppers :
         \/ ReceiveCatalogue(u) \/ HandshakeFails(u) \/ ProbeRoots(u) \/ ProbeAny(u)
         \/ \E url \in Urls : BeginFetch(u, url)
    \/ StopService

TrustSpec == TrustInit /\ [][TrustNext]_trustVars

-----------------------------------------------------------------------------
\* The last request for each user and store, in the order they were answered.
LastWords(log) ==
    SelectSeq([i \in 1 .. Len(log) |-> [at |-> i, entry |-> log[i]]],
        LAMBDA x : \A j \in x.at + 1 .. Len(log) :
            <<log[j].user, log[j].host>> # <<x.entry.user, x.entry.host>>)

LastOf(s, n) == SubSeq(s, IF Len(s) > n THEN Len(s) - n + 1 ELSE 1, Len(s))

=============================================================================
