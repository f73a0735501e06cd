------------------------------ MODULE TextNames ------------------------------
(***************************************************************************)
(* The names the platform reads from packages, requests and its own        *)
(* tables: identifiers, paths, versions, user names, titles.  Each parser  *)
(* of the code is an operator on a text; a text is a sequence of           *)
(* characters, and the state grows one text character by character, so     *)
(* that every text of up to MaxText characters is read by every parser.    *)
(*                                                                         *)
(* Characters are ASCII, so bytes and characters count the same.  The      *)
(* length limits (255, 63, 64, 32, 1024...) are the constants LongLimit    *)
(* and ShortLimit, small enough to be met.                                 *)
(***************************************************************************)
EXTENDS Integers, Sequences, SequencesExt

CONSTANTS Characters, MaxText, LongLimit, ShortLimit

ASSUME TextBounds == MaxText \in Nat /\ LongLimit \in Nat /\ ShortLimit \in Nat

VARIABLE text

Lower == {"a", "b", "v"}

Upper == {"A"}

Digits == {"0", "1"}

Alphanumeric == Lower \union Upper \union Digits

Blank == {" "}

Within(name, set) == \A n \in 1 .. Len(name) : name[n] \in set

\* str::split: one part more than there are separators, empty parts kept.
Split(name, separator) ==
    FoldLeft(LAMBDA parts, c : IF c = separator THEN Append(parts, <<>>)
                               ELSE [parts EXCEPT ![Len(parts)] = Append(@, c)],
             << <<>> >>, name)

Trim(name) ==
    LET inked == {n \in 1 .. Len(name) : name[n] \notin Blank}
    IN  IF inked = {} THEN <<>>
        ELSE SubSeq(name, CHOOSE n \in inked : \A m \in inked : n <= m,
                          CHOOSE n \in inked : \A m \in inked : m <= n)

ToLower(name) == [n \in 1 .. Len(name) |-> IF name[n] = "A" THEN "a" ELSE name[n]]

-----------------------------------------------------------------------------
(* Names of one label: lower case, digits and hyphens. *)

LabelStart(name) == name[1] \in Lower

LabelRest(name) == \A n \in 2 .. Len(name) : name[n] \in Lower \union Digits \union {"-"}

LabelEnd(name) == name[Len(name)] /= "-"

RuntimeEntrypointIdParses(name) ==
    /\ name /= <<>> /\ Len(name) <= ShortLimit
    /\ LabelStart(name) /\ LabelRest(name) /\ LabelEnd(name)

RuntimeEndpointIdParses(name) ==
    /\ Len(name) \in 1 .. ShortLimit
    /\ LabelStart(name) /\ LabelRest(name) /\ LabelEnd(name)

AppDatabaseIdParses(name) ==
    /\ Len(name) \in 1 .. ShortLimit
    /\ LabelStart(name) /\ LabelRest(name) /\ LabelEnd(name)

ResourceKindParses(name) ==
    /\ Len(name) \in 1 .. ShortLimit
    /\ LabelStart(name) /\ LabelRest(name) /\ LabelEnd(name)

ContributionKindParses(name) ==
    /\ Len(name) \in 1 .. ShortLimit
    /\ LabelStart(name) /\ LabelRest(name) /\ LabelEnd(name)

-----------------------------------------------------------------------------
(* Names of several labels. *)

Segment(name) == name /= <<>> /\ LabelStart(name) /\ LabelRest(name) /\ LabelEnd(name)

ShortSegment(name) == Segment(name) /\ Len(name) <= ShortLimit

Segmented(name, least, part(_)) ==
    LET parts == Split(name, ".")
    IN  /\ Len(name) \in 1 .. LongLimit
        /\ Len(parts) >= least
        /\ \A n \in 1 .. Len(parts) : part(parts[n])

AppIdParses(name) == Segmented(name, 3, ShortSegment)

PublisherIdParses(name) == Segmented(name, 2, ShortSegment)

ServiceIdParses(name) == Segmented(name, 2, ShortSegment)

CapabilityIdParses(name) == Segmented(name, 3, ShortSegment)

ContributionIdParses(name) == Segmented(name, 3, ShortSegment)

EventNameParses(name) == Segmented(name, 3, ShortSegment)

PermissionIdParses(name) == Segmented(name, 3, Segment)

ResourceNamespaceParses(name) == Segmented(name, 2, Segment)

PurposeSegment(name) ==
    /\ name /= <<>>
    /\ name[1] /= "-" /\ name[Len(name)] /= "-"
    /\ Within(name, Lower \union Digits \union {"-"})

SecretPurposeParses(name) == Segmented(name, 1, PurposeSegment)

-----------------------------------------------------------------------------
(* Paths and keys. *)

PathCharacters == Alphanumeric \union {"-", "_", "."}

PathSegment(name) == name \notin {<<>>, <<".">>, <<".", ".">>} /\ Within(name, PathCharacters)

PackagePathParses(name) ==
    LET parts == Split(name, "/")
    IN  /\ Len(name) \in 1 .. LongLimit
        /\ name[1] /= "/"
        /\ \A n \in 1 .. Len(parts) : PathSegment(parts[n])

ResourceKeyParses(name) == Len(name) \in 1 .. LongLimit /\ Within(name, PathCharacters)

AppSettingKeyParses(name) ==
    Len(name) \in 1 .. ShortLimit /\ Within(name, Lower \union Digits \union {"-", "_", "."})

ConnectorTargetParses(name) ==
    Len(name) \in 1 .. ShortLimit /\ Within(name, Lower \union Digits \union {"-", "."})

\* validate_segment of oidc.rs, then the dot segments
CallbackSegment(name) ==
    /\ name /= <<>>
    /\ Within(name, PathCharacters \union {"~"})
    /\ name \notin {<<".">>, <<".", ".">>}

OidcCallbackPathParses(name) ==
    /\ Len(name) \in 1 .. LongLimit
    /\ name[1] = "/"
    /\ Len(name) >= 2 => name[2] /= "/"
    /\ LET parts == Split(Tail(name), "/")
       IN  \A n \in 1 .. Len(parts) : CallbackSegment(parts[n])

-----------------------------------------------------------------------------
(* Names whose value is not the text itself. *)

NoName == <<"no name">>

\* AccountUsername::parse: the value is the trimmed lower-case text
ParseUsername(name) ==
    LET normal == ToLower(Trim(name))
    IN  IF /\ Len(normal) \in 1 .. LongLimit
           /\ normal[1] \in Alphanumeric /\ normal[Len(normal)] \in Alphanumeric
           /\ Within(normal, Alphanumeric \union {".", "_", "-"})
        THEN normal ELSE NoName

Value(component) ==
    FoldLeft(LAMBDA n, c : 10 * n + (IF c = "1" THEN 1 ELSE 0), 0, component)

\* str::parse::<u64> takes one leading plus sign
VersionComponent(part) ==
    LET digits == IF Len(part) > 1 /\ part[1] = "+" THEN Tail(part) ELSE part
    IN  /\ digits /= <<>>
        /\ Within(digits, Digits)
        /\ Len(part) > 1 => part[1] /= "0"

ComponentValue(part) == Value(IF part[1] = "+" THEN Tail(part) ELSE part)

ParseVersion(name) ==
    LET parts == Split(name, ".")
    IN  IF Len(parts) = 3 /\ \A n \in 1 .. 3 : VersionComponent(parts[n])
        THEN [n \in 1 .. 3 |-> ComponentValue(parts[n])]
        ELSE NoName

Shown[number \in Nat] ==
    LET digit == IF number % 10 = 0 THEN "0" ELSE "1"
    IN  IF number < 10 THEN <<digit>> ELSE Append(Shown[number \div 10], digit)

\* Display for AppVersion
VersionShown(version) ==
    Shown[version[1]] \o <<".">> \o Shown[version[2]] \o <<".">> \o Shown[version[3]]

\* CommandContributionDeclaration::new, AppSettingDeclaration::new
ParseTitle(name) ==
    LET title == Trim(name) IN IF Len(title) \in 1 .. LongLimit THEN title ELSE NoName

ParseOption(option) ==
    IF Len(option.value) \in 1 .. ShortLimit /\ ParseTitle(option.label) /= NoName
    THEN [value |-> option.value, label |-> ParseTitle(option.label)]
    ELSE [value |-> NoName, label |-> NoName]

SelectParses(options) ==
    /\ Len(options) \in 1 .. ShortLimit
    /\ \A m, n \in 1 .. Len(options) : m < n => options[m].value /= options[n].value

-----------------------------------------------------------------------------
TextInit == text = <<>>

NextCharacter(c) == Len(text) < MaxText /\ text' = Append(text, c)

TextNext == \E c \in Characters : NextCharacter(c)

TextSpec == TextInit /\ [][TextNext]_text

-----------------------------------------------------------------------------
\* What a file system or a URL makes of a path: empty and "." parts are dropped,
\* ".." goes back one part, or out of the root (the part "out").
Resolved(path) ==
    FoldLeft(LAMBDA parts, part :
                 CASE part \in {<<>>, <<".">>} -> parts
                   [] part = <<".", ".">> -> IF parts = <<>> THEN <<NoName>> ELSE Front(parts)
                   [] OTHER -> Append(parts, part),
             <<>>, Split(path, "/"))

\* The families of names that the code copies parser by parser.
OneLabel == {RuntimeEntrypointIdParses(text), RuntimeEndpointIdParses(text),
             AppDatabaseIdParses(text), ResourceKindParses(text), ContributionKindParses(text)}

TwoLabels == {PublisherIdParses(text), ServiceIdParses(text)}

ThreeLabels == {AppIdParses(text), CapabilityIdParses(text), ContributionIdParses(text),
                EventNameParses(text)}

(* A name that was accepted means one thing everywhere it is used again.    *)
(*  - A package path and a callback path already are what the file system   *)
(*    or the URL they are joined to resolves them to: nothing is dropped    *)
(*    and nothing leaves the root (package_path.rs, apps/oidc.rs; the       *)
(*    redirect URI of redirect_uri.rs is refused when it is not canonical). *)
(*  - A user name, a version and a title that is written out and read back  *)
(*    is the same, and two user names that differ only in case or in        *)
(*    surrounding blanks are one (username.rs; the account table is unique  *)
(*    without regard to case).                                              *)
(*  - A capability can always be granted: its id is also a permission id    *)
(*    (install.rs passes over one that is not).  The parsers that the code  *)
(*    repeats for each kind of identifier agree with one another.           *)
(*  - A select setting that was declared is declared again when it is read  *)
(*    back (settings.rs).                                                   *)
NamesAreCanonical ==
    /\ PackagePathParses(text) => Resolved(text) = Split(text, "/")
    /\ OidcCallbackPathParses(text) => Resolved(Tail(text)) = Split(Tail(text), "/")
    /\ LET user == ParseUsername(text)
       IN  user /= NoName =>
               /\ ParseUsername(user) = user
               /\ ParseUsername(ToLower(text)) = user
               /\ ToLower(user) = user
    /\ LET version == ParseVersion(text)
       IN  version /= NoName => ParseVersion(VersionShown(version)) = version
    /\ LET title == ParseTitle(text) IN title /= NoName => ParseTitle(title) = title
    /\ CapabilityIdParses(text) => PermissionIdParses(text) /\ SecretPurposeParses(text)
    /\ AppIdParses(text) => ResourceNamespaceParses(text) /\ PublisherIdParses(text)
    /\ ConnectorTargetParses(text) => AppSettingKeyParses(text) /\ ResourceKeyParses(text)
    /\ \A family \in {OneLabel, TwoLabels, ThreeLabels} : family /= BOOLEAN
    /\ LET option == ParseOption([value |-> text, label |-> text])
       IN  option.value /= NoName => ParseOption(option) = option /\ SelectParses(<<option>>)

=============================================================================
