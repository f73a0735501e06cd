---------------------------- MODULE BrowserSignIn ----------------------------
(* Signing in and out with a browser: the redirect to the sign-in page, the    *)
(* picker of accounts, the form, the bounded pool of password checks, and the  *)
(* cookie.                                                                     *)
(*                                                                             *)
(* Checking a password runs on a thread of its own and cannot be called off: a *)
(* browser that goes away ends its request, not the check.                     *)
(*                                                                             *)
(* A target is a record of what the code asks of it: its length, whether it    *)
(* starts with one slash, whether its characters are admitted, and its first   *)
(* segment.                                                                    *)
EXTENDS Integers, FiniteSets

CONSTANTS
    SignInBrowsers,     \* browsers
    ShellTargets,       \* pages of the shell a browser may ask for
    TypedNames,         \* lengths of the names a person may pick or type
    LoginSlots,         \* password checks allowed at a time
    MaxSignIns,         \* bound on the number of forms posted
    Here                \* the front page, "/"

ASSUME SignInBounds ==
    LoginSlots \in Nat /\ MaxSignIns \in Nat /\ Here \notin ShellTargets

VARIABLES
    browser,        \* [browser -> what it shows, and where its person is headed]
    freeSlots,      \* permits left in the semaphore
    strayChecks,    \* password checks whose browser has gone away
    straySessions,  \* sessions opened by them, whose token nobody received
    cookies,        \* [browser -> whether it holds the cookie of an open session]
    formsPosted     \* number of forms posted so far

signInVars == <<browser, freeSlots, strayChecks, straySessions, cookies, formsPosted>>

-----------------------------------------------------------------------------

ReservedSegments ==
    {"api", "assets", "shell", "login", "logout", "recovery", "oauth2", "src",
     "node_modules", "favicon.ico", "robots.txt", "manifest.webmanifest",
     "service-worker.js", "os-client.js", "offline", "splash"}

(* Pages of the shell on this host, and nothing that answers to programs.      *)
ValidShellTarget(t) ==
    t # Here =>
        /\ t.length <= 2048
        /\ t.slashes = 1
        /\ t.plain
        /\ t.first \notin ReservedSegments
        /\ ~t.marked

(* The `next` of the address a browser without a session is sent to.           *)
RedirectedWith(t) ==
    IF t = Here \/ ~ValidShellTarget(t) THEN Here ELSE t

NextOfQuery(t) ==
    IF ValidShellTarget(t) THEN t ELSE Here

MaxNameLength == 128

(* The fields of a form are read once each, and nothing else is taken.         *)
FormReads(form) ==
    /\ form.fields \subseteq {"username", "password", "next"}
    /\ {"username", "password"} \subseteq form.fields
    /\ ("next" \in form.fields) => ValidShellTarget(form.next)
    /\ form.name <= MaxNameLength

(* The form on the page: a name that was picked is a hidden field of it.       *)
PageForm(b, name) ==
    [fields |-> {"next", "username", "password"}, next |-> browser[b].next, name |-> name]

Away == [at |-> "away", next |-> Here, headed |-> Here]

SignInInit ==
    /\ browser = [b \in SignInBrowsers |-> Away]
    /\ freeSlots = LoginSlots
    /\ strayChecks = 0
    /\ straySessions = 0
    /\ cookies = [b \in SignInBrowsers |-> FALSE]
    /\ formsPosted = 0

Shows(b, at, next) ==
    browser' = [browser EXCEPT ![b] = [@ EXCEPT !.at = at, !.next = next]]

-----------------------------------------------------------------------------

(* A page of the shell is asked for without a session: the browser is sent to  *)
(* the sign-in page, which shows the picker or, with no accounts, the form.    *)
AskForPage(b, t) ==
    /\ ~cookies[b]
    /\ browser[b].at = "away"
    /\ ValidShellTarget(t)
    /\ \E at \in {"picker", "form"} :
           browser' = [browser EXCEPT ![b] =
               [at |-> at, next |-> NextOfQuery(RedirectedWith(t)), headed |-> t]]
    /\ UNCHANGED <<freeSlots, strayChecks, straySessions, cookies, formsPosted>>

(* The sign-in page is opened by its own address, with any `next` in it.       *)
OpenLoginPage(b, t) ==
    /\ browser[b].at = "away"
    /\ \E at \in {"picker", "form"} :
           browser' = [browser EXCEPT ![b] =
               [at |-> at, next |-> NextOfQuery(t),
                headed |-> IF ValidShellTarget(t) THEN t ELSE Here]]
    /\ UNCHANGED <<freeSlots, strayChecks, straySessions, cookies, formsPosted>>

(* An account is picked, or another user.                                      *)
PickAccount(b) ==
    /\ browser[b].at = "picker"
    /\ Shows(b, "form", NextOfQuery(browser[b].next))
    /\ UNCHANGED <<freeSlots, strayChecks, straySessions, cookies, formsPosted>>

SwitchUser(b) ==
    /\ browser[b].at \in {"form", "refused"}
    /\ Shows(b, "picker", NextOfQuery(browser[b].next))
    /\ UNCHANGED <<freeSlots, strayChecks, straySessions, cookies, formsPosted>>

(* The form is posted.  One that does not read is answered with an error page, *)
(* and so is one that finds no permit; otherwise the check starts, and holds   *)
(* its permit until it ends.                                                   *)
PostForm(b, name) ==
    /\ browser[b].at \in {"form", "refused"}
    /\ formsPosted < MaxSignIns
    /\ formsPosted' = formsPosted + 1
    /\ IF FormReads(PageForm(b, name)) /\ freeSlots > 0
       THEN freeSlots' = freeSlots - 1 /\ Shows(b, "waiting", browser[b].next)
       ELSE freeSlots' = freeSlots /\ browser' = [browser EXCEPT ![b] = Away]
    /\ UNCHANGED <<strayChecks, straySessions, cookies>>

(* Mutant: the permit returns with the browser. *)
GoAwayWithThePermit(b) ==
    /\ browser[b].at = "waiting"
    /\ browser' = [browser EXCEPT ![b] = Away]
    /\ strayChecks' = strayChecks + 1
    /\ freeSlots' = freeSlots + 1
    /\ UNCHANGED <<straySessions, cookies, formsPosted>>

(* The browser goes away while its password is being checked.                  *)
GoAway(b) ==
    /\ browser[b].at = "waiting"
    /\ browser' = [browser EXCEPT ![b] = Away]
    /\ strayChecks' = strayChecks + 1
    /\ UNCHANGED <<freeSlots, straySessions, cookies, formsPosted>>

LeavePage(b) ==
    /\ browser[b].at \in {"picker", "form", "refused", "shell"}
    /\ browser' = [browser EXCEPT ![b] = Away]
    /\ UNCHANGED <<freeSlots, strayChecks, straySessions, cookies, formsPosted>>

(* The password is wrong: the same form again, with the same destination.      *)
Refused(b) ==
    /\ browser[b].at = "waiting"
    /\ freeSlots' = freeSlots + 1
    /\ Shows(b, "refused", browser[b].next)
    /\ UNCHANGED <<strayChecks, straySessions, cookies, formsPosted>>

(* The session is open: the cookie is set and the browser goes to `next`.      *)
Admitted(b) ==
    /\ browser[b].at = "waiting"
    /\ freeSlots' = freeSlots + 1
    /\ Shows(b, "shell", browser[b].next)
    /\ cookies' = [cookies EXCEPT ![b] = TRUE]
    /\ UNCHANGED <<strayChecks, straySessions, formsPosted>>

(* The sign-in service fails.                                                  *)
Unavailable(b) ==
    /\ browser[b].at = "waiting"
    /\ freeSlots' = freeSlots + 1
    /\ browser' = [browser EXCEPT ![b] = Away]
    /\ UNCHANGED <<strayChecks, straySessions, cookies, formsPosted>>

(* A check nobody waits for ends.  The session it may open stays open until it *)
(* expires.                                                                    *)
StrayEnds ==
    /\ strayChecks > 0
    /\ strayChecks' = strayChecks - 1
    /\ freeSlots' = freeSlots + 1
    /\ straySessions' \in {straySessions, straySessions + 1}
    /\ UNCHANGED <<browser, cookies, formsPosted>>

(* Sign-out revokes the session of the cookie and only then clears the cookie; *)
(* when the revocation fails the cookie stays.                                 *)
PostLogout(b) ==
    /\ cookies[b]
    /\ browser[b].at = "shell"
    /\ cookies' = [cookies EXCEPT ![b] = FALSE]
    /\ \E at \in {"picker", "form"} :
           browser' = [browser EXCEPT ![b] = [at |-> at, next |-> Here, headed |-> Here]]
    /\ UNCHANGED <<freeSlots, strayChecks, straySessions, formsPosted>>

LogoutFails(b) ==
    /\ cookies[b]
    /\ browser[b].at = "shell"
    /\ browser' = [browser EXCEPT ![b] = Away]
    /\ UNCHANGED <<freeSlots, strayChecks, straySessions, cookies, formsPosted>>

(* A browser that holds the cookie is served the page it asks for.             *)
OpenWithCookie(b, t) ==
    /\ cookies[b]
    /\ browser[b].at = "away"
    /\ ValidShellTarget(t)
    /\ browser' = [browser EXCEPT ![b] = [at |-> "shell", next |-> t, headed |-> t]]
    /\ UNCHANGED <<freeSlots, strayChecks, straySessions, cookies, formsPosted>>

SignInNext ==
    \/ \E b \in SignInBrowsers :
           \/ \E t \in ShellTargets \union {Here} :
                  AskForPage(b, t) \/ OpenLoginPage(b, t) \/ OpenWithCookie(b, t)
           \/ \E name \in TypedNames : PostForm(b, name)
           \/ PickAccount(b) \/ SwitchUser(b) \/ GoAway(b) \/ LeavePage(b)
           \/ Refused(b) \/ Admitted(b) \/ Unavailable(b) \/ PostLogout(b)
           \/ LogoutFails(b)
    \/ StrayEnds

SignInSpec == SignInInit /\ [][SignInNext]_signInVars

-----------------------------------------------------------------------------

ChecksRunning ==
    strayChecks + Cardinality({b \in SignInBrowsers : browser[b].at = "waiting"})

(* There are never more password checks than slots, however many forms are     *)
(* posted and given up, and no slot is ever lost: browser_auth.rs says the     *)
(* permits "bound expensive password hashes even when requests are canceled".  *)
ChecksAreBounded ==
    ChecksRunning + freeSlots = LoginSlots /\ freeSlots >= 0

(* Whatever way leads through the sign-in pages (the picker, another user, a   *)
(* wrong password and another try), the form and the redirect keep the page    *)
(* the person had asked for.                                                   *)
DestinationIsKept ==
    \A b \in SignInBrowsers : browser[b].at # "away" => browser[b].next = browser[b].headed

=============================================================================
