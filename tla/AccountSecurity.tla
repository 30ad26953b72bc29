--------------------------- MODULE AccountSecurity ---------------------------
(***************************************************************************)
(* Accounts and what opens them: passwords, login sessions (the cookie),   *)
(* links sent by e-mail, temporary passwords set by an admin, and the      *)
(* limit on failed logins (auth.py, routers/auth.py, routers/admin.py).    *)
(*                                                                         *)
(* A request loads the account, decides, and then performs a plan of       *)
(* commits; the steps of other requests and a crash of the server come in  *)
(* between.  A commit of a changed account is an UPDATE of the columns     *)
(* whose value differs from the loaded one, so it can overwrite what       *)
(* another request wrote in the meantime.                                  *)
(*                                                                         *)
(* Passwords are numbered in the order in which they are chosen; `by` says *)
(* who chose them.  A caller without a matching password gets nothing, so  *)
(* only BadLogin models one.  The rows an account owns are FipLifecycle's. *)
(***************************************************************************)
EXTENDS Integers, FiniteSets, Functions, Sequences

CONSTANTS
    Users,          \* accounts by e-mail address; each registers once
    Cookies,        \* bound on the login sessions alive at once
    Links,          \* bound on the links ever mailed
    Requests,       \* bound on the requests in progress at once
    MaxPasswords,   \* bound on the passwords ever chosen
    MaxCrashes,     \* bound on the restarts of the server
    LoginLimit,     \* LOGIN_LIMIT_PER_EMAIL_IP
    None

ASSUME AccountAssumption ==
    /\ MaxPasswords \in Nat /\ MaxCrashes \in Nat /\ LoginLimit \in Nat \ {0}
    /\ IsFiniteSet(Requests)
    /\ None \notin Users \cup Cookies \cup Links \cup Requests

VARIABLES
    users,      \* users
    cookies,    \* auth_sessions
    links,      \* email_tokens
    by,         \* by[p]: who chose password p, "user" or "admin"
    failures,   \* failed logins in the limiter's window
    requests,   \* the requests in progress, None for a free slot
    crashes,    \* the restarts so far
    registered, \* the addresses that ever had an account: ids are random
    issued,     \* history: links ever issued,
    redeemed,   \*   how often each was claimed by a request,
    applied     \*   and how often its effect was committed

vars == <<users, cookies, links, by, failures, requests, crashes,
          registered, issued, redeemed, applied>>

history == <<issued, redeemed, applied>>

Account == [password : 1..MaxPasswords, must_change : BOOLEAN, verified : BOOLEAN,
            outdated : BOOLEAN,     \* hashed with parameters since replaced
            lost : BOOLEAN]         \* history: some write of the password
                                    \* overwrote one chosen since it was loaded
Memory  == [password : 1..MaxPasswords, must_change : BOOLEAN]  \* of a request
Link    == [user : Users, purpose : {"verify_email", "password_reset"},
            used : BOOLEAN, expired : BOOLEAN]

Calls == {"register", "login", "bad_login", "change", "request_reset", "confirm",
          "verify", "resend", "admin_reset", "delete_me"}

Commits == {"user", "verify_link", "reset_link", "claim", "password", "verified",
            "rehash", "cookie", "revoke", "withdraw", "delete", "failure"}

Request == [call : Calls, user : Users,
            row : Memory \cup {None},
            cookie : Cookies \cup {None}, link : Links \cup {None},
            plan : Seq(Commits), doomed : SUBSET Cookies, dead : SUBSET Links]

ASSUME NoneIsNoRow == None \notin Account \cup Memory

Put(table, key, row) ==
    [k \in DOMAIN table \cup {key} |-> IF k = key THEN row ELSE table[k]]

Drop(table, keys) == [k \in DOMAIN table \ keys |-> table[k]]

CookiesOf(u) == {c \in DOMAIN cookies : cookies[c] = u}

Live(u, purpose) ==
    {l \in DOMAIN links : /\ links[l].user = u
                          /\ links[l].purpose = purpose
                          /\ ~links[l].used}

Init ==
    /\ users = [u \in {} |-> None]
    /\ cookies = [c \in {} |-> None]
    /\ links = [l \in {} |-> None]
    /\ by = <<>>
    /\ failures = 0
    /\ requests = [r \in Requests |-> None]
    /\ crashes = 0
    /\ registered = {}
    /\ issued = {}
    /\ redeemed = [l \in Links |-> 0]
    /\ applied = [l \in Links |-> 0]

-----------------------------------------------------------------------------
(* The start of a request: what the handler loads and checks, and the      *)
(* commits it will make.                                                   *)

(* Mutant: the other sessions are deleted before the password is written. *)
PlanRevokesFirst(call, row) ==
    IF call = "login" /\ row.outdated THEN <<"rehash", "cookie">>
    ELSE [register      |-> <<"user", "verify_link", "cookie">>,
          login         |-> <<"cookie">>,
          bad_login     |-> <<"failure">>,
          change        |-> <<"revoke", "password", "withdraw">>,
          request_reset |-> <<"reset_link">>,
          confirm       |-> <<"claim", "password", "revoke", "withdraw">>,
          verify        |-> <<"claim", "verified">>,
          resend        |-> <<"verify_link">>,
          admin_reset   |-> <<"password", "revoke">>,
          delete_me     |-> <<"revoke", "delete">>][call]

Plan(call, row) ==
    IF call = "login" /\ row.outdated THEN <<"rehash", "cookie">>
    ELSE [register      |-> <<"user", "verify_link", "cookie">>,
          login         |-> <<"cookie">>,
          bad_login     |-> <<"failure">>,
          change        |-> <<"password", "revoke", "withdraw">>,
          request_reset |-> <<"reset_link">>,
          confirm       |-> <<"claim", "password", "revoke", "withdraw">>,
          verify        |-> <<"claim", "verified">>,
          resend        |-> <<"verify_link">>,
          admin_reset   |-> <<"password", "revoke">>,
          delete_me     |-> <<"revoke", "delete">>][call]

(* The requests in progress that will still make the commit. *)
Pending(commit) ==
    {r \in Requests : requests[r] # None /\ commit \in Range(requests[r].plan)}

(* Bounds of the model: passwords to choose and links to mail are left. *)
WithinBounds(plan) ==
    /\ Range(plan) \cap {"user", "password"} # {} =>
           Len(by) + Cardinality(Pending("user") \cup Pending("password")) < MaxPasswords
    /\ Range(plan) \cap {"verify_link", "reset_link"} # {} =>
           Cardinality(issued \cup Pending("verify_link") \cup Pending("reset_link"))
               < Cardinality(Links)

(* What the handler loaded of the account and uses after its first commit. *)
Loaded(call, row) ==
    IF row # None /\ Range(Plan(call, row)) \cap {"password", "rehash"} # {}
    THEN [password |-> row.password, must_change |-> row.must_change]
    ELSE None

(* A slot takes the call, with the row and the credential it came with. *)
Begin(r, call, u, cookie, link) ==
    LET row == IF u \in DOMAIN users THEN users[u] ELSE None IN
    /\ requests[r] = None
    /\ WithinBounds(Plan(call, row))
    /\ requests' = [requests EXCEPT ![r] =
           [call |-> call, user |-> u, row |-> Loaded(call, row), cookie |-> cookie,
            link |-> link, plan |-> Plan(call, row), doomed |-> {}, dead |-> {}]]
    /\ UNCHANGED <<users, cookies, links, by, failures, crashes, registered, history>>

Register(r, u) == u \notin registered /\ Begin(r, "register", u, None, None)

(* Mutant: the limit is not asked. *)
NotLimitedBug == TRUE

(* check_login_rate_limit, before the password is verified *)
NotLimited == failures < LoginLimit

Login(r, u) == NotLimited /\ u \in DOMAIN users /\ Begin(r, "login", u, None, None)

(* A wrong password, or an address without an account. *)
BadLogin(r, u) == NotLimited /\ Begin(r, "bad_login", u, None, None)

(* get_session_user and password_change_middleware *)
SignedIn(c, u, exempt) ==
    /\ c \in DOMAIN cookies
    /\ cookies[c] = u
    /\ exempt \/ ~users[u].must_change

ChangePassword(r, c, u) == SignedIn(c, u, TRUE) /\ Begin(r, "change", u, c, None)

DeleteMe(r, c, u) == SignedIn(c, u, FALSE) /\ Begin(r, "delete_me", u, c, None)

Resend(r, c, u) ==
    /\ SignedIn(c, u, FALSE)
    /\ ~users[u].verified
    /\ Begin(r, "resend", u, c, None)

(* The background task finds no account for most addresses, and then ends. *)
RequestReset(r, u) == u \in DOMAIN users /\ Begin(r, "request_reset", u, None, None)

(* The reads of resolve_email_token; its claim is the first commit. *)
Redeemable(l, purpose) ==
    /\ l \in DOMAIN links
    /\ links[l].purpose = purpose
    /\ ~links[l].used /\ ~links[l].expired

Confirm(r, l) ==
    /\ Redeemable(l, "password_reset")
    /\ Begin(r, "confirm", links[l].user, None, l)

VerifyEmail(r, l) ==
    /\ Redeemable(l, "verify_email")
    /\ Begin(r, "verify", links[l].user, None, l)

AdminReset(r, u) == u \in DOMAIN users /\ Begin(r, "admin_reset", u, None, None)

(* One commit, without a plan: logout deletes the session of the cookie. *)
Logout(c) ==
    /\ c \in DOMAIN cookies
    /\ cookies' = Drop(cookies, {c})
    /\ UNCHANGED <<users, links, by, failures, requests, crashes, registered, history>>

-----------------------------------------------------------------------------
(* The commits *)

(* The request goes on with the rest of its plan, or ends. *)
Proceed(r, rec) ==
    requests' = [requests EXCEPT ![r] =
        IF Len(rec.plan) = 1 THEN None
        ELSE [rec EXCEPT !.plan = Tail(@), !.row = IF Head(rec.plan) = "rehash" THEN None ELSE @]]

(* An exception: the transaction is rolled back and the request ends. *)
Refused(r) ==
    /\ requests' = [requests EXCEPT ![r] = None]
    /\ UNCHANGED <<users, cookies, links, by, failures, crashes, registered, history>>

(* Mutant: an admin's reset does not set the flag. *)
PasswordWrittenUnflagged(row, rec) ==
    [password    |-> Len(by) + 1,
     must_change |-> FALSE,
     verified    |-> row.verified \/ rec.call = "confirm",
     outdated    |-> FALSE,
     lost        |-> row.lost \/ rec.row.password # row.password]

(* must_change_password is a column of the UPDATE only if its new value     *)
(* differs from the loaded one.                                             *)
PasswordWritten(row, rec) ==
    [password    |-> Len(by) + 1,
     must_change |-> LET target == rec.call = "admin_reset"
                     IN  IF rec.row.must_change = target THEN row.must_change ELSE target,
     verified    |-> row.verified \/ rec.call = "confirm",
     outdated    |-> FALSE,
     lost        |-> row.lost \/ rec.row.password # row.password]

WriteUser(r, rec) ==
    /\ rec.user \notin registered
    /\ users' = Put(users, rec.user,
           [password |-> Len(by) + 1, must_change |-> FALSE, verified |-> FALSE,
            outdated |-> FALSE, lost |-> FALSE])
    /\ by' = Append(by, "user")
    /\ registered' = registered \cup {rec.user}
    /\ Proceed(r, rec)
    /\ UNCHANGED <<cookies, links, failures, crashes, history>>

WritePassword(r, rec) ==
    /\ rec.user \in DOMAIN users
    /\ users' = [users EXCEPT ![rec.user] = PasswordWritten(@, rec)]
    /\ by' = Append(by, IF rec.call = "admin_reset" THEN "admin" ELSE "user")
    /\ applied' = IF rec.call = "confirm" THEN [applied EXCEPT ![rec.link] = @ + 1]
                  ELSE applied
    /\ requests' = [requests EXCEPT ![r] =
           [rec EXCEPT !.plan = Tail(@), !.row = None,
                       !.doomed = CookiesOf(rec.user) \ {rec.cookie},
                       !.dead = IF rec.call = "admin_reset" THEN {}
                                ELSE Live(rec.user, "password_reset")]]
    /\ UNCHANGED <<cookies, links, failures, crashes, registered, issued, redeemed>>

(* needs_rehash: the password just verified is stored anew. *)
Rehashed(row, rec) ==
    [row EXCEPT !.password = rec.row.password, !.outdated = FALSE,
                !.lost = @ \/ rec.row.password # row.password]

WriteRehash(r, rec) ==
    /\ rec.user \in DOMAIN users
    /\ users' = [users EXCEPT ![rec.user] = Rehashed(@, rec)]
    /\ Proceed(r, rec)
    /\ UNCHANGED <<cookies, links, by, failures, crashes, registered, history>>

WriteVerified(r, rec) ==
    /\ rec.user \in DOMAIN users
    /\ users' = [users EXCEPT ![rec.user].verified = TRUE]
    /\ applied' = [applied EXCEPT ![rec.link] = @ + 1]
    /\ Proceed(r, rec)
    /\ UNCHANGED <<cookies, links, by, failures, crashes, registered, issued, redeemed>>

(* create_auth_session: a random id, and a user who must still exist *)
WriteCookie(r, rec) ==
    /\ rec.user \in DOMAIN users
    /\ \E c \in Cookies \ (DOMAIN cookies
                           \cup UNION {requests[q].doomed \cup {requests[q].cookie}
                                       : q \in {p \in Requests : requests[p] # None}}) :
           cookies' = Put(cookies, c, rec.user)
    /\ Proceed(r, rec)
    /\ UNCHANGED <<users, links, by, failures, crashes, registered, history>>

(* Mutant: the earlier link of the purpose stays usable. *)
LinkIssuedKeepsOld(rec, purpose, l) ==
    Put(links, l, [user |-> rec.user, purpose |-> purpose, used |-> FALSE, expired |-> FALSE])

(* issue_email_token: earlier unused links of the purpose are deleted. *)
LinkIssued(rec, purpose, l) ==
    Put(Drop(links, Live(rec.user, purpose)), l,
        [user |-> rec.user, purpose |-> purpose, used |-> FALSE, expired |-> FALSE])

WriteLink(r, rec, purpose) ==
    /\ rec.user \in DOMAIN users
    /\ \E l \in Links \ issued :
           /\ links' = LinkIssued(rec, purpose, l)
           /\ issued' = issued \cup {l}
    /\ Proceed(r, rec)
    /\ UNCHANGED <<users, cookies, by, failures, crashes, registered, redeemed, applied>>

(* Mutant: the claim updates the row whether or not it is used. *)
ClaimableReused(l) == l \in DOMAIN links

(* The UPDATE of resolve_email_token names the row and asks for no used_at. *)
Claimable(l) == l \in DOMAIN links /\ ~links[l].used

Claim(r, rec) ==
    /\ Claimable(rec.link)
    /\ links' = [links EXCEPT ![rec.link].used = TRUE]
    /\ redeemed' = [redeemed EXCEPT ![rec.link] = @ + 1]
    /\ Proceed(r, rec)
    /\ UNCHANGED <<users, cookies, by, failures, crashes, registered, issued, applied>>

(* revoke_all_sessions; change_password keeps the session it came with *)
Revoke(r, rec) ==
    /\ cookies' = Drop(cookies, CookiesOf(rec.user)
                          \ (IF rec.call = "change" THEN {rec.cookie} ELSE {}))
    /\ Proceed(r, rec)
    /\ UNCHANGED <<users, links, by, failures, crashes, registered, history>>

Withdraw(r, rec) ==
    /\ links' = Drop(links, Live(rec.user, "password_reset"))
    /\ Proceed(r, rec)
    /\ UNCHANGED <<users, cookies, by, failures, crashes, registered, history>>

(* Mutant: the deletion relies on the sessions having been revoked before. *)
DeleteUserNoCascade(r, rec) ==
    /\ users' = Drop(users, {rec.user})
    /\ links' = Drop(links, {l \in DOMAIN links : links[l].user = rec.user})
    /\ Proceed(r, rec)
    /\ UNCHANGED <<cookies, by, failures, crashes, registered, history>>

(* ON DELETE CASCADE takes the login sessions and the links along. *)
DeleteUser(r, rec) ==
    /\ users' = Drop(users, {rec.user})
    /\ cookies' = Drop(cookies, CookiesOf(rec.user))
    /\ links' = Drop(links, {l \in DOMAIN links : links[l].user = rec.user})
    /\ Proceed(r, rec)
    /\ UNCHANGED <<by, failures, crashes, registered, history>>

RecordFailure(r, rec) ==
    /\ failures' = failures + 1
    /\ Proceed(r, rec)
    /\ UNCHANGED <<users, cookies, links, by, crashes, registered, history>>

Commit(r) ==
    LET rec == requests[r]
        next(commit) == rec # None /\ Head(rec.plan) = commit
    IN
    \/ next("user")        /\ WriteUser(r, rec)
    \/ next("password")    /\ WritePassword(r, rec)
    \/ next("rehash")      /\ WriteRehash(r, rec)
    \/ next("verified")    /\ WriteVerified(r, rec)
    \/ next("cookie")      /\ WriteCookie(r, rec)
    \/ next("verify_link") /\ WriteLink(r, rec, "verify_email")
    \/ next("reset_link")  /\ WriteLink(r, rec, "password_reset")
    \/ next("claim")       /\ Claim(r, rec)
    \/ next("revoke")      /\ Revoke(r, rec)
    \/ next("withdraw")    /\ Withdraw(r, rec)
    \/ next("delete")      /\ DeleteUser(r, rec)
    \/ next("failure")     /\ RecordFailure(r, rec)

(* An UPDATE finds no row (StaleDataError), an INSERT breaks a key, or the *)
(* claim finds the link taken.                                             *)
Fail(r) ==
    LET rec == requests[r] IN
    /\ rec # None
    /\ \/ Head(rec.plan) = "user" /\ rec.user \in registered
       \/ /\ Head(rec.plan) \in {"password", "rehash", "verified", "cookie",
                                 "verify_link", "reset_link"}
          /\ rec.user \notin DOMAIN users
       \/ Head(rec.plan) = "claim" /\ ~Claimable(rec.link)
    /\ Refused(r)

-----------------------------------------------------------------------------
(* Time and the server *)

ExpireLink(l) ==
    /\ l \in DOMAIN links /\ ~links[l].expired /\ ~links[l].used
    /\ links' = [links EXCEPT ![l].expired = TRUE]
    /\ UNCHANGED <<users, cookies, by, failures, requests, crashes, registered, history>>

(* RateLimiter._prune: the oldest failure leaves the window. *)
Forget ==
    /\ failures > 0
    /\ failures' = failures - 1
    /\ UNCHANGED <<users, cookies, links, by, requests, crashes, registered, history>>

(* Requests and the limiter live in memory; a new release may bring new    *)
(* parameters for the hash.                                                *)
Restart(upgraded) ==
    /\ crashes < MaxCrashes
    /\ crashes' = crashes + 1
    /\ requests' = [r \in Requests |-> None]
    /\ failures' = 0
    /\ users' = [u \in DOMAIN users |-> [users[u] EXCEPT !.outdated = @ \/ upgraded]]
    /\ UNCHANGED <<cookies, links, by, registered, history>>

Next ==
    \/ \E r \in Requests, u \in Users :
           Register(r, u) \/ Login(r, u) \/ BadLogin(r, u)
               \/ RequestReset(r, u) \/ AdminReset(r, u)
    \/ \E r \in Requests, c \in Cookies, u \in Users :
           ChangePassword(r, c, u) \/ DeleteMe(r, c, u) \/ Resend(r, c, u)
    \/ \E r \in Requests, l \in Links : Confirm(r, l) \/ VerifyEmail(r, l)
    \/ \E r \in Requests : Commit(r) \/ Fail(r)
    \/ \E c \in Cookies : Logout(c)
    \/ \E l \in Links : ExpireLink(l)
    \/ Forget
    \/ \E upgraded \in BOOLEAN : Restart(upgraded)

Spec == Init /\ [][Next]_vars

-----------------------------------------------------------------------------
(* Properties *)

(* Every variable keeps its type, login sessions and links belong to an    *)
(* existing account (a session inserted by a login that overlapped the     *)
(* deletion would not), and every password number has been chosen.         *)
ATypeOK ==
    /\ DOMAIN users \subseteq registered /\ registered \subseteq Users
    /\ \A u \in DOMAIN users : users[u] \in Account /\ users[u].password \in DOMAIN by
    /\ DOMAIN cookies \subseteq Cookies
    /\ \A c \in DOMAIN cookies : cookies[c] \in DOMAIN users
    /\ DOMAIN links \subseteq issued /\ issued \subseteq Links
    /\ \A l \in DOMAIN links : links[l] \in Link /\ links[l].user \in DOMAIN users
    /\ by \in Seq({"user", "admin"}) /\ Len(by) <= MaxPasswords
    /\ failures \in Nat /\ crashes \in 0..MaxCrashes
    /\ \A r \in Requests : requests[r] = None \/ requests[r] \in Request
    /\ redeemed \in [Links -> Nat] /\ applied \in [Links -> Nat]

(* The links keep the promise of EmailLinks, whatever overlaps or crashes: *)
(* none is redeemed twice or after it was withdrawn, none takes effect     *)
(* twice.  The read of a link's state and its claim are separate steps.    *)
Promise == INSTANCE EmailLinks WITH
    issued   <- issued,
    live     <- {l \in DOMAIN links : ~links[l].used},
    redeemed <- redeemed,
    applied  <- applied

LinksKeepTheirPromise == Promise!Spec

(* At most one link of each purpose can be redeemed, per account: a new    *)
(* one replaces the earlier (issue_email_token), also when two requests    *)
(* issue at the same time.                                                 *)
OneLiveLink ==
    \A u \in Users, purpose \in {"verify_email", "password_reset"} :
        Cardinality(Live(u, purpose)) <= 1

(* When a password change has run to its end, every login session of the   *)
(* account that was open when the new password took effect is gone, except *)
(* the one the change came with, and so is every reset link that could     *)
(* still be redeemed then -- although logins and link requests overlap the *)
(* three commits.  (An admin's reset leaves the links alone.)              *)
Finishes(r) ==
    /\ requests[r] # None
    /\ requests[r].call \in {"change", "confirm", "admin_reset"}
    /\ Len(requests[r].plan) = 1
    /\ requests'[r] = None /\ crashes' = crashes

ChangeLocksOut ==
    [][\A r \in Requests : Finishes(r) =>
          /\ requests[r].doomed \cap DOMAIN cookies' = {}
          /\ \A l \in requests[r].dead \cap DOMAIN links' : links'[l].used]_vars

(* A temporary password chosen by an admin opens the account only until    *)
(* the user changes it: it is flagged, unless a write of this account's    *)
(* password (by the admin, the user, or the rehash of a login) overwrote   *)
(* one chosen after it was loaded.                                         *)
TemporaryIsFlagged ==
    \A u \in DOMAIN users :
        by[users[u].password] = "admin" => users[u].must_change \/ users[u].lost

(* Failed logins per address exceed the limit at most by the requests that *)
(* passed the check before the last one was recorded.                      *)
AttemptsBounded == failures < LoginLimit + Cardinality(Requests)

(* The document of confirm_password_reset says that redeeming the link and *)
(* changing the password are one transaction.                              *)
ResetIsOneTransaction ==
    \A l \in DOMAIN links : links[l].purpose = "password_reset" /\ links[l].used =>
        \/ applied[l] > 0
        \/ \E r \in Requests : requests[r] # None /\ requests[r].link = l

=============================================================================
