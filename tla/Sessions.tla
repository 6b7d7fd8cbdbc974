------------------------------ MODULE Sessions -------------------------------
(***************************************************************************)
(* Signing in and out of one account: organizations/routes_auth.py,        *)
(* routes_oidc.py, core/auth_helpers.py, core/dependencies.py and the      *)
(* hourly cleaner of core/app.py.  A credential is anything the server     *)
(* hands out and later takes back: a JWT (a session, the challenge of a    *)
(* second factor, a socket or an enrolment token), a password link, the    *)
(* state of an OIDC login and the code it ends with.                       *)
(* The server is one event loop and none of these handlers awaits between  *)
(* its first read and its commit, so that each is one step; the OIDC       *)
(* callback awaits the provider and is two.  Time is the expiry of a       *)
(* credential and the end of the window in which failed logins count.      *)
(*                                                                         *)
(* active_sessions stays empty: the INSERT of _record_session starts its   *)
(* comment inside the statement, SQLite refuses it and the function logs   *)
(* the error.  The routes that revoke by session row find none.            *)
(***************************************************************************)
EXTENDS Naturals, FiniteSets

CONSTANTS Credential,   \* the credentials handed out, those that matter
          LockoutAfter  \* failed logins that lock the account (5 in the code)

ASSUME SessionsAssumption == LockoutAfter \in Nat

VARIABLES credential,   \* [Credential -> what was handed out, or "none"]
          expired,      \* the credentials past their expiry
          blacklist,    \* token_blacklist
          open,         \* unused password_reset_tokens, rows of oidc_pending_states and oidc_auth_codes
          account,      \* the row of users
          failures,     \* rows of login_attempts within the window
          callback,     \* an OIDC callback that awaits the provider
          spent         \* what has been signed out or redeemed (no state of the code)

sessionVars == <<credential, expired, blacklist, open, account, failures, callback, spent>>

JwtKind == {"session", "challenge", "socket", "enrolment"}
RowKind == {"link", "state", "code"}
Account == {"active", "disabled", "deleted"} \X {"off", "enrolling", "on"}

SessionsTypeOK ==
    /\ credential \in [Credential -> JwtKind \cup RowKind \cup {"none"}]
    /\ expired \subseteq Credential /\ blacklist \subseteq Credential
    /\ open \subseteq Credential /\ spent \subseteq Credential
    /\ account \in Account
    /\ failures \in 0..LockoutAfter
    /\ callback \in BOOLEAN

SessionsInit ==
    /\ credential = [c \in Credential |-> "none"]
    /\ expired = {} /\ blacklist = {} /\ open = {} /\ spent = {}
    /\ account = <<"active", "off">>
    /\ failures = 0
    /\ callback = FALSE

Known == account[1] # "deleted"
SecondFactor == account[2]

(* decode_token: the signature and the expiry of a JWT, and no table.      *)
Decodes(c) == credential[c] \in JwtKind /\ c \notin expired

(* Who is shown a credential.  The routes (get_current_user and            *)
(* validate_access_token), mfa_verify and the handlers that redeem a row   *)
(* look up what was taken back.  The perimeter middleware, shown a session *)
(* cookie, and /ws only decode: with an API key configured these are all   *)
(* they ask for, without one they let everybody in.                        *)
LookingDoor == {"route", "mfa_verify", "redeem"}
Door == LookingDoor \cup {"perimeter", "ws"}

Accepts(door, c) ==
    \/ door = "route" /\ credential[c] = "session" /\ Decodes(c) /\ c \notin blacklist
    \/ door = "mfa_verify" /\ credential[c] = "challenge" /\ Decodes(c) /\ c \notin blacklist
    \/ door = "redeem" /\ credential[c] \in RowKind /\ c \in open \ expired
    \/ door = "perimeter" /\ credential[c] \in {"session", "enrolment"} /\ Decodes(c)
    \/ door = "ws" /\ Decodes(c)

(* get_current_user: also, the user is still in the table.                 *)
SignedIn == Known /\ \E c \in Credential : Accepts("route", c)

-----------------------------------------------------------------------------
(* Credentials are numbered in the order in which they are handed out.     *)
Fresh == {c \in Credential : credential[c] = "none" /\ \A d \in Credential : d < c => credential[d] # "none"}

HandOut(kind) ==
    \E c \in Fresh :
        /\ credential' = [credential EXCEPT ![c] = kind]
        /\ open' = IF kind \in RowKind THEN open \cup {c} ELSE open

(* login: the lockout is read before the password is looked at.            *)
LoginFails ==
    /\ failures < LockoutAfter
    /\ failures' = failures + 1
    /\ UNCHANGED <<credential, expired, blacklist, open, account, callback, spent>>

LoginKind(enforced) ==
    IF SecondFactor = "on" THEN "challenge" ELSE IF enforced THEN "enrolment" ELSE "session"

Login ==
    /\ failures < LockoutAfter
    /\ account[1] = "active"
    /\ \E enforced \in BOOLEAN : HandOut(LoginKind(enforced))
    /\ UNCHANGED <<expired, blacklist, account, failures, callback, spent>>

(* mfa_verify: the challenge goes to the blacklist, a session comes out.   *)
VerifyChallenge(c) ==
    /\ Accepts("mfa_verify", c)
    /\ Known /\ SecondFactor = "on"
    /\ HandOut("session")
    /\ blacklist' = blacklist \cup {c}
    /\ spent' = spent \cup {c}
    /\ UNCHANGED <<expired, account, failures, callback>>

(* logout: any token that still decodes, even one already blacklisted.     *)
Logout(c) ==
    /\ Decodes(c)
    /\ blacklist' = blacklist \cup {c}
    /\ spent' = spent \cup {c}
    /\ UNCHANGED <<credential, expired, open, account, failures, callback>>

SocketToken ==
    /\ SignedIn
    /\ HandOut("socket")
    /\ UNCHANGED <<expired, blacklist, account, failures, callback, spent>>

SecondFactorGoes(from, to) ==
    /\ SecondFactor \in from
    /\ account' = [account EXCEPT ![2] = to]
    /\ UNCHANGED <<credential, expired, blacklist, open, failures, callback, spent>>

SetupSecondFactor == SignedIn /\ SecondFactorGoes({"off", "enrolling"}, "enrolling")
ConfirmSecondFactor == SignedIn /\ SecondFactorGoes({"enrolling"}, "on")
DisableSecondFactor == SignedIn /\ SecondFactorGoes({"on"}, "off")
AdminDisablesSecondFactor == Known /\ SecondFactorGoes({"on"}, "off")

ForgotPassword ==
    /\ account[1] = "active"
    /\ HandOut("link")
    /\ UNCHANGED <<expired, blacklist, account, failures, callback, spent>>

(* reset_password: used is set; the sessions it would blacklist are none.  *)
ResetPassword(c) ==
    /\ credential[c] = "link" /\ Accepts("redeem", c)
    /\ open' = open \ {c}
    /\ spent' = spent \cup {c}
    /\ UNCHANGED <<credential, expired, blacklist, account, failures, callback>>

(* An administrator's update_user, delete_user and erase_user_data.        *)
UpdateUser(active) ==
    /\ Known
    /\ account' = [account EXCEPT ![1] = active]
    /\ UNCHANGED <<credential, expired, blacklist, open, failures, callback, spent>>

DeleteUser ==
    /\ Known
    /\ account' = <<"deleted", "off">>
    /\ UNCHANGED <<credential, expired, blacklist, open, failures, callback, spent>>

-----------------------------------------------------------------------------
(* A new login also deletes the expired states.                            *)
OidcLogin ==
    /\ \E c \in Fresh :
          /\ credential' = [credential EXCEPT ![c] = "state"]
          /\ open' = {d \in open \cup {c} : ~(credential[d] = "state" /\ d \in expired)}
    /\ UNCHANGED <<expired, blacklist, account, failures, callback, spent>>

(* validate_state deletes the row whether or not it is in time.  One        *)
(* callback at a time is a bound.                                          *)
OidcCallback(c) ==
    /\ ~callback
    /\ credential[c] = "state" /\ c \in open
    /\ open' = open \ {c}
    /\ callback' = (c \notin expired)
    /\ spent' = spent \cup {c}
    /\ UNCHANGED <<credential, expired, blacklist, account, failures>>

(* The provider answers: the user is found or created, or there is none.   *)
ProviderAnswers ==
    /\ callback
    /\ callback' = FALSE
    /\ \/ /\ HandOut("code")
          /\ account' \in IF Known THEN {account} ELSE {<<"active", "off">>}
       \/ UNCHANGED <<credential, open, account>>
    /\ UNCHANGED <<expired, blacklist, failures, spent>>

(* oidc_exchange_code: the row and every expired one are deleted first.    *)
Exchange(c) ==
    /\ credential[c] = "code" /\ c \in open
    /\ open' = {d \in open \ {c} : ~(credential[d] = "code" /\ d \in expired)}
    /\ spent' = spent \cup {c}
    /\ IF c \in expired
       THEN UNCHANGED credential
       ELSE \E d \in Fresh : credential' = [credential EXCEPT ![d] = "session"]
    /\ UNCHANGED <<expired, blacklist, account, failures, callback>>

-----------------------------------------------------------------------------
(* _periodic_cleanup: the blacklist keeps what could still be presented.   *)
(* (fault: every entry, as when ' ' is compared with 'T' in the text)      *)
OutdatedFault == blacklist
Outdated == blacklist \cap expired

Clean ==
    /\ Outdated # {}
    /\ blacklist' = blacklist \ Outdated
    /\ UNCHANGED <<credential, expired, open, account, failures, callback, spent>>

Expire(c) ==
    /\ credential[c] # "none" /\ c \notin expired
    /\ expired' = expired \cup {c}
    /\ UNCHANGED <<credential, blacklist, open, account, failures, callback, spent>>

WindowPasses ==
    /\ failures > 0
    /\ failures' = 0
    /\ UNCHANGED <<credential, expired, blacklist, open, account, callback, spent>>

(* A restart loses the request that awaits the provider.                   *)
RestartAuth ==
    /\ callback
    /\ callback' = FALSE
    /\ UNCHANGED <<credential, expired, blacklist, open, account, failures, spent>>

SessionsNext ==
    \/ LoginFails \/ Login \/ SocketToken \/ ForgotPassword \/ OidcLogin \/ ProviderAnswers
    \/ SetupSecondFactor \/ ConfirmSecondFactor \/ DisableSecondFactor \/ AdminDisablesSecondFactor
    \/ \E active \in {"active", "disabled"} : UpdateUser(active)
    \/ DeleteUser \/ Clean \/ WindowPasses \/ RestartAuth
    \/ \E c \in Credential :
          VerifyChallenge(c) \/ Logout(c) \/ ResetPassword(c) \/ OidcCallback(c) \/ Exchange(c)
          \/ Expire(c)

SessionsSpec == SessionsInit /\ [][SessionsNext]_sessionVars

-----------------------------------------------------------------------------
(* What was signed out or redeemed is never accepted again by a door that  *)
(* looks it up, whatever the cleaner deletes and whoever redeems beside it *)
(* (routes_auth.py:109, "Clear session cookie and blacklist the JWT"; 174, *)
(* "has already been used"; routes_oidc.py:174, "one-time").  The doors    *)
(* that only decode go on letting in a spent JWT, until it expires and no  *)
(* longer; neither lets in a redeemed row.                                 *)
SpentStaysSpent ==
    \A c \in spent, door \in Door :
        Accepts(door, c) => door \notin LookingDoor /\ Decodes(c)
=============================================================================
