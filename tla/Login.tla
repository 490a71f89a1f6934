-------------------------------- MODULE Login --------------------------------
(***************************************************************************)
(* The login screen and the way back to it: AuthViewModel with its screen,  *)
(* AuthService.authenticate, UserService.getUser, the routes of             *)
(* AuthCoordinator, and the log out of either home screen.  Signing in and  *)
(* reading the user are two requests; Firebase Auth keeps its user over     *)
(* both, and over a relaunch, while the screens start over.                 *)
(*                                                                         *)
(* getUser reports a failed read twice, with its error and with notFound;   *)
(* both callbacks are one step here, and either alert may be the one left.  *)
(*                                                                         *)
(* Auth itself signs its user out when a token of that user is refused; no  *)
(* screen listens for that.                                                 *)
(*                                                                         *)
(* Named apart from CredentialChange, which its proofs are read with.       *)
(***************************************************************************)
EXTENDS Integers

CONSTANTS Account,  \* those who may sign in
          Nobody    \* Auth.auth().currentUser == nil

ASSUME NobodyAssumption == Nobody \notin Account

VARIABLES
  users,        \* what users/{uid} holds: an account type, garbage, or nothing
  currentUser,  \* the user Firebase Auth has signed in
  screen,       \* the root of the navigation controller
  homeUser,     \* the user the home screen was made for
  attempts,     \* the requests of the login screen in flight
  loginEnabled, \* loginButton.isEnabled
  alert         \* the modal over the screen

loginVars == <<users, currentUser, screen, homeUser, attempts, loginEnabled, alert>>

AccountTypes == {"athlete", "fan"}
UserDocuments == AccountTypes \cup {"undecodable", "missing"}
Errors == {"refused", "readFailed", "undecodable", "notFound", "cannotLogOut"}
Attempts == [op : {"signIn", "getUser"}, account : Account]

LoginTypeOK ==
  /\ users \in [Account -> UserDocuments]
  /\ {currentUser, homeUser} \subseteq Account \cup {Nobody}
  /\ screen \in AccountTypes \cup {"login", "killed"}
  /\ attempts \subseteq Attempts
  /\ \A r, s \in attempts : r = s
  /\ loginEnabled \in BOOLEAN
  /\ alert \in Errors \cup {"none", "sheet"}

LoginInit ==
  /\ users \in [Account -> UserDocuments]
  /\ currentUser \in Account \cup {Nobody}
  /\ screen = "login"
  /\ homeUser = Nobody
  /\ attempts = {}
  /\ loginEnabled = TRUE
  /\ alert = "none"

-----------------------------------------------------------------------------
(* Faulty variants of the definitions below; the runs show that a property *)
(* tells them apart from the code.                                          *)

LogInTapped_StaysEnabled(account) ==
  /\ screen = "login" /\ alert = "none" /\ loginEnabled
  /\ attempts' = attempts \cup {[op |-> "signIn", account |-> account]}
  /\ UNCHANGED <<users, currentUser, screen, homeUser, loginEnabled, alert>>

GetUserFails_Silent(request) ==
  /\ request.op = "getUser"
  /\ attempts' = attempts \ {request}
  /\ loginEnabled' = TRUE
  /\ UNCHANGED <<users, currentUser, screen, homeUser, alert>>
-----------------------------------------------------------------------------

(* login(with:email:password:): the loading button takes no second tap. *)
LogInTapped(account) ==
  /\ screen = "login" /\ alert = "none" /\ loginEnabled
  /\ attempts' = attempts \cup {[op |-> "signIn", account |-> account]}
  /\ loginEnabled' = FALSE
  /\ UNCHANGED <<users, currentUser, screen, homeUser, alert>>

(* authenticate succeeded: Auth has its user, and the user is read. *)
SignedIn(request) ==
  /\ request.op = "signIn"
  /\ currentUser' = request.account
  /\ attempts' = (attempts \ {request}) \cup {[request EXCEPT !.op = "getUser"]}
  /\ UNCHANGED <<users, screen, homeUser, loginEnabled, alert>>

Fails(request, error) ==
  /\ attempts' = attempts \ {request}
  /\ alert' = error
  /\ loginEnabled' = TRUE
  /\ UNCHANGED <<users, currentUser, screen, homeUser>>

(* authenticate failed: the error, then loading(false). *)
SignInFails(request) ==
  /\ request.op = "signIn"
  /\ Fails(request, "refused")

(* getUser found its user: the route sets the home screen as the root, and  *)
(* loading(false) reaches a login screen that is gone.                      *)
GotUser(request) ==
  /\ request.op = "getUser"
  /\ users[request.account] \in AccountTypes
  /\ screen' = users[request.account]
  /\ homeUser' = request.account
  /\ attempts' = attempts \ {request}
  /\ loginEnabled' = TRUE
  /\ UNCHANGED <<users, currentUser, alert>>

(* getUser has no user to return.  The read itself may have failed, which   *)
(* completes with its error and once more with notFound.                    *)
GetUserFails(request) ==
  /\ request.op = "getUser"
  /\ \/ Fails(request, "readFailed")
     \/ Fails(request, "notFound")
     \/ users[request.account] = "undecodable" /\ Fails(request, "undecodable")

DismissAlert ==
  /\ alert # "none"
  /\ alert' = "none"
  /\ UNCHANGED <<users, currentUser, screen, homeUser, attempts, loginEnabled>>

(* handleTap of either home screen: an action sheet with "Log Out". *)
TapProfile ==
  /\ screen \in AccountTypes /\ alert = "none"
  /\ alert' = "sheet"
  /\ UNCHANGED <<users, currentUser, screen, homeUser, attempts, loginEnabled>>

(* A root without a view model of the old one left to answer. *)
StartsOver(root) ==
  /\ screen' = root
  /\ homeUser' = Nobody
  /\ attempts' = {}
  /\ loginEnabled' = TRUE
  /\ alert' = "none"

(* logOut: signOut, then the login screen of a new coordinator. *)
LogOut ==
  /\ alert = "sheet"
  /\ currentUser' = Nobody
  /\ StartsOver("login")
  /\ UNCHANGED users

(* A refresh of the user's token, for a request or by Auth's own timer, ends *)
(* with the user disabled, gone or their token expired: Auth signs the user  *)
(* out by force, and every screen stays as it is.                            *)
SignedOutByForce ==
  /\ screen # "killed"
  /\ currentUser # Nobody
  /\ currentUser' = Nobody
  /\ UNCHANGED <<users, screen, homeUser, attempts, loginEnabled, alert>>

(* signOut threw, which it cannot without a user. *)
LogOutFails ==
  /\ alert = "sheet"
  /\ currentUser # Nobody
  /\ alert' = "cannotLogOut"
  /\ UNCHANGED <<users, currentUser, screen, homeUser, attempts, loginEnabled>>

(* The app is killed; Auth has kept its user on the device. *)
Kill ==
  /\ screen # "killed"
  /\ StartsOver("killed")
  /\ UNCHANGED <<users, currentUser>>

(* AppCoordinator shows the login screen, whether a user is signed in or not. *)
Launch ==
  /\ screen = "killed"
  /\ StartsOver("login")
  /\ UNCHANGED <<users, currentUser>>

Answer ==
  \E request \in attempts :
    \/ SignedIn(request)
    \/ SignInFails(request)
    \/ GotUser(request)
    \/ GetUserFails(request)

LoginNext ==
  \/ \E account \in Account : LogInTapped(account)
  \/ Answer
  \/ DismissAlert
  \/ TapProfile
  \/ LogOut
  \/ SignedOutByForce
  \/ LogOutFails
  \/ Kill
  \/ Launch

(* Firebase answers every request, with an error if need be. *)
LoginSpec == LoginInit /\ [][LoginNext]_loginVars /\ WF_loginVars(Answer)

-----------------------------------------------------------------------------
(* Properties *)

(* A home screen is never shown under another user than its own, and is of  *)
(* the type stored for that user, however many attempts with other accounts *)
(* failed half way, between signing in and reading the user, and whenever   *)
(* Auth signs its user out by force: what the screen writes is written as   *)
(* the user it was made for, or as nobody.                                  *)
HomeOfSignedInUser ==
  screen \in AccountTypes =>
    /\ homeUser \in Account /\ screen = users[homeUser]
    /\ currentUser \in {homeUser, Nobody}

(* A login attempt ends on a home screen, or with an error and a button     *)
(* that can be tried again, unless the app is killed under it.              *)
AttemptIsAnswered ==
  attempts # {} ~> screen # "login" \/ (alert \in Errors /\ loginEnabled)

-----------------------------------------------------------------------------
(* The inductive invariant *)

(* The button is disabled while a request is in flight, which is only where  *)
(* it is shown.                                                              *)
RequestsFromLogin ==
  attempts # {} => screen = "login" /\ ~ loginEnabled

(* The user that is read is the one Auth has just signed in, and may have    *)
(* signed out again by force.                                                *)
ReadsSignedInUser ==
  \A request \in attempts :
    request.op = "getUser" => currentUser \in {request.account, Nobody}

LoginIInv ==
  /\ LoginTypeOK
  /\ RequestsFromLogin
  /\ ReadsSignedInUser
  /\ HomeOfSignedInUser
=============================================================================
