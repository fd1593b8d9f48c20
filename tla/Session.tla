------------------------------- MODULE Session -------------------------------
(***************************************************************************)
(* The session of the web UI: an httpOnly cookie that the API sets and     *)
(* clears, and the user that AuthContext shows, which it learns from       *)
(* GET /auth/me.  Looking the session up when the application opens,       *)
(* signing in (two requests, one after the other) and signing out are      *)
(* calls that may overlap, and their answers arrive in any order.  The     *)
(* browser applies Set-Cookie when an answer arrives and sends the cookie  *)
(* it has when a request leaves.  React renders what a call has set before *)
(* the next answer or click; a sign-in navigates in the same render.       *)
(* One tab of the browser is modelled: a second one would share the cookie *)
(* and have a user, a page and calls of its own.                           *)
(***************************************************************************)
EXTENDS FiniteSets, Integers

CONSTANTS
  Account,   \* registered accounts
  NoUser,    \* nobody; also whoever the credentials of a failed sign-in belong to
  Login,     \* bound on the sign-ins submitted
  Logout,    \* bound on the sign-outs clicked
  Refresh,   \* the look-up when the application opens
  NoCall,
  MaxFaults  \* bound on requests that fail

ASSUME SessionAssumption ==
  NoUser \notin Account /\ Refresh \notin Login \cup Logout /\ NoCall \notin Login
    /\ Login \cap Logout = {} /\ MaxFaults \in Nat

Call == {Refresh} \cup Login \cup Logout

VARIABLES
  opened,   \* the page and the cookie the application was opened with
  page,     \* "login", "register", "inside" (any protected page) or "blank"
  user,     \* AuthContext: the user shown
  loading,  \* AuthContext: whether that is being found out
  form,     \* the sign-in the login page waits for, or NoCall
  cookie,   \* whose access_token cookie the browser has
  pc,       \* of a call: what it waits for
  carries,  \* whose cookie its GET /auth/me was sent with
  wants,    \* whose credentials were submitted
  crossed,  \* history: calls a sign-in was submitted beside
  expired,  \* history: a cookie has reached its max_age
  faults

display == <<page, user, loading, form>>
calls   == <<pc, carries, wants>>
history == <<opened, crossed, expired, faults>>
vars    == <<display, cookie, calls, history>>

Init ==
  /\ page \in {"login", "register", "inside"} /\ cookie \in Account \cup {NoUser}
  /\ opened = [page |-> page, cookie |-> cookie]
  /\ user = NoUser /\ loading = TRUE /\ form = NoCall
  /\ pc = [c \in Call |-> IF c = Refresh THEN "me" ELSE "idle"]
  /\ carries = [c \in Call |-> IF c = Refresh THEN cookie ELSE NoUser]
  /\ wants = [c \in Call |-> NoUser]
  /\ crossed = {} /\ expired = FALSE /\ faults = 0

UnderWay == {c \in Call : pc[c] \notin {"idle", "done"}}

Goto(c, label) == pc' = [pc EXCEPT ![c] = label]

(* A request fails: the network, a proxy, an error of the server. *)
Fault == faults < MaxFaults /\ faults' = faults + 1

(***************************************************************************)
(* What React shows next.                                                  *)
(***************************************************************************)
(* ProtectedRoute sends a visitor to the login page once it is known that   *)
(* there is no user; the register page sends a user inside; the login page  *)
(* returns before its last hook when there is one, and where it was mounted *)
(* without, React gives up on the application.                              *)
Render(to, who, busy) ==
  CASE page = "blank"                         -> "blank"
    [] to = "inside" /\ ~busy /\ who = NoUser -> "login"
    [] to = "register" /\ who # NoUser        -> "inside"
    [] to = "login" /\ who # NoUser           -> "blank"
    [] OTHER                                  -> to

Show(to, who, busy) ==
  /\ page' = Render(to, who, busy) /\ user' = who /\ loading' = busy
  /\ form' = IF page' = page THEN form ELSE NoCall

(***************************************************************************)
(* The API.                                                                *)
(***************************************************************************)
(* authenticate_user: an account and its password, or nobody. *)
Authenticated(c) == wants[c]

(* get_current_user: the account of the request's cookie, unless it expired *)
(* on the way.                                                              *)
CurrentUser(c, who) == who = carries[c] \/ (who = NoUser /\ expired)

(***************************************************************************)
(* refreshUser.                                                            *)
(***************************************************************************)
(* Mutant: a failed look-up leaves loading set. *)
RefreshedLoading(who) ==
  /\ pc[Refresh] = "me" /\ Goto(Refresh, "done")
  /\ \/ CurrentUser(Refresh, who) /\ UNCHANGED faults
     \/ who = NoUser /\ Fault
  /\ Show(page, who, who = NoUser)
  /\ UNCHANGED <<cookie, carries, wants, opened, crossed, expired>>

Refreshed(who) ==
  /\ pc[Refresh] = "me" /\ Goto(Refresh, "done")
  /\ \/ CurrentUser(Refresh, who) /\ UNCHANGED faults
     \/ who = NoUser /\ Fault
  /\ Show(page, who, FALSE)
  /\ UNCHANGED <<cookie, carries, wants, opened, crossed, expired>>

(***************************************************************************)
(* The login page and AuthContext's login.                                 *)
(***************************************************************************)
(* The links between the login and the register page; each mounts anew. *)
FollowLink ==
  /\ page \in {"login", "register"}
  /\ page' = IF page = "login" THEN "register" ELSE "login"
  /\ form' = NoCall
  /\ UNCHANGED <<user, loading, cookie, calls, history>>

Submit(l, who) ==
  /\ page = "login" /\ form = NoCall /\ pc[l] = "idle"
  /\ Goto(l, "token") /\ wants' = [wants EXCEPT ![l] = who] /\ form' = l
  /\ crossed' = crossed \cup UnderWay
  /\ UNCHANGED <<page, user, loading, cookie, carries, opened, expired, faults>>

(* Mutant: the error path does not release the form. *)
SignInFailsPending(l, busy) ==
  /\ Goto(l, "done")
  /\ page' = Render(page, user, busy) /\ loading' = busy
  /\ form' = IF page' # page THEN NoCall ELSE form
  /\ UNCHANGED <<user, cookie, carries, wants, opened, crossed, expired>>

(* A failed sign-in: the form that waits for it shows the error. *)
SignInFails(l, busy) ==
  /\ Goto(l, "done")
  /\ page' = Render(page, user, busy) /\ loading' = busy
  /\ form' = IF form = l \/ page' # page THEN NoCall ELSE form
  /\ UNCHANGED <<user, cookie, carries, wants, opened, crossed, expired>>

(* POST /auth/token: the answer sets the cookie. *)
TokenIssued(l) ==
  /\ pc[l] = "token" /\ Authenticated(l) # NoUser
  /\ cookie' = Authenticated(l) /\ Goto(l, "token_read")
  /\ UNCHANGED <<display, carries, wants, history>>

(* The API refuses, the request fails, or the answer breaks off after the    *)
(* browser has applied its Set-Cookie: then the cookie stays.               *)
TokenRefused(l) ==
  /\ \/ pc[l] = "token" /\ Authenticated(l) = NoUser /\ UNCHANGED faults
     \/ pc[l] \in {"token", "token_read"} /\ Fault
  /\ SignInFails(l, loading)

(* Mutant: an answer from when the application was opened is used again. *)
AskMeCached(l) ==
  /\ pc[l] = "token_read" /\ Goto(l, "me")
  /\ carries' = [carries EXCEPT ![l] = IF opened.cookie = NoUser THEN cookie ELSE opened.cookie]
  /\ page' = Render(page, user, TRUE) /\ loading' = TRUE
  /\ UNCHANGED <<user, form, cookie, wants, history>>

(* GET /auth/me follows with the cookie of that moment. *)
AskMe(l) ==
  /\ pc[l] = "token_read" /\ Goto(l, "me")
  /\ carries' = [carries EXCEPT ![l] = cookie]
  /\ page' = Render(page, user, TRUE) /\ loading' = TRUE
  /\ UNCHANGED <<user, form, cookie, wants, history>>

(* Mutant: the sign-in does not navigate. *)
SignedInStays(l) ==
  /\ pc[l] = "me" /\ carries[l] # NoUser /\ Goto(l, "done")
  /\ Show(page, carries[l], FALSE)
  /\ UNCHANGED <<cookie, carries, wants, history>>

SignedIn(l) ==
  /\ pc[l] = "me" /\ carries[l] # NoUser /\ Goto(l, "done")
  /\ Show("inside", carries[l], FALSE)
  /\ UNCHANGED <<cookie, carries, wants, history>>

MeRefused(l) ==
  /\ pc[l] = "me"
  /\ \/ CurrentUser(l, NoUser) /\ UNCHANGED faults
     \/ Fault
  /\ SignInFails(l, FALSE)

(***************************************************************************)
(* Signing out, and the cookie's end.                                      *)
(***************************************************************************)
SignOut(o) ==
  /\ page = "inside" /\ ~loading /\ user # NoUser /\ pc[o] = "idle"
  /\ Goto(o, "logout")
  /\ UNCHANGED <<display, cookie, carries, wants, history>>

(* Mutant: only the user is forgotten. *)
SignedOutShown(o) ==
  /\ pc[o] = "logout" /\ Goto(o, "done")
  /\ \/ UNCHANGED <<cookie, faults>>
     \/ UNCHANGED cookie /\ Fault
  /\ Show(page, NoUser, loading)
  /\ UNCHANGED <<carries, wants, opened, crossed, expired>>

(* POST /auth/logout clears the cookie; the user is forgotten in any case. *)
SignedOut(o) ==
  /\ pc[o] = "logout" /\ Goto(o, "done")
  /\ \/ cookie' = NoUser /\ UNCHANGED faults
     \/ UNCHANGED cookie /\ Fault
  /\ Show(page, NoUser, loading)
  /\ UNCHANGED <<carries, wants, opened, crossed, expired>>

(* access_token_expire_minutes: the cookie and the token in it end together. *)
Expire ==
  /\ cookie # NoUser /\ cookie' = NoUser /\ expired' = TRUE
  /\ UNCHANGED <<display, calls, opened, crossed, faults>>

-----------------------------------------------------------------------------
Answer(c) ==
  \/ c = Refresh /\ \E who \in Account \cup {NoUser} : Refreshed(who)
  \/ c \in Login /\ (TokenIssued(c) \/ TokenRefused(c) \/ AskMe(c) \/ SignedIn(c) \/ MeRefused(c))
  \/ c \in Logout /\ SignedOut(c)

Click ==
  \/ FollowLink
  \/ \E l \in Login, who \in Account \cup {NoUser} : Submit(l, who)
  \/ \E o \in Logout : SignOut(o)

Terminating == UnderWay = {} /\ UNCHANGED vars

Next == (\E c \in Call : Answer(c)) \/ Click \/ Expire \/ Terminating

Spec == Init /\ [][Next]_vars

(* Every request is answered or fails, and the answer is taken. *)
FairSpec == Spec /\ \A c \in Call : WF_vars(Answer(c))

-----------------------------------------------------------------------------
(***************************************************************************)
(* Properties.                                                             *)
(***************************************************************************)
Labels == {"idle", "token", "token_read", "me", "logout", "done"}

(* Types; the form waits for a sign-in that is under way, and for the login *)
(* page it was submitted on.                                                *)
TypeOK ==
  /\ opened \in [page : {"login", "register", "inside"}, cookie : Account \cup {NoUser}]
  /\ page \in {"login", "register", "inside", "blank"}
  /\ {user, cookie} \subseteq Account \cup {NoUser}
  /\ loading \in BOOLEAN /\ expired \in BOOLEAN
  /\ pc \in [Call -> Labels]
  /\ carries \in [Call -> Account \cup {NoUser}] /\ wants \in [Call -> Account \cup {NoUser}]
  /\ crossed \subseteq Call /\ faults \in 0 .. MaxFaults
  /\ form # NoCall => form \in Login \cap UnderWay /\ page = "login"

(* Whoever is shown as signed in is the one whose cookie goes with the      *)
(* requests, unless a sign-in was submitted while the look-up or another    *)
(* sign-in was still waiting for its answers.                               *)
OwnName ==
  crossed \subseteq Logout /\ user # NoUser /\ cookie # NoUser => user = cookie

(* When nothing is under way the UI and the browser agree on whether there  *)
(* is a session and whose, as long as no sign-in was submitted beside       *)
(* another call, no request failed and no cookie expired.                   *)
AgreedAtRest ==
  UnderWay = {} /\ crossed = {} /\ faults = 0 /\ ~expired => user = cookie

(* The login page gives up only under a look-up that finds a session; no    *)
(* order of sign-ins does it, as each leaves the page with the user it sets.*)
BlankOnlyByLookUp ==
  page = "blank" => opened.cookie # NoUser /\ opened.page # "inside" /\ pc[Refresh] = "done"

(* Nobody looks at "Loading" or "Signing in" for ever, whatever calls       *)
(* overlap.                                                                 *)
SettlesDown == <>[](~loading /\ form = NoCall)
=============================================================================
