---------------------------- MODULE SessionProofs ----------------------------
(***************************************************************************)
(* The safety properties of Session, for any number of accounts, sign-ins, *)
(* sign-outs and failed requests.  One inductive invariant carries them.   *)
(***************************************************************************)
EXTENDS Session, TLAPS

(* The calls that end by setting a user: the look-up and the sign-ins. *)
LookUp == {Refresh} \cup Login

Waits(c) == pc[c] \notin {"idle", "done"}

(* Which calls wait for which requests. *)
Requests ==
  /\ pc[Refresh] \in {"me", "done"} /\ carries[Refresh] = opened.cookie
  /\ \A l \in Login : pc[l] # "logout"
  /\ \A o \in Logout : pc[o] \in {"idle", "logout", "done"}

(* The login and the register page are for visitors only, and a protected    *)
(* page for users and while it is being found out whether there is one.      *)
Pages ==
  /\ page \in {"login", "register"} => user = NoUser
  /\ page = "inside" /\ user = NoUser => loading

(* A protected page that is opened stays as it is until the look-up answers. *)
Entering ==
  pc[Refresh] = "me" /\ opened.page = "inside" =>
    page = "inside" /\ loading /\ user = NoUser /\ \A c \in Call \ {Refresh} : pc[c] = "idle"

(* As long as sign-ins are submitted beside sign-outs at most, one look-up   *)
(* waits at a time, nobody is shown meanwhile, and the cookie is the one it   *)
(* was sent with or gone.                                                    *)
OneAtATime ==
  crossed \subseteq Logout =>
    /\ \A c, d \in LookUp : Waits(c) /\ Waits(d) => c = d
    /\ \A c \in LookUp : Waits(c) => user = NoUser
    /\ \A c \in LookUp : pc[c] = "me" => cookie \in {carries[c], NoUser}

(* If nothing is crossed, fails or expires, a look-up waits alone, and UI and *)
(* browser agree whenever none waits.                                        *)
Calm ==
  crossed = {} /\ faults = 0 /\ ~expired =>
    /\ \A c \in LookUp : Waits(c) =>
         /\ user = NoUser /\ \A d \in Call \ {c} : ~Waits(d)
         /\ pc[c] = "token" => cookie = NoUser
         /\ pc[c] = "me" => cookie = carries[c]
    /\ (\A c \in LookUp : ~Waits(c)) => user = cookie

IInv ==
  /\ TypeOK /\ Requests /\ Pages /\ Entering
  /\ OneAtATime /\ OwnName /\ Calm /\ BlankOnlyByLookUp

-----------------------------------------------------------------------------
LEMMA InitIInv == Init => IInv
<1> SUFFICES ASSUME Init PROVE IInv
  OBVIOUS
<1> USE SessionAssumption DEF Init, Call, LookUp, Waits
<1>1. TypeOK
  <2>1. opened \in [page : {"login", "register", "inside"}, cookie : Account \cup {NoUser}]
    OBVIOUS
  <2>2. pc \in [Call -> Labels] /\ carries \in [Call -> Account \cup {NoUser}]
        /\ wants \in [Call -> Account \cup {NoUser}]
    BY DEF Labels
  <2>3. page \in {"login", "register", "inside", "blank"} /\ {user, cookie} \subseteq Account \cup {NoUser}
    OBVIOUS
  <2>4. loading \in BOOLEAN /\ expired \in BOOLEAN
    BY Zenon
  <2>5. crossed \subseteq Call /\ faults \in 0 .. MaxFaults /\ form = NoCall
    OBVIOUS
  <2> HIDE DEF Init
  <2> QED
    BY <2>1, <2>2, <2>3, <2>4, <2>5 DEF TypeOK
<1>2. Requests
  BY DEF Requests
<1>3. Pages
  BY DEF Pages
<1>4. Entering
  BY DEF Entering
<1>5. OneAtATime
  BY DEF OneAtATime
<1>6. OwnName
  BY DEF OwnName
<1>7. Calm
  BY DEF Calm
<1>8. BlankOnlyByLookUp
  BY DEF BlankOnlyByLookUp
<1> QED
  BY <1>1, <1>2, <1>3, <1>4, <1>5, <1>6, <1>7, <1>8 DEF IInv

(* The look-up answers. *)
LEMMA RefreshedStep ==
  ASSUME IInv, NEW who \in Account \cup {NoUser}, Refreshed(who)
  PROVE  IInv'
<1> USE SessionAssumption DEF IInv, Refreshed, CurrentUser, Show, Render, Fault, Goto, display, calls, history
<1>1. TypeOK'
  <2>1. pc' \in [Call -> Labels] /\ pc' = [pc EXCEPT ![Refresh] = "done"]
    BY DEF TypeOK, Labels, Call
  <2>2. faults' \in 0 .. MaxFaults
    BY DEF TypeOK
  <2>3. page' \in {"login", "register", "inside", "blank"} /\ loading' \in BOOLEAN
    BY DEF TypeOK
  <2>4. form' # NoCall => form' \in Login \cap UnderWay' /\ page' = "login"
    BY <2>1 DEF TypeOK, UnderWay, Call, Pages
  <2>5. {user', cookie'} \subseteq Account \cup {NoUser}
    BY DEF TypeOK
  <2> QED
    BY <2>1, <2>2, <2>3, <2>4, <2>5 DEF TypeOK
<1> USE DEF Waits, LookUp, Call
<1> USE DEF TypeOK, Labels
<1>2. Requests'
  BY DEF Requests
<1>3. Pages'
  BY DEF Pages
<1>4. Entering'
  BY DEF Entering, Requests, Pages
<1>5. OneAtATime'
  BY DEF OneAtATime, Requests, Pages, UnderWay
<1>6. OwnName'
  BY DEF OwnName, OneAtATime, Requests, Pages
<1>7. Calm'
  BY DEF Calm, Requests, Pages, UnderWay, OneAtATime
<1>8. BlankOnlyByLookUp'
  BY DEF BlankOnlyByLookUp, Requests, Pages, Entering
<1> QED
  BY <1>1, <1>2, <1>3, <1>4, <1>5, <1>6, <1>7, <1>8

(* A link is followed. *)
LEMMA FollowLinkStep ==
  ASSUME IInv, FollowLink
  PROVE  IInv'
<1> USE SessionAssumption DEF IInv, FollowLink, display, calls, history
<1>1. TypeOK'
  BY DEF TypeOK, Labels, UnderWay, Call, Requests, Pages
<1> USE DEF Waits, LookUp, Call
<1> USE DEF TypeOK, Labels
<1>2. Requests'
  BY DEF Requests
<1>3. Pages'
  BY DEF Pages
<1>4. Entering'
  BY DEF Entering, Requests, Pages
<1>5. OneAtATime'
  BY DEF OneAtATime, Requests, Pages, UnderWay
<1>6. OwnName'
  BY DEF OwnName, OneAtATime, Requests, Pages
<1>7. Calm'
  BY DEF Calm, Requests, Pages, UnderWay, OneAtATime
<1>8. BlankOnlyByLookUp'
  BY DEF BlankOnlyByLookUp, Requests, Pages, Entering
<1> QED
  BY <1>1, <1>2, <1>3, <1>4, <1>5, <1>6, <1>7, <1>8

(* A sign-in is submitted. *)
LEMMA SubmitStep ==
  ASSUME IInv, NEW l \in Login, NEW who \in Account \cup {NoUser}, Submit(l, who)
  PROVE  IInv'
<1> USE SessionAssumption DEF IInv, Submit, Goto, display, calls, history
<1>1. TypeOK'
  BY DEF TypeOK, Labels, UnderWay, Call, Requests, Pages
<1> USE DEF Waits, LookUp, Call
<1> USE DEF TypeOK, Labels
<1>2. Requests'
  BY DEF Requests
<1>3. Pages'
  BY DEF Pages
<1>4. Entering'
  BY DEF Entering, Requests, Pages
<1>5. OneAtATime'
  BY DEF OneAtATime, Requests, Pages, UnderWay
<1>6. OwnName'
  BY DEF OwnName, OneAtATime, Requests, Pages
<1>7. Calm'
  BY DEF Calm, Requests, Pages, UnderWay, OneAtATime
<1>8. BlankOnlyByLookUp'
  BY DEF BlankOnlyByLookUp, Requests, Pages, Entering
<1> QED
  BY <1>1, <1>2, <1>3, <1>4, <1>5, <1>6, <1>7, <1>8

(* The API issues a token. *)
LEMMA TokenIssuedStep ==
  ASSUME IInv, NEW l \in Login, TokenIssued(l)
  PROVE  IInv'
<1> USE SessionAssumption DEF IInv, TokenIssued, Authenticated, Goto, display, calls, history
<1>1. TypeOK'
  BY DEF TypeOK, Labels, UnderWay, Call, Requests, Pages
<1> USE DEF Waits, LookUp, Call
<1> USE DEF TypeOK, Labels
<1>2. Requests'
  BY DEF Requests
<1>3. Pages'
  BY DEF Pages
<1>4. Entering'
  BY DEF Entering, Requests, Pages
<1>5. OneAtATime'
  BY DEF OneAtATime, Requests, Pages, UnderWay
<1>6. OwnName'
  BY DEF OwnName, OneAtATime, Requests, Pages
<1>7. Calm'
  BY DEF Calm, Requests, Pages, UnderWay, OneAtATime
<1>8. BlankOnlyByLookUp'
  BY DEF BlankOnlyByLookUp, Requests, Pages, Entering
<1> QED
  BY <1>1, <1>2, <1>3, <1>4, <1>5, <1>6, <1>7, <1>8

(* The API refuses one. *)
LEMMA TokenRefusedStep ==
  ASSUME IInv, NEW l \in Login, TokenRefused(l)
  PROVE  IInv'
<1> USE SessionAssumption DEF IInv, TokenRefused, SignInFails, Authenticated, Render, Fault, Goto, display, calls, history
<1>1. TypeOK'
  BY DEF TypeOK, Labels, UnderWay, Call, Requests, Pages
<1> USE DEF Waits, LookUp, Call
<1> USE DEF TypeOK, Labels
<1>2. Requests'
  BY DEF Requests
<1>3. Pages'
  BY DEF Pages
<1>4. Entering'
  BY DEF Entering, Requests, Pages
<1>5. OneAtATime'
  BY DEF OneAtATime, Requests, Pages, UnderWay
<1>6. OwnName'
  BY DEF OwnName, OneAtATime, Requests, Pages
<1>7. Calm'
  BY DEF Calm, Requests, Pages, UnderWay, OneAtATime
<1>8. BlankOnlyByLookUp'
  BY DEF BlankOnlyByLookUp, Requests, Pages, Entering
<1> QED
  BY <1>1, <1>2, <1>3, <1>4, <1>5, <1>6, <1>7, <1>8

(* The sign-in asks whom it has signed in. *)
LEMMA AskMeStep ==
  ASSUME IInv, NEW l \in Login, AskMe(l)
  PROVE  IInv'
<1> USE SessionAssumption DEF IInv, AskMe, Render, Goto, display, calls, history
<1>1. TypeOK'
  BY DEF TypeOK, Labels, UnderWay, Call, Requests, Pages
<1> USE DEF Waits, LookUp, Call
<1> USE DEF TypeOK, Labels
<1>2. Requests'
  BY DEF Requests
<1>3. Pages'
  BY DEF Pages
<1>4. Entering'
  BY DEF Entering, Requests, Pages
<1>5. OneAtATime'
  BY DEF OneAtATime, Requests, Pages, UnderWay
<1>6. OwnName'
  BY DEF OwnName, OneAtATime, Requests, Pages
<1>7. Calm'
  BY DEF Calm, Requests, Pages, UnderWay, OneAtATime
<1>8. BlankOnlyByLookUp'
  BY DEF BlankOnlyByLookUp, Requests, Pages, Entering
<1> QED
  BY <1>1, <1>2, <1>3, <1>4, <1>5, <1>6, <1>7, <1>8

(* It is told. *)
LEMMA SignedInStep ==
  ASSUME IInv, NEW l \in Login, SignedIn(l)
  PROVE  IInv'
<1> USE SessionAssumption DEF IInv, SignedIn, Show, Render, Goto, display, calls, history
<1>1. TypeOK'
  BY DEF TypeOK, Labels, UnderWay, Call, Requests, Pages
<1> USE DEF Waits, LookUp, Call
<1> USE DEF TypeOK, Labels
<1>2. Requests'
  BY DEF Requests
<1>3. Pages'
  BY DEF Pages
<1>4. Entering'
  BY DEF Entering, Requests, Pages
<1>5. OneAtATime'
  BY DEF OneAtATime, Requests, Pages, UnderWay
<1>6. OwnName'
  BY DEF OwnName, OneAtATime, Requests, Pages
<1>7. Calm'
  BY DEF Calm, Requests, Pages, UnderWay, OneAtATime
<1>8. BlankOnlyByLookUp'
  BY DEF BlankOnlyByLookUp, Requests, Pages, Entering
<1> QED
  BY <1>1, <1>2, <1>3, <1>4, <1>5, <1>6, <1>7, <1>8

(* It is refused. *)
LEMMA MeRefusedStep ==
  ASSUME IInv, NEW l \in Login, MeRefused(l)
  PROVE  IInv'
<1> USE SessionAssumption DEF IInv, MeRefused, SignInFails, CurrentUser, Render, Fault, Goto, display, calls, history
<1>1. TypeOK'
  <2>1. pc' \in [Call -> Labels] /\ pc' = [pc EXCEPT ![l] = "done"]
    BY DEF TypeOK, Labels, Call
  <2>2. faults' \in 0 .. MaxFaults
    BY DEF TypeOK
  <2>3. page' \in {"login", "register", "inside", "blank"} /\ loading' \in BOOLEAN
    BY DEF TypeOK
  <2>4. form' # NoCall => form' \in Login \cap UnderWay' /\ page' = "login"
    BY <2>1 DEF TypeOK, UnderWay, Call, Pages
  <2>5. {user', cookie'} \subseteq Account \cup {NoUser}
    BY DEF TypeOK
  <2> QED
    BY <2>1, <2>2, <2>3, <2>4, <2>5 DEF TypeOK
<1> USE DEF Waits, LookUp, Call
<1> USE DEF TypeOK, Labels
<1>2. Requests'
  BY DEF Requests
<1>3. Pages'
  BY DEF Pages
<1>4. Entering'
  BY DEF Entering, Requests, Pages
<1>5. OneAtATime'
  BY DEF OneAtATime, Requests, Pages, UnderWay
<1>6. OwnName'
  BY DEF OwnName, OneAtATime, Requests, Pages
<1>7. Calm'
  BY DEF Calm, Requests, Pages, UnderWay, OneAtATime
<1>8. BlankOnlyByLookUp'
  BY DEF BlankOnlyByLookUp, Requests, Pages, Entering
<1> QED
  BY <1>1, <1>2, <1>3, <1>4, <1>5, <1>6, <1>7, <1>8

(* A sign-out is clicked. *)
LEMMA SignOutStep ==
  ASSUME IInv, NEW o \in Logout, SignOut(o)
  PROVE  IInv'
<1> USE SessionAssumption DEF IInv, SignOut, Goto, display, calls, history
<1>1. TypeOK'
  BY DEF TypeOK, Labels, UnderWay, Call, Requests, Pages
<1> USE DEF Waits, LookUp, Call
<1> USE DEF TypeOK, Labels
<1>2. Requests'
  BY DEF Requests
<1>3. Pages'
  BY DEF Pages
<1>4. Entering'
  BY DEF Entering, Requests, Pages
<1>5. OneAtATime'
  BY DEF OneAtATime, Requests, Pages, UnderWay
<1>6. OwnName'
  BY DEF OwnName, OneAtATime, Requests, Pages
<1>7. Calm'
  BY DEF Calm, Requests, Pages, UnderWay, OneAtATime
<1>8. BlankOnlyByLookUp'
  BY DEF BlankOnlyByLookUp, Requests, Pages, Entering
<1> QED
  BY <1>1, <1>2, <1>3, <1>4, <1>5, <1>6, <1>7, <1>8

(* It is answered. *)
LEMMA SignedOutStep ==
  ASSUME IInv, NEW o \in Logout, SignedOut(o)
  PROVE  IInv'
<1> USE SessionAssumption DEF IInv, SignedOut, Show, Render, Fault, Goto, display, calls, history
<1>1. TypeOK'
  BY DEF TypeOK, Labels, UnderWay, Call, Requests, Pages
<1> USE DEF Waits, LookUp, Call
<1> USE DEF TypeOK, Labels
<1>2. Requests'
  BY DEF Requests
<1>3. Pages'
  BY DEF Pages
<1>4. Entering'
  BY DEF Entering, Requests, Pages
<1>5. OneAtATime'
  BY DEF OneAtATime, Requests, Pages, UnderWay
<1>6. OwnName'
  BY DEF OwnName, OneAtATime, Requests, Pages
<1>7. Calm'
  BY DEF Calm, Requests, Pages, UnderWay, OneAtATime
<1>8. BlankOnlyByLookUp'
  BY DEF BlankOnlyByLookUp, Requests, Pages, Entering
<1> QED
  BY <1>1, <1>2, <1>3, <1>4, <1>5, <1>6, <1>7, <1>8

(* The cookie expires. *)
LEMMA ExpireStep ==
  ASSUME IInv, Expire
  PROVE  IInv'
<1> USE SessionAssumption DEF IInv, Expire, display, calls, history
<1>1. TypeOK'
  BY DEF TypeOK, Labels, UnderWay, Call, Requests, Pages
<1> USE DEF Waits, LookUp, Call
<1> USE DEF TypeOK, Labels
<1>2. Requests'
  BY DEF Requests
<1>3. Pages'
  BY DEF Pages
<1>4. Entering'
  BY DEF Entering, Requests, Pages
<1>5. OneAtATime'
  BY DEF OneAtATime, Requests, Pages, UnderWay
<1>6. OwnName'
  BY DEF OwnName, OneAtATime, Requests, Pages
<1>7. Calm'
  BY DEF Calm, Requests, Pages, UnderWay, OneAtATime
<1>8. BlankOnlyByLookUp'
  BY DEF BlankOnlyByLookUp, Requests, Pages, Entering
<1> QED
  BY <1>1, <1>2, <1>3, <1>4, <1>5, <1>6, <1>7, <1>8

(* Nothing changes. *)
LEMMA StutterStep ==
  ASSUME IInv, UNCHANGED vars
  PROVE  IInv'
<1> USE SessionAssumption DEF IInv, vars, display, calls, history
<1>1. TypeOK'
  BY DEF TypeOK, Labels, UnderWay, Call, Requests, Pages
<1> USE DEF Waits, LookUp, Call
<1> USE DEF TypeOK, Labels
<1>2. Requests'
  BY DEF Requests
<1>3. Pages'
  BY DEF Pages
<1>4. Entering'
  BY DEF Entering, Requests, Pages
<1>5. OneAtATime'
  BY DEF OneAtATime, Requests, Pages, UnderWay
<1>6. OwnName'
  BY DEF OwnName, OneAtATime, Requests, Pages
<1>7. Calm'
  BY DEF Calm, Requests, Pages, UnderWay, OneAtATime
<1>8. BlankOnlyByLookUp'
  BY DEF BlankOnlyByLookUp, Requests, Pages, Entering
<1> QED
  BY <1>1, <1>2, <1>3, <1>4, <1>5, <1>6, <1>7, <1>8

-----------------------------------------------------------------------------
LEMMA NextIInv == IInv /\ [Next]_vars => IInv'
BY RefreshedStep, FollowLinkStep, SubmitStep, TokenIssuedStep, TokenRefusedStep, AskMeStep,
   SignedInStep, MeRefusedStep, SignOutStep, SignedOutStep, ExpireStep, StutterStep
   DEF Next, Answer, Click, Terminating

LEMMA Invariance == Spec => []IInv
BY InitIInv, NextIInv, PTL DEF Spec

(* Types, and that a form waits for a sign-in under way on the login page. *)
THEOREM SessionTypes == Spec => []TypeOK
<1>1. IInv => TypeOK
  BY DEF IInv
<1> QED
  BY Invariance, <1>1, PTL

(* Whoever is shown is whose cookie is sent, as long as sign-ins are not     *)
(* submitted beside a look-up or another sign-in.                            *)
THEOREM NameIsOwn == Spec => []OwnName
<1>1. IInv => OwnName
  BY DEF IInv
<1> QED
  BY Invariance, <1>1, PTL

(* At rest UI and browser agree, if nothing crossed, failed or expired. *)
THEOREM RestIsAgreed == Spec => []AgreedAtRest
<1>1. IInv => AgreedAtRest
  BY DEF IInv, Calm, AgreedAtRest, UnderWay, Waits, LookUp, Call
<1> QED
  BY Invariance, <1>1, PTL

(* Only the look-up makes the login page give up. *)
THEOREM BlankIsByLookUp == Spec => []BlankOnlyByLookUp
<1>1. IInv => BlankOnlyByLookUp
  BY DEF IInv
<1> QED
  BY Invariance, <1>1, PTL
=============================================================================
