-------------------------------- MODULE Landing --------------------------------
(***************************************************************************)
(* A page before its room (useConfig.ts, LoginForm.tsx, Router.tsx,        *)
(* RoomManage.tsx; auth/auth.go and the /config route): what it believes   *)
(* about the login, the requests that change or read it, whose answers may *)
(* be lost or overtake each other, and the attempts of Entering, whose     *)
(* mode depends on the belief while the server goes by the cookie.  A new  *)
(* configuration is rendered at once.                                      *)
(***************************************************************************)
EXTENDS Entering

CONSTANT Call  \* calls of refetch, login and logout; bounds how many overlap

VARIABLES
    authMode,  \* of the server
    cookie,    \* whether the browser's cookie is of a user
    config,    \* what the page was told last
    showLogin, \* the state of RoomManage
    waits,     \* the call LoginForm waits for
    calls,     \* the requests of useConfig
    asked,     \* whether an attempt under way thinks and proves to be of a user
    disturbed  \* whether a request was lost, two overlapped, or the cookie changed by itself

login == <<authMode, cookie, config, showLogin, waits, calls, disturbed>>
vars == <<entering, login, asked>>

NoCall == [kind |-> None, at |-> "none", loggedIn |-> FALSE]

Nobody == [loggedIn |-> FALSE, Authenticated |-> FALSE]

Init ==
    /\ EnteringInit
    /\ authMode \in {"all", "turn", "none"}
    /\ cookie \in BOOLEAN
    /\ config = [loading |-> TRUE, loggedIn |-> FALSE]
    /\ showLogin = FALSE
    /\ waits = None
    /\ \E c \in Call :
           calls = [[d \in Call |-> NoCall] EXCEPT
                       ![c] = [kind |-> "refetch", at |-> "fetching", loggedIn |-> cookie]]
    /\ asked = [a \in Attempt |-> Nobody]
    /\ disturbed = FALSE

-----------------------------------------------------------------------------
\* What is shown

LoginVisible(loggedIn, show) == ~loggedIn /\ (show \/ authMode = "all")

ShowsLogin == ~config.loading /\ shown = None /\ LoginVisible(config.loggedIn, showLogin)
ShowsForm == ~config.loading /\ shown = None /\ ~LoginVisible(config.loggedIn, showLogin)

\* Going from one to the other: the one that goes forgets what it waits for.
Shows(loggedIn, show) ==
    IF shown = None /\ LoginVisible(loggedIn, show)
    THEN FormGoes /\ UNCHANGED <<address, state, shown, told>>
    ELSE UNCHANGED entering

\* The buttons "login" and "go back".
ShowLogin ==
    /\ ShowsForm /\ ~config.loggedIn
    /\ showLogin' = TRUE
    /\ Shows(config.loggedIn, TRUE)
    /\ UNCHANGED <<authMode, cookie, config, waits, calls, disturbed, asked>>

HideLogin ==
    /\ ShowsLogin /\ authMode # "all"
    /\ showLogin' = FALSE
    /\ waits' = None
    /\ UNCHANGED <<entering, authMode, cookie, config, calls, disturbed, asked>>

\* The room takes the place of RoomManage, or gives it back.
Renders ==
    /\ ~config.loading
    /\ Render
    /\ showLogin' = FALSE
    /\ waits' = None
    /\ UNCHANGED <<authMode, cookie, config, calls, disturbed, asked>>

-----------------------------------------------------------------------------
\* Requests

UnderWay == {c \in Call : calls[c] # NoCall}

Posts(c, kind) ==
    /\ c \notin UnderWay
    /\ calls' = [calls EXCEPT ![c] = [NoCall EXCEPT !.kind = kind, !.at = "posting"]]
    /\ disturbed' = (disturbed \/ UnderWay # {})
    /\ UNCHANGED <<entering, authMode, cookie, config, showLogin, asked>>

Login(c) == ShowsLogin /\ waits = None /\ Posts(c, "login") /\ waits' = c

\* The button stays while its request is under way.
Logout(c) ==
    ~config.loading /\ shown = None /\ config.loggedIn /\ Posts(c, "logout") /\ UNCHANGED waits

\* Mutant: what is asked for goes out with the old cookie.
FetchesAtOnce(c) == cookie

\* The cookie with which the configuration is fetched after the answer.
Fetches(c) == calls[c].kind = "login"

\* Authenticate and Logout answer with a cookie, and with it refetch asks.
Accepted(c) ==
    /\ calls[c].at = "posting"
    /\ cookie' = (calls[c].kind = "login")
    /\ calls' = [calls EXCEPT ![c].at = "fetching", ![c].loggedIn = Fetches(c)]
    /\ UNCHANGED <<entering, authMode, config, showLogin, waits, disturbed, asked>>

\* The finally of LoginForm, if it still is the one that is there.
WaitsAfter(c) == IF waits = c THEN None ELSE waits

\* The server says no, or a request is lost: then a configuration may stay unread.
Fails(c) ==
    /\ c \in UnderWay
    /\ calls' = [calls EXCEPT ![c] = NoCall]
    /\ waits' = WaitsAfter(c)
    /\ disturbed' = (disturbed \/ calls[c].at = "fetching")
    /\ UNCHANGED <<entering, authMode, cookie, config, showLogin, asked>>

\* setConfig, with an answer that is as old as its request.
Fetched(c) ==
    /\ calls[c].at = "fetching"
    /\ calls' = [calls EXCEPT ![c] = NoCall]
    /\ config' = [loading |-> FALSE, loggedIn |-> calls[c].loggedIn]
    /\ waits' = IF LoginVisible(calls[c].loggedIn, showLogin) THEN WaitsAfter(c) ELSE None
    /\ Shows(calls[c].loggedIn, showLogin)
    /\ UNCHANGED <<authMode, cookie, showLogin, disturbed, asked>>

\* Another tab logs in or out, or the session ends.
Elsewhere ==
    /\ cookie' = ~cookie
    /\ disturbed' = TRUE
    /\ UNCHANGED <<entering, authMode, config, showLogin, waits, calls, asked>>

-----------------------------------------------------------------------------
\* Attempts

\* Mutant: who may not use TURN asks for it all the same.
AlwaysTurn(loggedIn) == "turn"

authModeToRoomMode(loggedIn) == IF ~loggedIn /\ authMode = "turn" THEN "stun" ELSE "turn"

Asks(a) ==
    /\ asked' = [asked EXCEPT ![a].loggedIn = config.loggedIn]
    /\ UNCHANGED login

Presses(a) == ShowsForm /\ (\E kind \in Kind : Press(a, kind)) /\ Asks(a)
EntersFromURL(a) == ~config.loading /\ EnterFromURL(a) /\ Asks(a)

\* The cookie goes with the request for the websocket.
OpensAs(a) ==
    /\ Opens(a)
    /\ asked' = [asked EXCEPT ![a].Authenticated = cookie]
    /\ UNCHANGED login

\* Create.Execute, where the room does not exist yet, with the mode the page asked for.
Authorized(a) ==
    \/ asked[a].Authenticated
    \/ authMode = "none"
    \/ authMode = "turn" /\ authModeToRoomMode(asked[a].loggedIn) = "stun"

Answered(a) == asked' = [asked EXCEPT ![a] = Nobody] /\ UNCHANGED login

Accepts(a) ==
    /\ attempts[a].kind = "join" \/ attempts[a].notifyInitialError \/ Authorized(a)
    /\ Enters(a)
    /\ Answered(a)

Refuses(a) ==
    /\ \E reason \in Reason :
           (reason = "unauthorized" => ~Authorized(a)) /\ Closes(a, reason)
    /\ Answered(a)

IsLost(a) == Breaks(a) /\ Answered(a)

Handles(a) == (OnRoom(a) \/ OnEnd(a)) /\ UNCHANGED <<login, asked>>

\* What else the user may do with the form, and with the room.
Retypes == ShowsForm /\ (Invalid \/ NewRoom) /\ UNCHANGED <<login, asked>>
Leaves == LeaveRoom /\ UNCHANGED <<login, asked>>

-----------------------------------------------------------------------------

Next ==
    \/ ShowLogin \/ HideLogin \/ Renders \/ Elsewhere
    \/ \E c \in Call : Login(c) \/ Logout(c) \/ Accepted(c) \/ Fails(c) \/ Fetched(c)
    \/ Retypes \/ Leaves
    \/ \E a \in Attempt :
        \/ EntersFromURL(a) \/ Presses(a)
        \/ OpensAs(a) \/ Accepts(a) \/ Refuses(a) \/ IsLost(a) \/ Handles(a)

Spec == Init /\ [][Next]_vars

-----------------------------------------------------------------------------
\* Properties

\* What the form offers the server accepts: to create a room is refused for want of a
\* login only if the cookie is not what the page was told (authModeToRoomMode and
\* loginVisible here, Create.Execute's switch there).
ModeIsAccepted ==
    \A a \in Attempt :
        (/\ attempts[a].ws = "open" /\ ~attempts[a].notifyInitialError
         /\ asked[a].loggedIn = asked[a].Authenticated) => Authorized(a)

\* A page that does one thing after another, loses no request and has its cookie to
\* itself ends up knowing whether it is logged in (login and logout await refetch).
ConfigIsCurrent ==
    ~disturbed /\ UnderWay = {} => ~config.loading /\ config.loggedIn = cookie
=============================================================================
