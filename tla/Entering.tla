------------------------------- MODULE Entering --------------------------------
(***************************************************************************)
(* How a page enters rooms (useRoom.ts: room and the effect for the        *)
(* address; RoomManage.tsx: CreateRoom): attempts, each with a websocket   *)
(* of its own, what becomes of them, and who is told. An attempt of the    *)
(* address bar and one of the form may be under way together, and the form *)
(* may go before its attempt ends. What is sent once in a room is Pages;   *)
(* the server's first message is a Room message (Pages!RoomComesFirst), so *)
(* the branch for another one is left out. Landing says when the form is   *)
(* there and has the next-state relation.                                  *)
(***************************************************************************)
EXTENDS Integers, Sequences

CONSTANTS
    Attempt,  \* calls of room; bounds their number
    None      \* undefined, or false

\* Why the server closes a connection, as roomErrorKind tells them apart.
Reason == {"alreadyExists", "notFound", "unauthorized", "disconnected"}
Event == {"room", "error"} \cup Reason
Kind == {"create", "join"}

ASSUME NoneAssumption == None \notin Attempt \cup Kind \cup {"ok", "failed"}

VARIABLES
    address,   \* of the page: no room, a room not yet asked for, asked for
    attempts,  \* the closures of room
    state,     \* React's state, an attempt for the room it has entered
    shown,     \* the state as last rendered
    form,      \* the state of CreateRoom
    told       \* how often the user was told of an attempt's end

entering == <<address, attempts, state, shown, form, told>>

\* gone: whether the form that asked is no more.
Unused == [ws |-> "none", kind |-> None, notifyInitialError |-> TRUE, first |-> TRUE,
           connected |-> FALSE, closeNotified |-> FALSE, gone |-> FALSE, result |-> None, events |-> <<>>]

NewForm == [pendingAction |-> None, attempt |-> None, answer |-> None]

EnteringInit ==
    /\ address \in {"none", "named"}
    /\ attempts = [a \in Attempt |-> Unused]
    /\ state = None
    /\ shown = None
    /\ form = NewForm
    /\ told = [a \in Attempt |-> 0]

-----------------------------------------------------------------------------
\* Attempts

Room(a, kind, notifyInitialError) ==
    /\ attempts[a] = Unused
    /\ attempts' = [attempts EXCEPT ![a] =
           [Unused EXCEPT !.ws = "connecting", !.kind = kind,
                          !.notifyInitialError = notifyInitialError]]

\* The effect of the first render.
EnterFromURL(a) ==
    /\ address = "named"
    /\ address' = "asked"
    /\ \E kind \in Kind : Room(a, kind, TRUE)
    /\ UNCHANGED <<state, shown, form, told>>

FormIsIdle == address # "named" /\ shown = None /\ form.pendingAction = None

\* create and join, by their buttons or those of a conflict.
Press(a, kind) ==
    /\ FormIsIdle
    /\ Room(a, kind, FALSE)
    /\ form' = [pendingAction |-> kind, attempt |-> a, answer |-> None]
    /\ UNCHANGED <<address, state, shown, told>>

\* validateRoomId says no.
Invalid ==
    /\ FormIsIdle
    /\ form' = [form EXCEPT !.answer = "error"]
    /\ UNCHANGED <<address, attempts, state, shown, told>>

\* newRoom, or another id is typed.
NewRoom ==
    /\ FormIsIdle
    /\ form' = [form EXCEPT !.answer = None]
    /\ UNCHANGED <<address, attempts, state, shown, told>>

-----------------------------------------------------------------------------
\* The browser and the server

Comes(a, ws, events) ==
    /\ attempts' = [attempts EXCEPT ![a].ws = ws, ![a].events = @ \o events]
    /\ UNCHANGED <<address, state, shown, form, told>>

\* onopen: the page asks.
Opens(a) == attempts[a].ws = "connecting" /\ Comes(a, "open", <<>>)

Enters(a) == attempts[a].ws = "open" /\ Comes(a, "entered", <<"room">>)

\* An address with create has joinIfExist, the form has not.
MayRefuse(a, reason) ==
    \/ reason = "disconnected"
    \/ attempts[a].kind = "join" /\ reason = "notFound"
    \/ attempts[a].kind = "create" /\ reason = "unauthorized"
    \/ attempts[a].kind = "create" /\ ~attempts[a].notifyInitialError
        /\ reason = "alreadyExists"

Closes(a, reason) ==
    /\ \/ attempts[a].ws = "open" /\ MayRefuse(a, reason)
       \/ attempts[a].ws = "entered" /\ reason = "disconnected"
    /\ Comes(a, "over", <<reason>>)

\* A connection that fails is an error and then closed.
Breaks(a) ==
    /\ attempts[a].ws \in {"connecting", "open", "entered"}
    /\ Comes(a, "over", <<"error", "disconnected">>)

\* leaveRoom closes the websocket; the browser reports it like any other end.
LeaveRoom ==
    /\ shown # None
    /\ attempts[shown].ws = "entered"
    /\ Comes(shown, "over", <<"disconnected">>)

-----------------------------------------------------------------------------
\* The handlers of a websocket

\* Mutant: what asks for another attempt forgets that this one is over.
FormAfterWithConflict(a, reason) ==
    IF form.attempt # a THEN form
    ELSE IF reason \in {"alreadyExists", "notFound"} THEN [form EXCEPT !.answer = "exists"]
    ELSE NewForm

\* What create or join make of a failure, when they still are of the form that is there.
FormAfter(a, reason) ==
    IF form.attempt # a THEN form
    ELSE [pendingAction |-> None, attempt |-> None,
          answer |-> CASE form.pendingAction = "create" /\ reason = "alreadyExists" -> "exists"
                       [] form.pendingAction = "join" /\ reason = "notFound" -> "missing"
                       [] OTHER -> "error"]

\* The first message.
OnRoom(a) ==
    /\ attempts[a].events # <<>> /\ Head(attempts[a].events) = "room"
    /\ attempts' = [attempts EXCEPT ![a].events = Tail(@), ![a].first = FALSE,
                                    ![a].connected = TRUE, ![a].result = "ok"]
    /\ state' = a
    /\ UNCHANGED <<address, shown, form, told>>

\* Mutant: an error and the close after it are both told.
ToastsAgain(a) == attempts[a].connected \/ attempts[a].notifyInitialError

\* notifyClose
Toasts(a) ==
    /\ ~attempts[a].closeNotified
    /\ attempts[a].connected \/ attempts[a].notifyInitialError

\* setState(false), whatever it is the room of.
StateAfter(a) == None

\* onclose and onerror, which only differ in their reason.
OnEnd(a) ==
    /\ attempts[a].events # <<>> /\ Head(attempts[a].events) # "room"
    /\ LET event == Head(attempts[a].events)
           answers == attempts[a].first
       IN  /\ attempts' = [attempts EXCEPT
                  ![a].events = Tail(@), ![a].first = FALSE,
                  ![a].result = IF answers THEN "failed" ELSE @,
                  ![a].closeNotified = @ \/ Toasts(a)]
           /\ state' = StateAfter(a)
           /\ told' = [told EXCEPT ![a] = @ + (IF Toasts(a) THEN 1 ELSE 0)
                                            + (IF answers /\ form.attempt = a THEN 1 ELSE 0)]
           /\ form' = IF answers THEN FormAfter(a, event) ELSE form
    /\ UNCHANGED <<address, shown>>

\* The form is no longer shown: the one shown later is a new one.
FormGoes ==
    /\ form' = NewForm
    /\ attempts' = [a \in Attempt |->
           [attempts[a] EXCEPT !.gone = @ \/ (form.attempt = a)]]

\* React renders after one or several updates: RouterLoadedConfig shows the room, or
\* RoomManage with a new form.
Render ==
    /\ shown # state
    /\ shown' = state
    /\ FormGoes
    /\ UNCHANGED <<address, state, told>>

-----------------------------------------------------------------------------
\* Properties

\* Of the end of an attempt the user is told once, by a toast or by the form that waits
\* for it, although an end may be two events (useRoom.ts: closeNotified, first and
\* notifyInitialError are for that): never twice, and not never, unless the form that
\* asked has gone.
ToldOnce ==
    \A a \in Attempt :
        /\ told[a] <= 1
        /\ attempts[a].ws = "over" /\ attempts[a].events = <<>> /\ ~attempts[a].gone =>
               told[a] = 1

\* A form whose buttons are disabled waits for an attempt that is not over for it, or that
\* was answered with a room, which takes the form's place if it lasts until it is rendered:
\* no order of other attempts, of logins and of views leaves a form behind that waits for
\* an attempt that failed or that asked for another one (create and join:
\* setPendingAction(undefined)).
FormWaitsForAnAnswer ==
    form.pendingAction # None =>
        \E a \in Attempt :
            /\ form.attempt = a
            /\ ~attempts[a].gone
            /\ attempts[a].ws # "none"
            /\ attempts[a].result = "ok"
                   \/ (attempts[a].ws = "over" => attempts[a].events # <<>>)
=============================================================================
