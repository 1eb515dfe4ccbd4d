--------------------------------- MODULE Stage ---------------------------------
(***************************************************************************)
(* What a page in a room shows and shares (ui/src/Room.tsx; share and      *)
(* stopShare of useRoom.ts): which stream is on the stage, whether it can  *)
(* be heard, and the captures of the screen from the picker to their end.  *)
(* React renders when it likes; effects see what was rendered, and run     *)
(* before the next render.  Clicks and messages come at any time.  The     *)
(* room that is shown need not be that of conn.current: while an attempt   *)
(* to enter is under way, the form may start another one.                  *)
(***************************************************************************)
EXTENDS Sequences, SequencesExt

CONSTANTS
    Attempt,  \* calls of room, each with a websocket; taken again when over
    Session,  \* streams of others, by their session
    Capture,  \* streams of the user's screen
    Host,     \* the symbol HostStream
    None      \* undefined, null, or a state that is false

ASSUME StreamsAssumption == Session \cap Capture = {}
ASSUME NamesAssumption == {Host, None} \cap (Session \cup Capture) = {} /\ Host # None
ASSUME AttemptsAssumption == None \notin Attempt

VARIABLES
    conn,      \* conn.current: the attempt that was started last
    ws,        \* the websocket of each attempt, "in" once its Room message has come
    sharing,   \* attempts over which the server was told of a share, and not of its stop
    view,      \* React's state: of useRoom, and selectedStream
    seen,      \* the same, as last rendered
    effects,   \* whether what was rendered has effects to run
    listening, \* the stream whose listeners useHasAudioTrack has set
    hasAudio,  \* hasAudioTrack
    video,     \* srcObject of the stage
    sound,     \* streams with a live audio track
    silenced,  \* those whose ended event is on its way
    pickers,   \* calls of getDisplayMedia
    capture,   \* stream.current
    live,      \* captures that run
    ended      \* those whose ended event is on its way

server == <<conn, ws, sharing>>
stage == <<view, seen, effects, listening, hasAudio, video>>
media == <<sound, silenced, pickers, capture, live, ended>>
vars == <<server, stage, media>>

Nothing == [ws |-> None, host |-> None, clients |-> <<>>, selected |-> None]

Init ==
    /\ conn = None /\ ws = [a \in Attempt |-> "none"] /\ sharing = {}
    /\ view = Nothing /\ seen = Nothing
    /\ effects = FALSE
    /\ listening = None /\ hasAudio = FALSE /\ video = None
    /\ sound = {} /\ silenced = {}
    /\ pickers = {} /\ capture = None /\ live = {} /\ ended = {}

-----------------------------------------------------------------------------
\* What is on the stage

Present(v, s) == IF s = Host THEN v.host # None ELSE Contains(v.clients, s)

\* The stream a view shows.
Stream(v) ==
    IF ~Present(v, v.selected) THEN None
    ELSE IF v.selected = Host THEN v.host ELSE v.selected

\* Mutant: a stream that went is not replaced.
SelectionOnce(v) == IF v.selected # None THEN v.selected
    ELSE IF v.host # None THEN Host
    ELSE IF v.clients # <<>> THEN Head(v.clients) ELSE None

\* What the first effect of Room makes of a selection.
Selection(v) ==
    IF Present(v, v.selected) THEN v.selected
    ELSE IF v.host # None THEN Host
    ELSE IF v.clients # <<>> THEN Head(v.clients) ELSE None

\* React commits the updates of the click, of the messages, or both; of a room that was
\* left it removes the component.
Render ==
    /\ ~effects
    /\ \E next \in {view, [view EXCEPT !.selected = seen.selected],
                    [seen EXCEPT !.selected = view.selected]} :
        /\ next # seen
        /\ IF next.ws # None
           THEN /\ seen' = next
                /\ effects' = TRUE
                /\ UNCHANGED <<view, listening, hasAudio, video>>
           ELSE /\ seen' = Nothing
                /\ view' = [view EXCEPT !.selected = None]
                /\ listening' = None /\ hasAudio' = FALSE /\ video' = None
                /\ UNCHANGED effects
    /\ UNCHANGED <<server, media>>

\* Mutant: the listeners are set once.
ListensOnce(s) ==
    IF listening # None \/ s = None THEN UNCHANGED <<listening, hasAudio>>
    ELSE listening' = s /\ hasAudio' = (s \in sound)

\* The effect of useHasAudioTrack, when its stream is another one.
Listens(s) ==
    IF s = listening THEN UNCHANGED <<listening, hasAudio>>
    ELSE listening' = s /\ hasAudio' = (s \in sound)

\* The effects of Room, in their order.
RunEffects ==
    /\ effects
    /\ effects' = FALSE
    /\ view' = IF Selection(seen) = seen.selected THEN view
               ELSE [view EXCEPT !.selected = Selection(seen)]
    /\ Listens(Stream(seen))
    /\ video' = Stream(seen)
    /\ UNCHANGED <<server, seen, media>>

\* A preview is clicked: previews are of the streams that are not selected.
Select(s) ==
    /\ seen.ws # None
    /\ s # seen.selected /\ Present(seen, s)
    /\ view' = [view EXCEPT !.selected = s]
    /\ UNCHANGED <<server, seen, effects, listening, hasAudio, video, media>>

\* The audio of a stream ends, maybe before its video, and the listener hears of it.
FallsSilent(s) ==
    /\ s \in sound
    /\ sound' = sound \ {s}
    /\ silenced' = silenced \cup {s}
    /\ UNCHANGED <<server, stage, pickers, capture, live, ended>>

HearsOf(s) ==
    /\ s \in silenced
    /\ silenced' = silenced \ {s}
    /\ hasAudio' = IF listening = s THEN s \in sound ELSE hasAudio
    /\ UNCHANGED <<server, view, seen, effects, listening, video,
                   sound, pickers, capture, live, ended>>

-----------------------------------------------------------------------------
\* The room

\* Ids and streams are never used again: one that nothing mentions may be a new one.
Unused(s) ==
    s \notin {view.host, seen.host, view.selected, seen.selected, listening, video, capture}
        \cup ToSet(view.clients) \cup ToSet(seen.clients)
        \cup sound \cup silenced \cup pickers \cup live \cup ended

\* room(), for the address or by the form: whatever is under way goes on.
Connect(a) ==
    /\ seen.ws = None
    /\ ws[a] = "none"
    /\ conn' = a
    /\ ws' = [ws EXCEPT ![a] = "connecting"]
    /\ UNCHANGED <<stage, media, sharing>>

Opens(a) ==
    /\ ws[a] = "connecting"
    /\ ws' = [ws EXCEPT ![a] = "open"]
    /\ UNCHANGED <<conn, stage, media, sharing>>

\* The first message: a room without streams, in place of one that is shown and whatever
\* is captured.
Enters(a) ==
    /\ ws[a] = "open"
    /\ ws' = [ws EXCEPT ![a] = "in"]
    /\ view' = [view EXCEPT !.ws = a, !.host = None, !.clients = <<>>]
    /\ UNCHANGED <<conn, seen, effects, listening, hasAudio, video, media, sharing>>

\* onclose, with an onerror ahead of it in the same task or not: no room is shown, whose
\* ever it was; the captures stay.
Closes(a) ==
    /\ ws[a] # "none"
    /\ ws' = [ws EXCEPT ![a] = "none"]
    /\ sharing' = sharing \ {a}
    /\ view' = [Nothing EXCEPT !.selected = view.selected]
    /\ UNCHANGED <<conn, seen, effects, listening, hasAudio, video, media>>

\* onTrack: a stream with or without audio.
Arrives(s) ==
    /\ view.ws # None /\ Unused(s)
    /\ view' = [view EXCEPT !.clients = Append(@, s)]
    /\ sound' \in {sound, sound \cup {s}}
    /\ UNCHANGED <<server, seen, effects, listening, hasAudio, video,
                   silenced, pickers, capture, live, ended>>

\* EndShare, or done; a session is in the list once.
Goes(s) ==
    /\ \E i \in DOMAIN view.clients :
        /\ view.clients[i] = s
        /\ view' = [view EXCEPT !.clients = RemoveAt(@, i)]
    /\ sound' = sound \ {s}
    /\ UNCHANGED <<server, seen, effects, listening, hasAudio, video,
                   silenced, pickers, capture, live, ended>>

-----------------------------------------------------------------------------
\* Sharing

\* conn.current.send: it throws while the websocket is connecting, and keeps silent when
\* it is closed.
Throws == \E a \in Attempt : a = conn /\ ws[a] = "connecting"
Reached == {a \in Attempt : a = conn /\ ws[a] \in {"open", "in"}}

ShowsHost(c) == view' = IF view.ws # None THEN [view EXCEPT !.host = c] ELSE view

\* share, as far as the picker; also a second time, by a button not yet rendered anew.
Share(c) ==
    /\ seen.ws # None /\ seen.host = None
    /\ Unused(c)
    /\ pickers' = pickers \cup {c}
    /\ UNCHANGED <<server, stage, sound, silenced, capture, live, ended>>

\* The user picks a screen, wherever the page has got to.  It is shown before it is told.
Picks(c) ==
    /\ c \in pickers
    /\ pickers' = pickers \ {c}
    /\ capture' = c
    /\ live' = live \cup {c}
    /\ sound' \in {sound, sound \cup {c}}
    /\ ShowsHost(c)
    /\ sharing' = sharing \cup Reached
    /\ UNCHANGED <<conn, ws, seen, effects, listening, hasAudio, video, silenced, ended>>

Declines(c) ==
    /\ c \in pickers
    /\ pickers' = pickers \ {c}
    /\ UNCHANGED <<server, stage, sound, silenced, capture, live, ended>>

\* Mutant: the server need not know.
StopsUntold ==
    /\ live' = live \ {capture}
    /\ sound' = sound \ {capture}
    /\ capture' = None
    /\ ShowsHost(None)
    /\ UNCHANGED sharing

\* stopShare: tracks that are stopped fire no event.  It tells before it shows, so that
\* what was shown stays when send throws.
Stops ==
    /\ live' = live \ {capture}
    /\ sound' = sound \ {capture}
    /\ capture' = None
    /\ sharing' = sharing \ Reached
    /\ IF Throws THEN UNCHANGED view ELSE ShowsHost(None)

StopShare ==
    /\ seen.ws # None /\ seen.host # None
    /\ Stops
    /\ UNCHANGED <<conn, ws, seen, effects, listening, hasAudio, video, silenced, pickers, ended>>

\* The user stops a capture by the browser's own button, or closes what it shows.
CaptureEnds(c) ==
    /\ c \in live
    /\ live' = live \ {c}
    /\ ended' = ended \cup {c}
    /\ silenced' = silenced \cup ({c} \cap sound)
    /\ sound' = sound \ {c}
    /\ UNCHANGED <<server, stage, pickers, capture>>

\* The listener of a capture stops whatever is shared by then.
OnEnded(c) ==
    /\ c \in ended
    /\ ended' = ended \ {c}
    /\ Stops
    /\ UNCHANGED <<conn, ws, seen, effects, listening, hasAudio, video, silenced, pickers>>

\* leaveRoom: stopShare, be it in vain, and the end of the room that was rendered, which
\* the browser reports later.
LeaveRoom ==
    /\ seen.ws # None
    /\ Stops
    /\ ws' = [ws EXCEPT ![seen.ws] = IF @ = "none" THEN @ ELSE "closing"]
    /\ UNCHANGED <<conn, seen, effects, listening, hasAudio, video, silenced, pickers, ended>>

-----------------------------------------------------------------------------

User ==
    \/ StopShare \/ LeaveRoom
    \/ \E s \in Session \cup {Host} : Select(s)
    \/ \E c \in Capture : Share(c) \/ Picks(c) \/ Declines(c) \/ CaptureEnds(c)

Browser ==
    \/ Render \/ RunEffects
    \/ \E a \in Attempt : Connect(a) \/ Opens(a) \/ Enters(a) \/ Closes(a)
    \/ \E s \in Session : Arrives(s) \/ Goes(s)
    \/ \E s \in Session \cup Capture : FallsSilent(s) \/ HearsOf(s)
    \/ \E c \in Capture : OnEnded(c)

Next == User \/ Browser

Spec == Init /\ [][Next]_vars

-----------------------------------------------------------------------------
\* Properties

Settled == seen.ws # None /\ seen = view /\ ~effects

\* As long as there is a stream one of them is on the stage, and it is the one the page
\* takes for selected: no order of arrivals, ends and clicks leaves the stage dark or
\* with a stream that went (the first effect of Room, and the one that sets srcObject).
StageIsLit ==
    Settled /\ (\E s \in Session \cup {Host} : Present(seen, s)) =>
        Present(seen, seen.selected) /\ video = Stream(seen)

\* The volume button is there exactly when the stream on the stage can be heard, unless
\* the browser has yet to tell that it fell silent, or it is an own screen that was
\* stopped and stays on the stage, since the server could not be told (useHasAudioTrack,
\* stopShare).
VolumeButtonIsRight ==
    Settled /\ Stream(seen) \notin silenced /\ (Stream(seen) \in Capture => Stream(seen) = capture) =>
        hasAudio = (Stream(seen) \in sound)

\* In the room of the attempt that was started last, the screen a page shows as its own is
\* the one that "stop" stops, and the server knows of it; and who shares for the server of
\* that attempt captures a screen, or the browser has yet to tell the page that the capture
\* ended.  Pickers answered late, shares that overtake each other, rooms left and entered
\* again, and other attempts that open, enter and end meanwhile leave no share of nothing
\* behind (share, stopShare, leaveRoom).  Of a room that is shown while a later attempt is
\* under way or has failed this does not hold: share and stopShare speak to that attempt.
ShareIsAsShown ==
    /\ view.host # None /\ view.ws = conn =>
           view.host = capture /\ (ws[conn] = "in" => conn \in sharing)
    /\ conn \in sharing => capture \in live \cup ended
=============================================================================
