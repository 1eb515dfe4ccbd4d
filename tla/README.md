# Screego in TLA+

Screego is a screen-sharing server: pages open a websocket to a Go server, meet in rooms,
and send each other their screens over WebRTC, the server passing on offers, answers and
ICE candidates and handing out TURN credentials. This directory holds TLA+ modules of the
parts that decide who sees what, configurations that check them with TLC, and proofs that
TLAPS checks. Paths below are those of the repository.

* [The system](#the-system)
* [The modules](#the-modules)
* [The runs](#the-runs)
* [Fairness](#fairness)
* [The proofs](#the-proofs)
* [What is not modelled](#what-is-not-modelled)
* [Plan](#plan)

## The system

| part | state | operations | module |
|---|---|---|---|
| **main loop**, `ws/rooms.go`, `ws/event_*.go` | `Rooms.Rooms`, `Rooms.connected` | one event at a time off `Incoming`: Connected, Create, Join, Name, StartShare, StopShare, HostOffer, HostICE, ClientAnswer, ClientICE, Disconnected, Health | `Rooms` |
| **room**, `ws/room.go`, `ws/visitor.go` | users (name, visitor, owner, streaming), sessions, mode, close-on-owner-leave | `newSession`, `closeSession`, `notifyInfoChanged`, `nextGuestName`, `visitorOwner`, `hasVisitor` | `Room` |
| **connection**, `ws/client.go`, `ws/once.go` | a reader, a writer, a channel of one message, the `once` that reports the end | `Upgrade`, `startReading`, `startWriteHandler`, `CloseOnError`, `CloseOnDone`, `writeTimeout`, `Count` | `Connection` |
| **TURN credentials**, `turn/server.go` | `InternalServer.lookup` | `Credentials`, `Disallow` | `Rooms` |
| **counters**, `ws/prometheus.go` | users joined and left, rooms and sessions created and closed | incremented by the handlers | `Rooms` |
| **page**, `ui/src/useRoom.ts` | the websocket, `host.current`, `client.current`, `stream.current` | `room`, its `onmessage`, `hostSession`, `clientSession`, `share`, `stopShare`, `leaveRoom` | `Pages` |
| **relay ports**, `turn/portrange.go`, `turn/none.go`, `turn/server.go`, `config/config.go` | the range, the ports listened on | both `AllocatePacketConn`, `parsePortRange`, `Generator.AllocatePacketConn` | `RelayPorts`, `Allocation` |
| **external address**, `config/ipdns/dns.go` | cached addresses, error and expiry behind a mutex | `Get`, called by allocations and by the main loop | `AddressCache`, `Allocation` |
| **process**, `cmd/serve.go`, `config/config.go`, `config/ip.go`, `server/server.go` | the configuration and its provider, the channel of reports, two goroutines | `config.Get`, `parseIPProvider`, `serveCmd`, `Start`, `listenAndServe`, `shutdownOnInterruptSignal`, `waitForServerToClose` | `Lifecycle` |
| **entering a room**, `ui/src/useRoom.ts`, `ui/src/RoomManage.tsx` | for each attempt the flags of a closure; the page's state, the form | `room` and its `onclose` and `onerror`, the effect for the address, `create`, `join` | `Entering`, `Landing` |
| **login**, `ui/src/useConfig.ts`, `ui/src/LoginForm.tsx`, `ui/src/Router.tsx`, `auth/auth.go` | the cookie, the configuration a page was told, requests under way | `refetch`, `login`, `logout`, `Authenticate`, `Logout`, `authModeToRoomMode`, `loginVisible` | `Landing` |
| **stage**, `ui/src/Room.tsx`, `ui/src/useRoom.ts` | the selected stream, listeners, `srcObject`, captures and pickers, and what of it is rendered | the effects of `Room`, `useHasAudioTrack`, the previews, `share`, `stopShare`, `leaveRoom` | `Stage` |
| **settings**, `ui/src/settings.ts`, `ui/src/SettingDialog.tsx`, `ui/src/NumberField.tsx` | `localStorage`, the room's copy, the dialog's | `loadSettings`, `saveSettings`, `useSettings`, the dialog, their use in `share` and `hostSession` | `Settings` |

The rest (translation, markup, HTTP routing, logging) is listed with its reasons under [What is not modelled](#what-is-not-modelled).

**How they interact.** A page opens a websocket; `Rooms.Upgrade` sends Connected to the
loop and starts a reader and a writer. Readers turn the page's JSON into events for the
unbuffered channel `Incoming`. The loop runs one event to its end; handlers change rooms,
call the TURN server and the address provider synchronously, and write to connections
through a channel of one message, waiting up to two seconds for each. When a reader or a
writer fails, a goroutine of its own sends Disconnected; when the loop wants a connection
closed it writes CloseWriter. Pages react to HostSession and ClientSession by making
`RTCPeerConnection`s, and to EndShare by closing them. The TURN server asks the same provider
for its address as the loop, behind one mutex. What a page asks for when it creates a room
depends on what it was told of its login; what the loop grants depends on the cookie.

**What is hard.**

* Handlers touch four things that must agree: `connected`, the users of a room, its
  sessions with their credentials, and what every page has been told. Several of them fail
  half way (the address lookup of Join and StartShare) and then disconnect the caller, which
  may close the room and throw out everybody else.
* One visitor may have several tabs, that is, several connections, one guest name and one
  ownership, and tabs come and go in any order.
* A host may share again without stopping, and has several sessions with every viewer then.
* The end of a connection may be noticed by its reader, its writer and the loop together.
* The loop writes to writers, and writers report to the loop.
* A page awaits between making an offer and keeping its peer, while its share may end.
* A connection that fails is two events for a page, before or after the room; an attempt of
  the address and one of the form may be under way together; React renders when it likes.
* Requests of a page (its configuration, login, logout) overlap and get lost, and the answers
  are set in the order they come; any of them may take the form away while it waits.
* Effects see what was rendered, while streams come and go, captures end, pickers of an
  earlier room are answered and previews are clicked.
* `localStorage` has what other versions left and other tabs write.
* An allocation asks for the address with its port bound, behind the lock of a lookup.
* The server's end is reported over one channel by two goroutines, one of which is silent
  when all goes well.

## The modules

`Maps` has Go maps as functions on the keys present, with `Put` and `Without`; `Room` has
the pure functions of a room, and what a page makes of its list of people
(`aggregateUsers`).

**`Rooms`** is the main loop. Its variables are the fields of `Rooms`, the `lookup` of the
TURN server, `metrics` (each pair of counters as a difference) and `told`: for each
connection what the messages written to it add up to, that is, the users of its last Room
message, the sessions announced and not ended since, and how often it was told to close.
One message is one action, since the loop runs it to its end. A handler is an operator from
the state as a value (`Now`) to the state it leaves (`Become`), so that an error path is
`Dropped` applied to whatever the handler had already done, as in `Rooms.Start`, where a
failed event makes the loop execute `executeNoError`. The table gives the chains:

| code | in `Rooms` |
|---|---|
| `Connected.Execute` | `Connect` |
| `Create.Execute` | `Create` = `MayCreate`, then `CreateRoom`, or `JoinRoom` when the room exists and the page asks for that |
| `Join.Execute` | `Joined` (name, owner, users, notify), then `ShownTo` (a session with every streamer), or `Dropped` when the address lookup fails |
| `StartShare.Execute`, `StopShare.Execute` | `Streaming`, `Shown` or `Dropped`; `Stopped` |
| `Name.Execute` | `Name`: notifies, and changes nothing, names being those of visitors |
| the four relays | `Relayed`: passed on, refused, or ignored when the session is gone |
| `Disconnected.executeNoError` | `Dropped` = `Leave` (`RemoveUser`, then `CloseRoom` or notify) |

A connection stands for its xid, a session record (host, client, serial) for the session's,
`Serial` bounding how many one host opens to one client at a time. A visitor id is the
trimmed one; a blank one becomes the connection's id. A guest name is its number. An address
lookup fails or not at every call. An id the loop is done with is in none of its maps, so
`Client` need not grow: a later connection may take it.

**`ScreenShare`** says what users are promised, without messages, sessions or credentials:
people enter and leave places, some share, and every shared screen is fed to exactly the
others in the place. `Rooms` implements it (`ImplementsScreenShare`): a session is a feed.

**`Connection`** has the goroutines and channels that `Rooms` leaves out: for each
connection the program counters of the goroutine in `Upgrade`, the reader, the writer and
the one that `CloseOnError` starts; the `once`, whose flag is read outside its lock (`Load`)
and again under it (`Lock`); the channel of one message and the queue at `Incoming`. A
handler is reduced to whom it writes to and whom it closes, in the three shapes the handlers
of `Rooms` have (`Succeeds`, `Drops`, `ClosesRoom`) and for any set of members; each write is
a step, which may time out. `Count` is `Ask`, `AcceptHealth`, `Respond` and `GiveUp`.

**`Pages`** composes `Rooms` with the pages: `page` has the refs and closures of `useRoom`,
`toServer` and `toPage` the messages under way. `Serve` takes a page's next message, runs the
action of `Rooms` and writes to every page what it changed in `told`, in the order of the
handler: Join notifies before it opens sessions, everyone else after. Handlers of the page
that await are two actions (`OnHostSession` and `Offer`, `OnHostOffer` and `Answer`), and
anything may happen in between. Two facts about browsers are used:
`RTCPeerConnection.close` fires no event, so a peer closed by EndShare stays in its map,
closed; and `onconnectionstatechange` of the other end fires sometime afterwards. A peer may
also fail of itself as soon as it has both descriptions: the host's once it has the answer
(`HostFails`), the viewer's once it has made it, be it on its way still (`LosesPeer`). stopShare
may run without a share, when an event of the capture comes late or a button is pressed again,
and tells the server all the same (`StopIsPressed`). A page
that has lost its websocket is "shut" and does not enter again; in the code it would be a
page like any other, with a new connection (`Entering` has that side of it). The messages are delivered: what the loop's two
seconds may lose is `Connection`'s.

**`Allocation`** is an allocation of the TURN server, from the draw of its port to its end. It
composes two modules that have no next-state relation of their own in its runs: `RelayPorts`,
the arithmetic of the port range in unsigned integers of any width, with the ranges
`config.Get` accepts and the draws, misses and retries of `portrange.go`; and `AddressCache`,
`DNS.Get` for several callers at its mutex, over a clock. `Binds` is where the one calls the
other, `Loop` is the main loop as one more caller. Ports requested by the pion library (for
even ports) are not in it.

**`Lifecycle`** is the process. A configuration is drawn at the start, with lists of
addresses that are v4, v6, a domain or no addresses at all; the settings that are merely
valid or not are one flag. `Get` refuses it or not, `LookUp` to `StartTurn` are `serveCmd`
in its order, each of which may fail; `StartServer` starts the goroutine that serves (`serve`),
`Notify` the one that waits for an interrupt (`stop`), and `WaitForServerToClose` takes their reports
in either order. `exit` is how the process
ends; when Start returns, the other goroutines go with it. An interrupt before `signal.Notify` kills, be it that
requests are served already (`Kill`); a second one is ignored.

**`Entering`** is how a page gets into rooms. `attempts` has for each call of `room` the
variables of its closure and the events its websocket has queued; `state` is React's state and
`shown` what was last rendered, since handlers of several events may run before a render. The
browser's rules are used as they are documented: a websocket that fails fires `error` and then
`close`. The continuation of `await room(...)` in the form runs in the same action as the
handler that resolves the promise, being a microtask. Buttons of a form that is busy cannot be
pressed.

**`Landing`** composes that with the login, and has the next-state relation of both. A call of
`useConfig` is two requests: it posts (`Posts`, `Accepted`) and then fetches the configuration
(`Fetched`), with the cookie it had when the server answered the first; either may fail. The
two views of `RoomManage` and the room take each other's place (`Shows`, `Renders`): a form that goes
(`FormGoes`) leaves its attempt behind, and a login form the call it waits for. `asked` keeps for each
attempt what the page believed and what the server saw, for `Create.Execute` to judge
(`Authorized`). `disturbed` records what the code has no remedy for: overlapping or lost
requests, and cookies that change elsewhere. A configuration is rendered at once; everything
else may wait.

**`Stage`** is a page in a room as its user sees it. `view` is React's state, `seen` what was
rendered, which effects and clicks go by (`RunEffects`, `Select`); `Render` may take the
updates of the connection, of the clicks, or both. The state of `useHasAudioTrack` is
`listening` and `hasAudio`, and the events of tracks are queued (`silenced`, `ended`). Sharing
is `Share`, which opens a picker, and `Picks`, wherever the page has got to by then; a
capture ends by `stopShare`, `leaveRoom`, or the browser's own button. Calls of `room` overlap
there as they do in `Landing`: `ws` has the websocket of each `Attempt`, `conn` is `conn.current`,
which each call replaces at once (`Connect`), and `view.ws` the websocket of the room that is
shown, which need not be the same one. `share` and `stopShare` send over `conn.current`, whatever
is shown, and what they send is told to one attempt (`Reached`), to none when that is over, or
throws when it is still connecting (`Throws`); `share` shows before it sends and `stopShare` sends
before it shows, so that the first leaves a share on the screen that nobody was told of and the
second one that has stopped. `sharing` are the attempts whose server was last told of a share.
Streams of others come and go as `Pages` lets them, one stream for each session.

**`Settings`** has what `localStorage` may contain, as far as `loadSettings` tells it apart
(each field absent, known or something else), the room's copy and the dialog's, and the two
places that read the storage again: `share`, for the capture, and `hostSession`, for every
viewer. A preferred codec is loaded unchecked, so that it may be of another type (`Strange`,
`Invalid`); the codecs the dialog offers are those the browser sends (`Sendable`), a session sorts
those it receives (`Native`), if the browser can (`HostSession`). Frame rates are counted in halves, since the input field takes 1.5 and only loading
rounds. `SavesElsewhere` is another tab.

The modules whose names end in `Proofs` have the theorems, the `MC` modules the symmetries of
the runs. Definitions commented "Mutant" are wrong on purpose and used by nothing: each is
a way the code could break, and exchanging the definition after it for the mutant makes TLC
find one property violated (`PROJECT.json` says which).

## The runs

| run | instance | properties | size |
|---|---|---|---|
| `rooms` | 3 connections, a visitor id and blank, 2 rooms, stun and turn, 2 serials | 10 invariants, 2 action properties, refinement | 42 thousand states |
| `goroutines` | 2 connections, symmetric | `OneFarewell`, `NoGhosts` | 2.0 million |
| `endings` | 1 connection, 1 health probe, fair | `LostOnesLeave`, `CloseWriterCloses`, `LoopReturns` | 7 thousand |
| `comment` | 1 connection, fair | `WriterExitsOnErrors` is violated | |
| `pages` | 2 pages, 1 room, 2 shares, 2 serials | `RoomComesFirst`, `OfferFindsItsPeer`, `PeersHaveSessions`, `StoppedMeansStopped`, `HandshakesGoOn` | 412 thousand |
| `streams` | 2 pages, 1 room, 1 share, fair | `SessionsConnect`, `ViewersGoDark` | 14 thousand |
| `allocation` | ports of 2 bits, 2 allocations and the loop, 2 tries, a minute of 2, a second of 1, 3 ticks, fair | `PortsInRange`, `AnswersAreFresh`, `ResolverIsSpared`, `CallsReturn` | 213 thousand |
| `lifecycle` | lists of up to 3 addresses of two v4, one v6, a domain, garbage; 1 request, fair | `AcceptedAddressesAreUsed`, `InterruptEnds` | 99 thousand |
| `shutdown` | as `lifecycle`, lists of 1 address | `FailedShutdownIsReported` is violated | |
| `landing` | 2 attempts, 2 calls, symmetric | `ToldOnce`, `FormWaitsForAnAnswer`, `ModeIsAccepted`, `ConfigIsCurrent` | 2.1 million |
| `stage` | 2 attempts, 1 stream of others, 2 captures, symmetric | `StageIsLit`, `VolumeButtonIsRight`, `ShareIsAsShown` | 4.0 million |
| `settings` | rates of ½, 29½ and 60½, 3 codecs, 2 of them sent, a preferred one that is missing | `SettingsAreUsed`, `CodecsArePreferred` | 1.3 million |

**What they show of the loop.** `connected` and the users of the rooms agree, and no room is
left that nobody is in, or nobody's leaving is to close (`RoomsMatchMembers`, of
`ConnectedMatchesRooms` and `RoomsAreAttended`); a session has both ends in its room and a streaming host
(`SessionsJoinMembers`), which the relays rely on without looking; whoever streams reaches
everyone (`StreamReachesEveryone`); equal names are one visitor and an owner is one visitor
(`GuestNamesIdentifyVisitors`, `OwnerIsOneVisitor`, `IdentityIsStable`); a room is closed by
its last member's leaving or its owner's last tab's, and by nothing else
(`RoomOutlivesGuests`); the TURN server accepts the credentials of the
open sessions and no others (`TurnFollowsSessions`); pages know their sessions (`EveryEndKnowsItsSessions`)
and show every visitor of the room once, with all of its tabs (`EveryMemberSeesThePeople`); everyone thrown out is told so once
(`ClosedOnce`); and the counters add up (`MetricsBalance`).

**Of the connections.** One report for each connection (`OneFarewell`); never a closed
connection the loop keeps for ever (`NoGhosts`); a lost page is forgotten, CloseWriter ends
both goroutines, and the loop always returns to `Incoming` (`LostOnesLeave`,
`CloseWriterCloses`, `LoopReturns`). `comment` shows a difference between the code and its
comment: `startWriteHandler` says "on errors exit the loop." (`ws/client.go:133`), but after
`CloseOnError` the loop goes on (`ws/client.go:159`) until a CloseWriter comes. That one can
time out while the writer is stalled, and then the writer pings a closed connection for
ever: a goroutine that is never freed.

**Of the pages.** A page's first message is the Room message it insists on
(`RoomComesFirst`); an offer finds the peer that is to answer it (`OfferFindsItsPeer`); a
screen is sent, and a viewer's peer kept, for open sessions only, or such whose EndShare is on
its way (`PeersHaveSessions`, of `ConnectedHostsHaveSessions` and `ViewersHaveSessions`); nothing
is sent after `stopShare`, whatever was being set up (`StoppedMeansStopped`). Handlers and
relays drop silently what finds no session, stream or peer, yet while a session is open a
viewer without an offer has one to come, or a host that stopped, and a host without an answer
one to come (`HandshakesGoOn`). A session that was announced gets a peer at the viewer's, and that
is connected to the host's unless the session ends, a page goes or the viewer's peer fails first
(`SessionsConnect`); ended ones go dark (`ViewersGoDark`). The checks also show what is not so: a
peer that was being made when `stopShare` came stays in `host.current` (offered, never connected)
until the page is left; and a viewer whose peer failed is never linked again while its session
stays open. It may fail before the host has taken its answer: then the two were never linked,
the session stays open with both pages in the room, and no one tries again.

**Of a page before its room.** Whatever the order of messages, errors and closes, the user is
told of the end of an attempt once, by the toast or by the form (`ToldOnce`), and no form is
left busy for an attempt that is over for it (`FormWaitsForAnAnswer`), though logins and other
attempts' rooms take forms away. A page that has its cookie to itself, loses nothing and does
one thing after another knows whether it is logged in (`ConfigIsCurrent`), and what its form
offers the server accepts (`ModeIsAccepted`). What does not hold, and no document promises:
with two attempts under way the end of one takes the page out of the room of the other, whose
connection stays; a form whose room ends before it was rendered stays busy; a refusal whose form
has gone is told to nobody; and when the first `/config` is lost the spinner turns for ever.

**Of a page in its room.** While a room has streams one of them is on the stage
(`StageIsLit`), with a volume button exactly when it can be heard (`VolumeButtonIsRight`), an own
screen that was stopped and stays shown excepted. In the room of the attempt that was started
last, what is shown as one's own screen is what its server was told and what "stop" stops; and a
share without a capture is one the page is about to hear of (`ShareIsAsShown`). What the run shows
beside that: a picker answered after the room was left captures a screen that no button
stops, and of two pickers the capture answered first goes on, unseen, until its end stops the other.

`ShareIsAsShown` says nothing of a room that is shown while a later attempt is under way or has
failed, for there it is not so. A form may call `room` while the attempt of the address is still
connecting; when that one enters, the page shows its room while `conn.current` is the form's
websocket. `share` then shows the screen in a room whose server hears nothing of it, and tells
the other attempt's, or throws; `stopShare` tells the other as well, and when it throws the page goes
on showing what has stopped. Without the condition `view.ws = conn`, or without the exception in
`VolumeButtonIsRight`, TLC finds the properties violated. When the later attempt gets into its
room this becomes the one that is shown, without the screen, which goes on being captured; what
its server was told meanwhile stands.

**Of settings.** Whatever is stored, settings exist, rates of shares are whole and from 1 to 60,
and what a tab saved and shows is what it loads until another saves (`SettingsAreUsed`); a session
offers every codec once, the preferred one first if the browser can sort them
(`CodecsArePreferred`). The dialog's save
also calls `updateName('')`, which the server ignores (`Rooms!Name`).

**Of allocations.** Relays listen in the range, addresses are not stale, a failing resolver is
asked once a second, and everybody who waits at the lock gets through. `Allocation!Lost` names
what the code leaves behind: after a failed lookup the bound port is returned with the error
and nobody closes it (`turn/server.go:53`).

**Of the process.** An accepted configuration has somebody to ask for an address, and its
addresses are all used (`AcceptedAddressesAreUsed`); an interrupted process ends
(`InterruptEnds`). `shutdown` shows the code doing other than it is said to: a test expects `Start` to return the error of a shutdown that fails
(`server/server_test.go:35`). In the program `Serve` reports `ErrServerClosed` as soon as the
shutdown has begun, so that `Start` returns nil and the process exits with requests in
flight; the two seconds it means to give them are never waited for.
Two differences need no run to see. The server listens on a "unix socket"
(`screego.config.example:30`), but there `newClient` (`ws/client.go:51`) panics for every
websocket. And `SCREEGO_SERVER_TLS` is "If TLS should be enabled"
(`screego.config.example:18`), but what decides is whether a certificate or a key is set
(`server/server.go:57`, `Lifecycle!WithTLS`).

**Why the bounds are enough.** Three connections are two tabs of a visitor and somebody
else, or a host, a viewer and one who comes or goes; every property of `Rooms` speaks of at
most three connections of a room, and of two rooms only in that they are not confused. Two
serials are a share repeated, which is where sets of sessions differ from pairs of members.
A visitor id and blank are enough for
three connections: two tabs are of one visitor, and a blank id is a visitor of its own. The run
has `AuthMode` none; that creating may ask for a login only adds refusals, which take the path
of every other error, and the theorems are about all modes. They have no bounds. In `Connection` a connection's goroutines share only the loop
with those of another, and two connections have a handler of one write to the other and both
report at once; liveness is checked for one, the others being for it writes that end after
two seconds at most. Two pages are one host and one viewer and, with two shares, each is
both or one shares again while its first share is being set up; three pages with one share
were checked once as well. A port range needs its first, last and middle
ports and one outside, which two bits have. In `allocation` three callers are one that looks up
and two that wait, and the clock runs past the expiry of an address and of a failure. Lists of
three addresses are those with one too many, two of a family and one of each; a second request
would wait like the first. Two attempts are one of the address and one of the form that
overlaps it, or one form after another; two calls are two that overlap. In `stage` two attempts are the one whose room is
shown and the one `conn.current` is; a stream of others and two captures are enough for one to be
on the stage while another comes or goes and for pickers that overtake each other; ids are taken again when nothing mentions them. The rates are below, between and above the limits, none
of them whole. The theorems about these modules have no bounds either.

`CHECK_DEADLOCK FALSE` is given where the system may stop: when every connection of the
instance is over (`goroutines`, `comment`), every page is shut (`pages`, `streams`), the
process is over (`lifecycle`, `shutdown`), or the attempts are used up and the last room
stays (`landing`).

## Fairness

`Rooms` needs none. `Connection!Fairness`: the Go runtime runs every goroutine that can run,
so each step a goroutine takes on its own is weakly fair, as is the loop, writes end because
of the write deadline and `writeTimeout`, and a reader of a lost connection fails because of
the read deadline. Taking from the channel is strongly fair: a Go `select` with several
cases ready picks one at random, so the ping ticker does not starve it. `Incoming` is first
come first served, as Go's channels are for waiting senders. Pages need do nothing.

`Pages!PagesFairness`: the loop serves what arrives and scripts handle what comes and finish
what they await; a viewer's peer whose other end is gone finds out (ICE consent expires). Users
need not do anything. Media connections may fail or not, at any time, also between the viewer's
answer and the host's taking it: nothing is assumed of that, and `SessionsConnect` names it among its
outcomes.

`Allocation!AllocationFairness`: lookups end, the resolver having its own timeouts, and
`sync.Mutex` starves nobody (waiters of more than a millisecond go first), so taking it is
strongly fair.

`Lifecycle!Fairness`: goroutines run, and `Serve` returns once `Shutdown` has closed its
listener. A request need not end and nobody need interrupt. `Landing`, `Stage` and
`Settings` need none.

## The proofs

`RoomsProofs` is about the main loop. Its first half proves for any finite sets of connections and serials, any visitors, rooms and
modes, and every authentication mode (the assumptions are the named `ASSUME`s of `Room` and
`Rooms`): `TypeCorrect`, `RoomsMatch` (from `ConnectedMatches` and `NoRoomUnattended`),
`NoDanglingSession`, `NobodyMissesAStream`, `NamesTellVisitorsApart` and `OneOwner`, all from `Invariant`, which says
that their conjunction `IInv` holds. None of the parts but the type is inductive alone. That
sessions join members needs that a member is in one room only, since leaving removes the
sessions of one room (`ConnectedMatchesRooms`); that everybody gets a stream needs that
sessions join members, for a newcomer that takes an id must not be an old session's end; the
owner's being one visitor needs the names and visitors of the room. The argument:

1. *Effects.* For each operator on the state a lemma (`...Effect`) says which fields it
   changes to what. Their definitions are read there once and hidden afterwards.
2. *Types.* Each operator keeps the types (`...Type`), by its effect. Cardinalities are
   numbers because sessions are finitely many (`SessionIsFinite`).
3. *Shapes.* Each handler is, for rooms and `connected`, one of a few shapes: one room with a
   user or without one, with a stream or without one, gone, or new (`...Shape`).
4. *Rooms.* Each shape keeps a room safe (`RoomWithIsSafe`, `RoomWithoutIsSafe`,
   `RoomStoppedIsSafe`, ...). Half way through Join the newcomer has no sessions yet and half
   way through StartShare the host has none: `ReachesBut(room, X)` says that everybody but
   those in `X` gets every stream, and the second half of the handler, or the error path that
   drops the one in `X`, brings it back to nobody.
5. *Messages.* One lemma for each message, and `NextSafe` over the disjuncts of `Next`.

Its second half proves what the loop keeps beside its rooms: `CredentialsFollow`, `EndsKnow`,
`OneClose`, `CountersBalance` and `PagesShowThePeople`, from the invariant `LInv` (theorem
`LedgerInvariant`), which adds to `IInv` a `Ledger` of four parts: the credentials the TURN server
accepts (`TurnKept`), what every connection was told of sessions and of its end (`Known`), that
members have the list of members (`Informed`), and the counters (`Counted`). The argument:

1. Every message is one of eight outcomes (`Outcome`): a drop, a new room, a join or a failed
   one, a share or a failed one, a stop, or a notice. Each is a chain of the operators whose
   effects have been read already, taken in the order of the code.
2. Each operator keeps the ledger (`OutcomeLedger` puts them together). Between the operators of a
   handler the members of a room may have an old list: `Ledger(s, X)` excepts the rooms in `X`,
   and the handler's `notifyInfoChanged` empties `X` again.
3. The counters are sums over rooms. That a step changes a sum by what it changes in one room
   is counting (`CountAtOne`).
4. `PagesShowThePeople` is `Informed` and `NamesTellVisitorsApart`: a list of members makes a row
   for each name, with all of its tabs (`RowsOfVisitors`, `PageShowsThePeople`).

Its end goes over the same eight outcomes for what a step may do: whoever stays is
who they were (`NobodyIsRenamed`), a room that is gone had one member or one tab of an owner it
closes with (`RoomsOutliveGuests`), and the step is one of `ScreenShare` or a stutter
(`ServerImplementsScreenShare`). A failed join is a stutter: the newcomer was
nowhere and is again, and a newcomer who owns the room is never its only owner. That the
sessions are the feeds promised (`FedAsPromised`) takes both
`SessionsJoinMembers` and `StreamReachesEveryone`.

`AllocationProofs` proves of the port range `TheRangeIsDrawn` and `RelaysStayInRange` for every
`Modulus`, that is, every width of the port numbers: by cases, `max + 1` wraps to 0 when `max` is
the last port and the difference wraps back, or neither wraps (`SizeOfRange`), and what is
drawn does not wrap (`DrawnInRange`). `TheRangeIsDrawn` is about the definition
`DrawsTheWholeRange`, which no run lists, as `TypeCorrect` is about `Rooms!TypeOK` and
`PagesTypes` about `Pages!PagesTypeOK`. Of the cache, `AllocationInv` adds `CacheInv`,
which relates the expiry to the time of the last lookup (for an address, a minute after it; for
a failure, a second), so that what is not expired is fresh (`NobodyGetsAnOldAnswer`) and what
is expired is more than a second old (`LookupsAreApart`), for any number of callers. The steps of the
one leave the other alone, which gives `AllocationsStayInRange`.

`ConnectionProofs` proves `EndsAreReportedOnce` and `ClosedOnesAreReported` for any number of connections,
probes and messages (`ConnectionInvariant`). `ConnectionInv` says where the goroutines of a connection may be
(`Control`); that a sender waits at `Incoming` with one message, and is at its send while it does
(`Queue`); that nothing of a connection runs before the loop has taken its `Connected`
(`Beginnings`); that `CloseWriter` is sent only to those the loop does not know any more
(`Closings`), which is why a writer that closes on it owes no report; and that there
are no more reports than the `once` has let pass (`Farewells`). `OneFarewell` is the last part;
`NoGhosts` is inductive with `Closings`, and is not without.

`PagesProofs` is about any number of pages, sessions and shares. Its argument:

1. *Queues.* What taking, appending, delivering and losing messages does to the presence, the
   number and the order of messages: `Holds`, `Once`, `Final`; `Led` (an `n` is ahead of every `m`),
   `Free` (no `n` is ahead of any `m`) and `Shields` (an `n` is there with no `m` ahead of it).
2. *The loop.* Every step is one of `Rooms` or leaves it alone (`PagesFollowTheLoop`), so that what
   `RoomsProofs` shows holds here, and so does `ScreenShare` (`PagesImplementScreenShare`). What a page is written is read off `told`, which the ledger
   ties to the sessions that are open. Every message the loop executes is then one of three
   outcomes (`ExecutesOutcome`): it is handled, passed on or ignored, and `Tidings` says what
   each page is written when it is handled.
3. *The invariant* `PagesInv` has a part for each page (`InPhase`: what can be on the way in
   each state of the websocket; `Placed`; `Silent`) and a `Story` for each session, which
   relates the host's peer, the client's peer, the session at the server and the four queues
   between. A session is announced once and offered once after that (`OneSession`, `OneOffer`);
   its client waits for the offer or has a ClientSession ahead of it, and no EndShare
   (`Awaited`); a host that has stopped has nothing on the way that would make it send, for
   what is yet to come to the loop is behind a StopShare (`Stopping`); and who sends does so over
   an open session or has its end on the way (`Sending`).
4. *Pages.* One lemma for each action of a page (`...Keeps`). A page's step changes its
   own side of each session it is an end of: `HostKeeps`, `ClientKeeps` and the lemmas about
   the few steps that carry a session on (`HostIsAsked`, `HostOffers`, `ClientIsOffered`,
   `ClientAnswers`, `HostIsAnswered`) say what that does to its story.
5. *The loop's steps.* `HandledKeeps`, `PassedKeeps`, `DroppedKeeps`: a story begins
   (`StoryBegins`, which needs that an xid is never used again), is told on or ends (`HostTurned`, `ClientTurned`).

From `PagesInvariant` follow `RoomFirst`, `OffersFindTheirPeers`, `ScreensHaveSessions`,
`StoppedPagesSendNothing` and `PagesTypes`. None of the four properties is inductive:
`StoppedMeansStopped` is a part of `PagesInv`, but kept only because of `Stopping` and
`OneOffer`, through all of the queues an answer has to pass.

`HandshakeProofs` is about what is there, where `PagesInv` is about what is not. `CallInv` has
three parts.

1. `Own`, for each page: its clients' peers are for sessions it is the client of; and if it
   does not share, but shares for the loop or has a StartShare under way, a StopShare is behind
   that (`Trailed`). So a host that throws a HostSession away, having no stream, has told the loop or is about to.
2. `Watched`, for the client's side of each session: it is announced once and not after its
   end, and once it is over a page that has a peer for it, or is yet to make one, has the end
   behind that. This is `ViewersHaveSessions` with what is still in the queue, without which
   a ClientSession that is read after its session's end would break it.
3. `Going`, for each open session whose two pages are there: a client that waits, or is yet to be told,
   has a HostSession, a host that makes the offer, the offer or its handler ahead of it,
   unless a StopShare is on its way; a host that has offered has the offer, its handler or the
   answer to come.

`Going` is not inductive without the others and `PagesInv`: that `Answer` finds a peer that
waits needs `Watched`; that a relayed offer is taken needs the client's peer (`Awaited`);
and that `OnHostSession` without a stream loses nothing needs `Own`. `Watched` needs that the loop
tells what it ends, which is `Tidings`. `HostGoes`, `ClientGoes` and `WatchesLess` say what a page's step may do
to its side (`...Calls`, one lemma for each action); `ServedCalls` is for the loop's: what it drops
is of no open session, what it passes on arrives, and new sessions are announced at both
ends (`CallBegins`). From `CallInvariant` follow `HandshakesNeverStall` and, with
`ScreensHaveSessions`, `PeersHaveTheirSessions`. That what is to come does come is
`SessionsConnect`, which needs fairness.

`StageProofs` has three parts of `StageInv`, for any number of attempts. `ShareInv` is for
`SharesAreAsShown`: if the room that is shown is of the last attempt, an own screen in it is the
capture the next `stopShare` stops, and its server was told; an attempt that is
not open was told nothing, and who was told over `conn.current` has a capture that runs or whose end
is queued.
`AudioKnown` is for `TheVolumeButtonIsRight`: what the page believes of the stream it listens
to is true or its event is queued, and a stream that comes later is none it still listens
to (`Unused`). `EffectsRan` is for `TheStageIsLit`: if what was rendered has no effects left to run, its
selection is what they would select, unless the selection has been set and not rendered.

`LandingProofs`: `ConfigInv` and `LoginTypes` for `TheConfigIsCurrent` (undisturbed, at most one
request is under way, and the cookie it carries is the one of now); `Offered` for
`OffersAreAccepted`; and `EnteringInv` for `EndsAreToldOnce` and `FormsGetTheirAnswers`, which says
of each attempt (`Good`) which queues of events its websocket may have in each state of its
flags, how often its end has been told by then and whether the form still waits for it, and
that the form waits for one attempt at most (`FormInv`). The properties speak of the end of
a queue; only what they say of the middle is inductive.

`ConfigurationProofs` proves `EveryAcceptedAddressIsUsed` for lists of any length, from
`LifecycleInv`: what the command goes on with is the provider its list parses to, and of two
addresses of different families neither replaces the other (`StaticUsesAll`). And
`SettingsExist`, from `SettingsInv`, which has the types of what is stored, loaded and typed,
with the arithmetic of rounding. `CodecsAreSorted` is for any list of codecs. `sortedCodecs` is a
recursive function over the browser's list, so it is first shown that there is such a function
(`ForEachExists`) and that the definition is it (`MatchesAreForEach`); both by induction
on the set of lengths for which they hold (`EveryNatural`, from the least element of a set of
numbers). Then, codec by codec, each of the three lists picks from those so far the ones of its rank,
each once and in order (`SortedIsPushed`), and three such lists in a row are all codecs sorted by
rank (`SortedIsPreferred`).

**Only model-checked**: liveness, which with anything that has ENABLED is out of the prover's
reach: `LostOnesLeave`, `CloseWriterCloses` and `LoopReturns` of `Connection`, `SessionsConnect` and
`ViewersGoDark` of `Pages`, `CallsReturn` of `Allocation` and `InterruptEnds` of `Lifecycle`. Of
`SessionsConnect` the safety half is `HandshakesNeverStall`, of `ViewersGoDark` it is
`PeersHaveTheirSessions`. Every other property of a passing run is a theorem.

## What is not modelled

* The relay itself, WebRTC, ICE, TURN's protocol, websockets, bcrypt and cookies are
  libraries. ICE candidates are relayed in `Rooms` but play no part in `Pages`.
* Encoding: a message that does not parse is `Connection!Reject`. Of room ids only that they
  are long enough, of names only that they are the visitor's.
* How long things take: a stalled page costs the loop two seconds for each message, and a room
  of such pages stops the server for minutes. `LoopReturns` shows that it ends.
* What a page shows after a message was lost to the two seconds.
* The random room names (`RandRoomName` draws from an unlocked `rand.Rand`).
* Wording and looks: `ui/src/i18n.tsx`, and the markup of `Room.tsx`, `SettingDialog.tsx`,
  `RoomManage.tsx` and `LoginForm.tsx`. Drawing on the stage: nothing ever turns it on
  (`setAnnotationMode` is called with false only). The `addtrack` and `removetrack` listeners
  of `useHasAudioTrack`, which do not fire for tracks a script adds. Whether the icon of the volume
  button is the muted one.
* The routes other than those of the login, the `hash` command, the logger: I/O or functions of
  one request. To the loop a login is a constant, `Authenticated`.
* The address bar after the first attempt: `leaveRoom` changes it without telling the state of
  `useRoomID`.
* A handler of an offer that finds no peer sends a `clientanswer` without a value
  (`useRoom.ts:367`); `OnHostOffer` sends nothing. `OfferFindsItsPeer` shows that there is no such
  offer.
* The server's first message to a page is a Room message (`RoomComesFirst`); what the page does
  with another (`useRoom.ts:282`) is left out of `Entering`.

## Plan

Written so far, in this order: `Maps`, `Room`, `Rooms`, `ScreenShare`, `RoomsProofs`,
`Connection`, `Pages`, `RelayPorts`, `AddressCache`, `Lifecycle`, `Entering`, `Stage`,
`Landing`, `Settings`, `Allocation`, and the proofs of the last ones; then the ledger in
`RoomsProofs`, `ConnectionProofs`, `ConfigurationProofs`, `PagesProofs` and `HandshakeProofs`. What is left:

1. Models: messages lost on their way to a page, composing the two seconds of `Connection`
   with `Pages`; entering again after a lost connection, with the tab's stored visitor id
   (`Landing` composed with `Rooms`); ICE candidates in `Pages`; `Stage` as the view of
   `Pages`, whose streams then come from its sessions.
2. Proofs: that the pages implement an abstract call between a host and a viewer
   (announced, offered, answered, over), which `PagesInv` and `CallInv` have the facts for; a counting
   argument for `LostOnesLeave`, that a lost connection owes fewer steps at each of them.
