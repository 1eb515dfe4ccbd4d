----------------------------- MODULE Connection -----------------------------
(***************************************************************************)
(* The goroutines around the main loop (ws/client.go, ws/once.go,          *)
(* Rooms.Upgrade, Rooms.Start, Rooms.Count): each connection has a reader, *)
(* a writer behind a channel of one message, and at most one goroutine     *)
(* that reports its end; all of them meet the loop at the unbuffered       *)
(* channel Incoming, and the loop waits two seconds at a full writer.      *)
(*                                                                         *)
(* Rooms.tla has what the handlers do to the rooms.  Here a handler is     *)
(* what it does to connections: whom it writes to and whom it closes, any  *)
(* of them, in one of the shapes the handlers of Rooms.tla have.           *)
(***************************************************************************)
EXTENDS Integers, Sequences, FiniteSets, SequencesExt

CONSTANTS
    Client,  \* websocket connections
    Prober   \* requests to /health, which call Rooms.Count

ASSUME ProberAssumption == Prober \cap Client = {}

VARIABLES
    pc,         \* where each goroutine of each connection is
    sock,       \* the connection as the server sees it
    once,       \* Client.once.done
    farewells,  \* how many goroutines CloseOnError has started
    hand,       \* the message in the writer's hand
    write,      \* ClientInfo.Write, a channel of one message
    incoming,   \* the senders waiting at Rooms.Incoming, first come first served
    connected,  \* the keys of Rooms.connected
    members,    \* those of them that are in a room
    outbox,     \* what the running handler has yet to write
    probe       \* where each call of Rooms.Count is

vars == <<pc, sock, once, farewells, hand, write, incoming, connected, members, outbox, probe>>

Goroutine == Client \X {"upgrade", "reader", "writer", "leaver"}

Upgrader(c) == <<c, "upgrade">>
Reader(c) == <<c, "reader">>
Writer(c) == <<c, "writer">>
Leaver(c) == <<c, "leaver">>

Init ==
    /\ pc = [g \in Goroutine |-> "none"]
    /\ sock = [c \in Client |-> "none"]
    /\ once = [c \in Client |-> FALSE]
    /\ farewells = [c \in Client |-> 0]
    /\ hand = [c \in Client |-> "none"]
    /\ write = [c \in Client |-> <<>>]
    /\ incoming = <<>>
    /\ connected = {}
    /\ members = {}
    /\ outbox = <<>>
    /\ probe = [p \in Prober |-> "idle"]

Sends(g, event) == incoming' = Append(incoming, [from |-> g, event |-> event])

-----------------------------------------------------------------------------
\* The page and the network

\* Mutant: the goroutines are started first.
UpgradeStartingFirst(c) ==
    /\ \/ /\ sock[c] = "none"
          /\ sock' = [sock EXCEPT ![c] = "open"]
          /\ pc' = [pc EXCEPT ![Reader(c)] = "read", ![Writer(c)] = "select"]
          /\ UNCHANGED incoming
       \/ /\ sock[c] # "none" /\ pc[Upgrader(c)] = "none"
          /\ pc' = [pc EXCEPT ![Upgrader(c)] = "send"]
          /\ Sends(Upgrader(c), "Connected")
          /\ UNCHANGED sock
    /\ UNCHANGED <<once, farewells, hand, write, connected, members, outbox, probe>>

\* Upgrade announces the connection before it starts its goroutines.
Upgrade(c) ==
    /\ sock[c] = "none"
    /\ sock' = [sock EXCEPT ![c] = "open"]
    /\ pc' = [pc EXCEPT ![Upgrader(c)] = "send"]
    /\ Sends(Upgrader(c), "Connected")
    /\ UNCHANGED <<once, farewells, hand, write, connected, members, outbox, probe>>

\* The page goes away, or answers no ping until the read deadline.
Lose(c) ==
    /\ sock[c] = "open"
    /\ sock' = [sock EXCEPT ![c] = "lost"]
    /\ UNCHANGED <<pc, once, farewells, hand, write, incoming, connected, members, outbox, probe>>

-----------------------------------------------------------------------------
\* once.Do, CloseOnError and CloseOnDone

\* The writer closes because it was told to; everyone else because of an error.
Done(g) == g[2] = "writer" /\ hand[g[1]] = "CloseWriter"

\* Mutant: startWriteHandler does not return after CloseOnDone.
ResumesAlways(g) == IF g[2] = "writer" THEN "select" ELSE "done"

\* Where a goroutine goes on after the close: startReading returns, and so does
\* startWriteHandler after CloseOnDone; after CloseOnError it continues.
Resumes(g) ==
    IF g[2] = "writer" /\ ~Done(g) THEN "select" ELSE "done"

\* The writer is through with its message.
EmptyHanded(g) ==
    hand' = IF g[2] = "writer" THEN [hand EXCEPT ![g[1]] = "none"] ELSE hand

\* once.Do: the done flag is read without the lock.
Load(g) ==
    /\ pc[g] = "load"
    /\ IF once[g[1]]
       THEN pc' = [pc EXCEPT ![g] = Resumes(g)] /\ EmptyHanded(g)
       ELSE pc' = [pc EXCEPT ![g] = "lock"] /\ UNCHANGED hand
    /\ UNCHANGED <<sock, once, farewells, write, incoming, connected, members, outbox, probe>>

\* Mutant: what was loaded is not looked at again under the lock.
MayExecuteUnchecked(c) == TRUE

\* once.mayExecute
MayExecute(c) == ~once[c]

\* Mutant: CloseOnError leaves telling the loop to the other goroutine.
ReportsNot(g) == FALSE

\* CloseOnError starts a goroutine that reports to the loop; CloseOnDone, whose
\* CloseWriter came from the loop, does not.
Reports(g) == ~Done(g)

Lock(g) ==
    LET c == g[1]
    IN  /\ pc[g] = "lock"
        /\ once' = [once EXCEPT ![c] = TRUE]
        /\ IF MayExecute(c)
           THEN /\ pc' = [pc EXCEPT ![g] = "shut",
                                    ![Leaver(c)] = IF Reports(g) THEN "leave" ELSE @]
                /\ farewells' = [farewells EXCEPT ![c] = IF Reports(g) THEN @ + 1 ELSE @]
                /\ UNCHANGED hand
           ELSE /\ pc' = [pc EXCEPT ![g] = Resumes(g)]
                /\ EmptyHanded(g)
                /\ UNCHANGED farewells
        /\ UNCHANGED <<sock, write, incoming, connected, members, outbox, probe>>

\* writeCloseMessage
Shut(g) ==
    /\ pc[g] = "shut"
    /\ sock' = [sock EXCEPT ![g[1]] = "closed"]
    /\ pc' = [pc EXCEPT ![g] = Resumes(g)]
    /\ EmptyHanded(g)
    /\ UNCHANGED <<once, farewells, write, incoming, connected, members, outbox, probe>>

\* The goroutine of CloseOnError reaches Incoming.
Leave(c) ==
    /\ pc[Leaver(c)] = "leave"
    /\ pc' = [pc EXCEPT ![Leaver(c)] = "send"]
    /\ Sends(Leaver(c), "Disconnected")
    /\ UNCHANGED <<sock, once, farewells, hand, write, connected, members, outbox, probe>>

-----------------------------------------------------------------------------
\* startReading and startWriteHandler

\* The end of Upgrade.
Start(c) ==
    /\ pc[Upgrader(c)] = "start"
    /\ pc' = [pc EXCEPT ![Upgrader(c)] = "done", ![Reader(c)] = "read", ![Writer(c)] = "select"]
    /\ UNCHANGED <<sock, once, farewells, hand, write, incoming, connected, members, outbox, probe>>

\* An event of the page.
Read(c) ==
    /\ pc[Reader(c)] = "read"
    /\ sock[c] = "open"
    /\ pc' = [pc EXCEPT ![Reader(c)] = "send"]
    /\ Sends(Reader(c), "event")
    /\ UNCHANGED <<sock, once, farewells, hand, write, connected, members, outbox, probe>>

\* A read error, a binary message or one that does not parse.
Reject(c) ==
    /\ pc[Reader(c)] = "read"
    /\ pc' = [pc EXCEPT ![Reader(c)] = "load"]
    /\ UNCHANGED <<sock, once, farewells, hand, write, incoming, connected, members, outbox, probe>>

Take(c) ==
    /\ pc[Writer(c)] = "select"
    /\ write[c] # <<>>
    /\ hand' = [hand EXCEPT ![c] = Head(write[c])]
    /\ write' = [write EXCEPT ![c] = Tail(@)]
    /\ pc' = [pc EXCEPT ![Writer(c)] =
                IF Head(write[c]) = "CloseWriter" THEN "load" ELSE "write"]
    /\ UNCHANGED <<sock, once, farewells, incoming, connected, members, outbox, probe>>

\* The ping ticker fires; a ping is written like a message.
Ping(c) ==
    /\ pc[Writer(c)] = "select"
    /\ hand' = [hand EXCEPT ![c] = "message"]
    /\ pc' = [pc EXCEPT ![Writer(c)] = "write"]
    /\ UNCHANGED <<sock, once, farewells, write, incoming, connected, members, outbox, probe>>

Written(c) ==
    /\ pc[Writer(c)] = "write"
    /\ sock[c] # "closed"
    /\ pc' = [pc EXCEPT ![Writer(c)] = "select"]
    /\ EmptyHanded(Writer(c))
    /\ UNCHANGED <<sock, once, farewells, write, incoming, connected, members, outbox, probe>>

\* The write deadline passes, or the connection is gone.
WriteFails(c) ==
    /\ pc[Writer(c)] = "write"
    /\ pc' = [pc EXCEPT ![Writer(c)] = "load"]
    /\ UNCHANGED <<sock, once, farewells, hand, write, incoming, connected, members, outbox, probe>>

\* What startWriteHandler defers.
CloseConn(c) ==
    /\ pc[Writer(c)] = "done"
    /\ sock[c] # "closed"
    /\ sock' = [sock EXCEPT ![c] = "closed"]
    /\ UNCHANGED <<pc, once, farewells, hand, write, incoming, connected, members, outbox, probe>>

-----------------------------------------------------------------------------
\* Rooms.Start

Idle == outbox = <<>>

\* A batch of writes, to some connections in the order the iteration over a map yields;
\* nobody's is none.
Batch(what, to) == IF to = {} THEN <<>> ELSE <<[what |-> what, to |-> to]>>

\* An event that succeeds: its sender enters a room, or is in one, and some of
\* those in rooms, maybe the sender too, are told something, some of them twice: the
\* sessions and the room.
Succeeds(c) ==
    \E S \in SUBSET (members \cup {c}) : \E twice \in SUBSET S :
        /\ S = {} => c \in members
        /\ outbox' = Batch("message", S) \o Batch("message", twice)
        /\ members' = members \cup {c}

\* executeNoError: c is closed, others in its room are told.  An event that fails
\* late has written to all of them before.
Drops(c, late) ==
    \E S \in SUBSET (members \ {c}) :
        /\ outbox' = Batch("message", IF late THEN S \cup {c} ELSE {})
                        \o Batch("CloseWriter", {c}) \o Batch("message", S)
        /\ connected' = connected \ {c}
        /\ members' = members \ {c}

\* And when that closes the room: those whose sessions end are told, and everyone
\* in it is closed.
ClosesRoom(c) ==
    \E S \in SUBSET (members \ {c}) : \E told \in SUBSET S :
        /\ c \in members
        /\ outbox' = Batch("CloseWriter", {c})
                        \o Batch("message", told) \o Batch("CloseWriter", S)
        /\ connected' = connected \ (S \cup {c})
        /\ members' = members \ (S \cup {c})

\* The loop takes the message of the sender that waits longest; the sender goes on.
Accept ==
    LET g == Head(incoming).from
        c == g[1]
        event == Head(incoming).event
    IN  /\ Idle
        /\ incoming # <<>>
        /\ incoming' = Tail(incoming)
        /\ event # "Health"
        /\ pc' = [pc EXCEPT ![g] = CASE event = "Connected" -> "start"
                                     [] event = "event" -> "read"
                                     [] event = "Disconnected" -> "done"]
        /\ \/ /\ event = "Connected"
              /\ connected' = connected \cup {c}
              /\ UNCHANGED <<members, outbox>>
           \/ /\ event # "Connected" /\ c \notin connected
              /\ UNCHANGED <<connected, members, outbox>>
           \/ /\ event = "event" /\ c \in connected
              /\ \/ Succeeds(c) /\ UNCHANGED connected
                 \/ \E late \in BOOLEAN : Drops(c, late)
                 \/ ClosesRoom(c)
           \/ /\ event = "Disconnected" /\ c \in connected
              /\ Drops(c, FALSE) \/ ClosesRoom(c)
        /\ UNCHANGED <<sock, once, farewells, hand, write, probe>>

\* A write of the running handler is over.
Past(d) ==
    LET b == Head(outbox)
    IN  outbox' = IF b.to = {d} THEN Tail(outbox)
                  ELSE <<[b EXCEPT !.to = @ \ {d}]>> \o Tail(outbox)

\* writeTimeout, when the channel has room.
Write(d) ==
    /\ ~Idle
    /\ d \in Head(outbox).to \cap Client
    /\ write[d] = <<>>
    /\ write' = [write EXCEPT ![d] = <<Head(outbox).what>>]
    /\ Past(d)
    /\ UNCHANGED <<pc, sock, once, farewells, hand, incoming, connected, members, probe>>

\* writeTimeout, when it has none for two seconds.  A writer that can takes what is
\* in its channel sooner; one that writes to a stalled page may take as long as the
\* loop waits, both being two seconds, and one that is done takes nothing.
TimeOut(d) ==
    /\ ~Idle
    /\ d \in Head(outbox).to \cap Client
    /\ write[d] # <<>>
    /\ pc[Writer(d)] \in {"write", "shut", "done"}
    /\ Past(d)
    /\ UNCHANGED <<pc, sock, once, farewells, hand, write, incoming, connected, members, probe>>

-----------------------------------------------------------------------------
\* Rooms.Count

Ask(p) ==
    /\ probe[p] = "idle"
    /\ probe' = [probe EXCEPT ![p] = "ask"]
    /\ Sends(<<p, "health">>, "Health")
    /\ UNCHANGED <<pc, sock, once, farewells, hand, write, connected, members, outbox>>

AcceptHealth ==
    LET p == Head(incoming).from[1]
    IN  /\ Idle
        /\ incoming # <<>>
        /\ Head(incoming).event = "Health"
        /\ incoming' = Tail(incoming)
        /\ probe' = [probe EXCEPT ![p] = "await"]
        /\ outbox' = Batch("count", {p})
        /\ UNCHANGED <<pc, sock, once, farewells, hand, write, connected, members>>

\* Mutant: the response channel is not buffered.
RespondIfAwaited(p) ==
    /\ ~Idle
    /\ Head(outbox).to = {p}
    /\ probe[p] = "await"
    /\ probe' = [probe EXCEPT ![p] = "idle"]
    /\ outbox' = Tail(outbox)
    /\ UNCHANGED <<pc, sock, once, farewells, hand, write, incoming, connected, members>>

\* Health.Execute: every call has a response channel of its own with room for the
\* answer, so the loop never waits for the one who asked, who may have given up and
\* asked again.
Respond(p) ==
    /\ ~Idle
    /\ Head(outbox).to = {p}
    /\ probe' = [probe EXCEPT ![p] = IF @ = "await" THEN "idle" ELSE @]
    /\ outbox' = Tail(outbox)
    /\ UNCHANGED <<pc, sock, once, farewells, hand, write, incoming, connected, members>>

\* Five seconds are over: Count withdraws its message, or no longer awaits the
\* response.
GiveUp(p) ==
    /\ \/ probe[p] = "await" /\ UNCHANGED incoming
       \/ /\ probe[p] = "ask"
          /\ \E i \in DOMAIN incoming :
                /\ incoming[i].from = <<p, "health">>
                /\ incoming' = RemoveAt(incoming, i)
    /\ probe' = [probe EXCEPT ![p] = "idle"]
    /\ UNCHANGED <<pc, sock, once, farewells, hand, write, connected, members, outbox>>

-----------------------------------------------------------------------------

Closes(g) == Load(g) \/ Lock(g) \/ Shut(g)

ReaderNext(c) == Start(c) \/ Read(c) \/ Reject(c) \/ Closes(Reader(c))

WriterNext(c) ==
    Take(c) \/ Ping(c) \/ Written(c) \/ WriteFails(c) \/ Closes(Writer(c)) \/ CloseConn(c)

LoopNext ==
    \/ Accept \/ AcceptHealth
    \/ \E d \in Client : Write(d) \/ TimeOut(d)
    \/ \E p \in Prober : Respond(p)

Next ==
    \/ \E c \in Client :
        Upgrade(c) \/ Lose(c) \/ ReaderNext(c) \/ WriterNext(c) \/ Leave(c)
    \/ LoopNext
    \/ \E p \in Prober : Ask(p) \/ GiveUp(p)

Spec == Init /\ [][Next]_vars

\* The runtime runs every goroutine that can run, deadlines and timers fire, and a
\* select with several ready cases takes each of them now and again.  Pages need
\* not do anything.
Fairness ==
    /\ WF_vars(LoopNext)
    /\ \A c \in Client :
        /\ WF_vars(Start(c) \/ Closes(Reader(c)))
        /\ WF_vars(Reject(c) /\ sock[c] # "open")
        /\ WF_vars(Written(c) \/ WriteFails(c) \/ Closes(Writer(c)) \/ CloseConn(c))
        /\ SF_vars(Take(c))
        /\ WF_vars(Leave(c))

FairSpec == Spec /\ Fairness

-----------------------------------------------------------------------------
\* Properties

TypeOK ==
    /\ pc \in [Goroutine -> {"none", "start", "read", "select", "write", "send",
                             "load", "lock", "shut", "leave", "done"}]
    /\ sock \in [Client -> {"none", "open", "lost", "closed"}]
    /\ once \in [Client -> BOOLEAN]
    /\ farewells \in [Client -> Nat]
    /\ hand \in [Client -> {"none", "message", "CloseWriter"}]
    /\ \A c \in Client : Len(write[c]) <= 1
    /\ members \subseteq connected /\ connected \subseteq Client
    /\ probe \in [Prober -> {"idle", "ask", "await"}]

\* However reader and writer fail together, one of them reports the connection to
\* the loop: CloseOnError's once lets one goroutine through (once.go).
OneFarewell == \A c \in Client : farewells[c] <= 1

\* A Disconnected of c has yet to reach the loop.
OnItsWay(c) ==
    \/ pc[Leaver(c)] = "leave"
    \/ \E i \in DOMAIN incoming : incoming[i] = [from |-> Leaver(c), event |-> "Disconnected"]

\* No ghosts: a connection the loop still knows and that has closed has reported,
\* and the report is on its way.  One that was reported before the loop got to know
\* it would stay in connected, and in its room, for ever.
NoGhosts == \A c \in connected : once[c] => OnItsWay(c)

\* A connection whose page is gone leaves its room: whichever goroutine notices, the
\* loop gets to know.
LostOnesLeave == \A c \in Client : (sock[c] # "open") ~> (c \notin connected)

\* A writer that gets CloseWriter is the end of the connection: both goroutines
\* return, the socket is closed, and the loop does not know it.
CloseWriterCloses ==
    \A c \in Client :
        (write[c] = <<"CloseWriter">>) ~>
            /\ pc[Writer(c)] = "done" /\ pc[Reader(c)] = "done"
            /\ sock[c] = "closed"
            /\ c \notin connected

\* The loop always gets back to Incoming, whatever the pages, the writers and the
\* callers of Count do.
LoopReturns == []<>Idle

\* "on errors exit the loop" (the comment of startWriteHandler): a writer whose
\* write fails returns.
WriterExitsOnErrors ==
    \A c \in Client :
        (pc[Writer(c)] = "load" /\ hand[c] # "CloseWriter") ~> (pc[Writer(c)] = "done")
=============================================================================
