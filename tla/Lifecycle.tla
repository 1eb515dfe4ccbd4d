------------------------------- MODULE Lifecycle -------------------------------
(***************************************************************************)
(* The process from its configuration to its exit (cmd/serve.go,           *)
(* config/config.go, config/ip.go, server/server.go): what is refused at   *)
(* the start, what is served, and how an interrupt ends it, with the       *)
(* goroutine that serves, the one that shuts down and Start, which waits   *)
(* for the first of the two to report.                                     *)
(***************************************************************************)
EXTENDS Integers, Sequences, SequencesExt

CONSTANTS
    V4, V6,    \* addresses as they are written in the configuration
    Domain,    \* "dns:" and a domain
    Garbage,   \* what is no address
    Nil,      \* nil
    MaxIps,    \* bounds the list of addresses
    Request    \* requests the server may have in flight

ASSUME MaxIpsAssumption == MaxIps \in Nat

Text == V4 \cup V6 \cup {Domain, Garbage}

\* The addresses are the server's, those of an external TURN server, or both are set.
\* Other settings are valid or not: the auth mode, origins, ports, denied peers.
Config == [tls: BOOLEAN, cert: BOOLEAN, key: BOOLEAN, unix: BOOLEAN,
           ips: BoundedSeq(Text, MaxIps), whose: {"own", "turn", "both"},
           turnSecret: BOOLEAN, others: BOOLEAN]

VARIABLES
    config,    \* what the environment and the files say
    provider,  \* Config.TurnIPProvider
    main,      \* where the command is
    exit,      \* how the process ended
    serve,     \* the goroutine of startServer
    stop,      \* the goroutine of shutdownOnInterruptSignal
    requests   \* in flight

lifecycleVars == <<config, provider, main, exit, serve, stop, requests>>

LifecycleInit ==
    /\ config \in Config
    /\ provider = Nil
    /\ main = "config"
    /\ exit = "running"
    /\ serve = "none"
    /\ stop = "none"
    /\ requests = {}

-----------------------------------------------------------------------------
\* config.Get

Family(ip) == IF ip \in V4 THEN "v4" ELSE "v6"

\* Mutant: the families are not compared.
DistinctUnasked(ips) == TRUE

\* Of two addresses one is v4 and one v6.
Distinct(ips) == Len(ips) = 2 => Family(ips[1]) # Family(ips[2])

\* applyIPTo, for each address in turn: a later one of a family replaces the first.
Static(ips) ==
    [f \in {"v4", "v6"} |->
        LET of == {i \in DOMAIN ips : Family(ips[i]) = f}
        IN  IF of = {} THEN Nil ELSE ips[Max(of)]]

\* parseIPProvider, of a list that is not empty.
Parsed(ips) ==
    IF ips[1] = Domain
    THEN IF Len(ips) = 1 THEN Domain ELSE Nil
    ELSE IF /\ Len(ips) <= 2 /\ Distinct(ips)
            /\ \A i \in DOMAIN ips : ips[i] \in V4 \cup V6
         THEN Static(ips) ELSE Nil

\* What config.Get logs as fatal.
Fatal(c) ==
    \/ ~c.others
    \/ c.tls /\ ~(c.cert /\ c.key)
    \/ c.whose = "both"
    \/ c.whose = "turn" /\ ~c.turnSecret
    \/ c.ips = <<>>
    \/ Parsed(c.ips) = Nil

Ends(how) == main' = "over" /\ exit' = how

Get ==
    /\ main = "config"
    /\ provider' = IF config.ips = <<>> THEN Nil ELSE Parsed(config.ips)
    /\ IF Fatal(config) THEN Ends("failed") ELSE main' = "provider" /\ UNCHANGED exit
    /\ UNCHANGED <<config, serve, stop, requests>>

-----------------------------------------------------------------------------
\* serve: one thing after the other, and the first that fails ends the process

Then(step, next, mayFail) ==
    /\ main = step
    /\ \/ main' = next /\ UNCHANGED exit
       \/ mayFail /\ Ends("failed")
    /\ UNCHANGED <<config, provider, serve, stop, requests>>

\* TurnIPProvider.Get: of nil it is a panic, of a domain it may fail.
LookUp ==
    \/ provider # Nil /\ Then("provider", "users", provider = Domain)
    \/ /\ main = "provider" /\ provider = Nil
       /\ Ends("panic")
       /\ UNCHANGED <<config, provider, serve, stop, requests>>

ReadUsers == Then("users", "turn", TRUE)

\* turn.Start: an external server is not listened for.
StartTurn == Then("turn", "start", config.whose = "own")

\* startServer; the goroutine may serve before anybody has asked for interrupts.
StartServer ==
    /\ main = "start"
    /\ main' = "notify"
    /\ serve' = "listen"
    /\ UNCHANGED <<config, provider, exit, stop, requests>>

\* shutdownOnInterruptSignal
Notify ==
    /\ main = "notify"
    /\ main' = "waits"
    /\ stop' = "waits"
    /\ UNCHANGED <<config, provider, exit, serve, requests>>

\* An interrupt before anybody has asked to be notified of it.
Kill ==
    /\ main \in {"config", "provider", "users", "turn", "start", "notify"}
    /\ Ends("killed")
    /\ UNCHANGED <<config, provider, serve, stop, requests>>

-----------------------------------------------------------------------------
\* listenAndServe

WithTLS(c) == c.cert \/ c.key

\* A listener that cannot be had, or a certificate without its key.
ListenFails ==
    /\ serve = "listen"
    /\ serve' = "error"
    /\ UNCHANGED <<config, provider, main, exit, stop, requests>>

Listen ==
    /\ serve = "listen"
    /\ WithTLS(config) => config.cert /\ config.key
    /\ serve' = "serves"
    /\ UNCHANGED <<config, provider, main, exit, stop, requests>>

\* Shutdown has not begun.
Unstopped == stop \in {"none", "waits"}

\* Mutant: a server that was shut down has nothing to report.
ReturnsSilently ==
    /\ serve = "serves"
    /\ serve' = IF Unstopped THEN "error" ELSE "done"
    /\ UNCHANGED <<config, provider, main, exit, stop, requests>>

\* Serve returns: of its own because accepting fails, or since Shutdown has begun.
Returns ==
    /\ serve = "serves"
    /\ serve' = IF Unstopped THEN "error" ELSE "closed"
    /\ UNCHANGED <<config, provider, main, exit, stop, requests>>

Ask(r) ==
    /\ serve = "serves" /\ Unstopped
    /\ r \notin requests
    /\ requests' = requests \cup {r}
    /\ UNCHANGED <<config, provider, main, exit, serve, stop>>

\* A handler returns; or Rooms.Upgrade takes the connection from the server, which waits
\* for it no longer (and gives up, on a unix socket: newClient asks for a TCP address).
Answer(r) ==
    /\ r \in requests
    /\ requests' = requests \ {r}
    /\ UNCHANGED <<config, provider, main, exit, serve, stop>>

-----------------------------------------------------------------------------
\* shutdownOnInterruptSignal and waitForServerToClose

Interrupt ==
    /\ stop = "waits"
    /\ stop' = "shuts"
    /\ UNCHANGED <<config, provider, main, exit, serve, requests>>

\* Shutdown succeeds and is not reported.
ShutDown ==
    /\ stop = "shuts"
    /\ requests = {}
    /\ stop' = "done"
    /\ UNCHANGED <<config, provider, main, exit, serve, requests>>

\* Its two seconds are over.
ShutDownFails ==
    /\ stop = "shuts"
    /\ requests # {}
    /\ stop' = "error"
    /\ UNCHANGED <<config, provider, main, exit, serve, requests>>

\* The first report is the result.
Reported(e) == Ends(IF e = "closed" THEN "ok" ELSE "failed")

WaitForServerToClose ==
    /\ main = "waits"
    /\ \/ serve \in {"error", "closed"} /\ Reported(serve)
       \/ stop = "error" /\ Reported(stop)
    /\ UNCHANGED <<config, provider, serve, stop, requests>>

-----------------------------------------------------------------------------

LifecycleNext ==
    /\ exit = "running"
    /\ \/ Get \/ LookUp \/ ReadUsers \/ StartTurn \/ StartServer \/ Notify \/ Kill
       \/ ListenFails \/ Listen \/ Returns
       \/ Interrupt \/ ShutDown \/ ShutDownFails \/ WaitForServerToClose
       \/ \E r \in Request : Ask(r) \/ Answer(r)

LifecycleSpec == LifecycleInit /\ [][LifecycleNext]_lifecycleVars

\* Goroutines run, and Serve returns once Shutdown has closed its listener.
\* Requests need not end.
Fairness ==
    /\ WF_lifecycleVars(exit = "running" /\ (Listen \/ ListenFails))
    /\ WF_lifecycleVars(exit = "running" /\ ~Unstopped /\ Returns)
    /\ WF_lifecycleVars(exit = "running" /\ WaitForServerToClose)

FairLifecycleSpec == LifecycleSpec /\ Fairness

-----------------------------------------------------------------------------
\* Properties

\* An accepted configuration can be run on, and all of it is meant: there is somebody to
\* ask for an address (serve.go:34 calls a method of an interface that parseIPProvider may
\* leave nil), and every address is used, none being dropped or replaced by another of
\* its family (parseStatic).
AcceptedAddressesAreUsed ==
    /\ exit # "panic"
    /\ main \in {"provider", "users", "turn", "start", "notify", "waits"} /\ provider # Domain =>
          \A i \in DOMAIN config.ips :
              config.ips[i] \in {provider["v4"], provider["v6"]}

\* Once interrupted, Start returns, although a shutdown that succeeds reports
\* nothing and requests may go on.
InterruptEnds == (stop = "shuts") ~> (exit # "running")

\* What Start returns is what became of the shutdown: nil only when it has succeeded and
\* no request is left (server_test.go:35, TestShutdownOnErrorWhileShutdown, expects the
\* error of the shutdown).
FailedShutdownIsReported ==
    exit = "ok" => requests = {}
=============================================================================
