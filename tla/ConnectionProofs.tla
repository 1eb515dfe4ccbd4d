--------------------------- MODULE ConnectionProofs ----------------------------
(***************************************************************************)
(* Proofs about the goroutines of any number of connections and probes:    *)
(* what closes a connection reports it once, and never too early.          *)
(***************************************************************************)
EXTENDS Connection, SequenceTheorems, TLAPS

-----------------------------------------------------------------------------
\* The inductive invariant

\* Where the goroutines of a connection may be.
Control ==
    /\ pc = [g \in Goroutine |-> pc[g]]
    /\ \A c \in Client :
        /\ pc[Upgrader(c)] \in {"none", "send", "start", "done"}
        /\ pc[Reader(c)] \in {"none", "read", "send", "load", "lock", "shut", "done"}
        /\ pc[Writer(c)] \in {"none", "select", "write", "load", "lock", "shut", "done"}
        /\ pc[Leaver(c)] \in {"none", "leave", "send", "done"}

Letter(g, event) == [from |-> g, event |-> event]

\* Who sends what; the senders that wait at Incoming are the goroutines at their send.
Letters ==
    {Letter(Upgrader(c), "Connected") : c \in Client}
        \cup {Letter(Reader(c), "event") : c \in Client}
        \cup {Letter(Leaver(c), "Disconnected") : c \in Client}
        \cup {Letter(<<p, "health">>, "Health") : p \in Prober}

Queue ==
    /\ incoming \in Seq(Letters)
    /\ \A i \in DOMAIN incoming : incoming[i].event # "Health" => pc[incoming[i].from] = "send"
    /\ \A i, j \in DOMAIN incoming :
        incoming[i].event # "Health" /\ incoming[i].from = incoming[j].from => i = j

\* Until the loop has taken Connected nothing else of the connection runs, and it
\* is not connected.
Begins(c) ==
    /\ sock[c] = "none" <=> pc[Upgrader(c)] = "none"
    /\ pc[Upgrader(c)] # "done" =>
           /\ pc[Reader(c)] = "none" /\ pc[Writer(c)] = "none" /\ pc[Leaver(c)] = "none"
           /\ ~once[c]
    /\ c \in connected => pc[Upgrader(c)] \in {"start", "done"}

Beginnings ==
    /\ sock = [c \in Client |-> sock[c]]
    /\ once \in [Client -> BOOLEAN]
    /\ connected \subseteq Client /\ members \subseteq connected
    /\ \A c \in Client : Begins(c)

\* The loop has known c and does so no longer.
Dismissed(c) == c \notin connected /\ pc[Upgrader(c)] \in {"start", "done"}

SafeBatch ==
    {b \in [what : {"message", "CloseWriter", "count"}, to : SUBSET (Client \cup Prober)] :
        /\ b.what = "CloseWriter" => \A c \in b.to : c \in Client /\ Dismissed(c)
        /\ b.what = "count" => b.to \subseteq Prober}

\* Only those the loop does not know any more are sent CloseWriter, so that what the
\* writer closes then needs no report.
Closings ==
    /\ outbox \in Seq(SafeBatch)
    /\ write \in [Client -> Seq({"message", "CloseWriter"})]
    /\ hand = [c \in Client |-> hand[c]]
    /\ \A c \in Client :
        /\ \A i \in DOMAIN write[c] : write[c][i] = "CloseWriter" => Dismissed(c)
        /\ hand[c] = "CloseWriter" => Dismissed(c)

\* A report for every once.
Farewells ==
    /\ farewells \in [Client -> Nat]
    /\ \A c \in Client :
        /\ farewells[c] <= IF once[c] THEN 1 ELSE 0
        /\ ~once[c] => pc[Leaver(c)] = "none"

ConnectionInv == Control /\ Queue /\ Beginnings /\ Closings /\ Farewells /\ NoGhosts

-----------------------------------------------------------------------------
\* Sequences

\* Taking one away from the middle of a sequence keeps the others.
LEMMA RemovedAt ==
    ASSUME NEW S, NEW s \in Seq(S), NEW i \in DOMAIN s
    PROVE  /\ RemoveAt(s, i) \in Seq(S)
           /\ Len(RemoveAt(s, i)) = Len(s) - 1
           /\ \A j \in 1 .. Len(s) - 1 : RemoveAt(s, i)[j] = s[IF j < i THEN j ELSE j + 1]
<1>1. i \in 1 .. Len(s) /\ Len(s) \in Nat
  OBVIOUS
<1> DEFINE a == SubSeq(s, 1, i - 1)  b == SubSeq(s, i + 1, Len(s))
<1>2. /\ a \in Seq(S) /\ Len(a) = i - 1
      /\ \A j \in 1 .. i - 1 : a[j] = s[j]
  BY <1>1, SubSeqProperties
<1>3. /\ b \in Seq(S) /\ Len(b) = Len(s) - i
      /\ \A j \in 1 .. Len(s) - i : b[j] = s[j + i]
  BY <1>1, SubSeqProperties
<1> HIDE DEF a, b
<1>4. /\ a \o b \in Seq(S) /\ Len(a \o b) = Len(s) - 1
      /\ \A j \in 1 .. Len(s) - 1 :
            (a \o b)[j] = IF j <= i - 1 THEN a[j] ELSE b[j - (i - 1)]
  BY <1>1, <1>2, <1>3, ConcatProperties
<1>5. RemoveAt(s, i) = a \o b
  BY DEF RemoveAt, a, b
<1>6. ASSUME NEW j \in 1 .. Len(s) - 1
      PROVE  (a \o b)[j] = s[IF j < i THEN j ELSE j + 1]
  <2>1. CASE j < i
    BY <1>1, <1>2, <1>4, <2>1
  <2>2. CASE ~(j < i)
    <3>1. j - (i - 1) \in 1 .. Len(s) - i /\ j - (i - 1) + i = j + 1
      BY <1>1, <2>2
    <3> QED BY <1>1, <1>3, <1>4, <2>2, <3>1
  <2> QED BY <2>1, <2>2
<1> QED BY <1>4, <1>5, <1>6

-----------------------------------------------------------------------------
\* Whose goroutines they are

\* A goroutine is one of the four of one connection.
LEMMA Goroutines ==
    /\ \A c \in Client :
        {Upgrader(c), Reader(c), Writer(c), Leaver(c)} \subseteq Goroutine
    /\ \A c, d \in Client :
        /\ Upgrader(c) \notin {Reader(d), Writer(d), Leaver(d)}
        /\ Reader(c) \notin {Writer(d), Leaver(d)}
        /\ Writer(c) # Leaver(d)
        /\ c # d => /\ Upgrader(c) # Upgrader(d) /\ Reader(c) # Reader(d)
                    /\ Writer(c) # Writer(d) /\ Leaver(c) # Leaver(d)
BY DEF Goroutine, Upgrader, Reader, Writer, Leaver

LEMMA OwnGoroutines ==
    ASSUME NEW c
    PROVE  /\ Upgrader(c)[1] = c /\ Reader(c)[1] = c /\ Writer(c)[1] = c /\ Leaver(c)[1] = c
           /\ Reader(c)[2] = "reader" /\ Writer(c)[2] = "writer"
BY DEF Upgrader, Reader, Writer, Leaver

\* A letter of a goroutine tells whose it is.
LEMMA LettersAreSigned ==
    ASSUME NEW m \in Letters
    PROVE  \/ /\ m.event = "Health"
              /\ \E p \in Prober : m.from = <<p, "health">>
           \/ \E c \in Client :
                \/ m = Letter(Upgrader(c), "Connected") /\ m.event = "Connected"
                \/ m = Letter(Reader(c), "event") /\ m.event = "event"
                \/ m = Letter(Leaver(c), "Disconnected") /\ m.event = "Disconnected"
BY DEF Letters, Letter

LEMMA InitConnectionInv == Init => ConnectionInv
<1> SUFFICES ASSUME Init PROVE ConnectionInv
  OBVIOUS
<1>1. Control
  BY Goroutines DEF Init, Control
<1>2. Queue
  BY DEF Init, Queue
<1>3. Beginnings
  BY Goroutines DEF Init, Beginnings, Begins
<1>4. Closings
  BY DEF Init, Closings
<1>5. Farewells
  BY Goroutines DEF Init, Farewells
<1>6. NoGhosts
  BY DEF Init, NoGhosts
<1> QED BY <1>1, <1>2, <1>3, <1>4, <1>5, <1>6 DEF ConnectionInv

-----------------------------------------------------------------------------
\* Steps that leave the queue and what the loop knows alone: the goroutines of one
\* connection go on.

\* A sender joins the queue.
LEMMA SentLetter ==
    ASSUME ConnectionInv, NEW g, NEW event, Letter(g, event) \in Letters, event # "Health",
           pc[g] # "send", pc'[g] = "send",
           \A h \in Goroutine : pc[h] = "send" => pc'[h] = "send",
           Sends(g, event)
    PROVE  Queue'
<1>1. incoming' = Append(incoming, Letter(g, event))
  BY DEF Sends, Letter
<1>2. incoming \in Seq(Letters)
  BY DEF ConnectionInv, Queue
<1>3. /\ incoming' \in Seq(Letters) /\ Len(incoming') = Len(incoming) + 1
      /\ \A i \in 1 .. Len(incoming) : incoming'[i] = incoming[i]
      /\ incoming'[Len(incoming) + 1] = Letter(g, event)
  BY <1>1, <1>2, AppendProperties
<1>4. Letter(g, event).from = g /\ Letter(g, event).event = event
  BY DEF Letter
<1>5. DOMAIN incoming' = 1 .. Len(incoming) + 1 /\ DOMAIN incoming = 1 .. Len(incoming)
      /\ Len(incoming) \in Nat
  BY <1>2, <1>3
<1>6. \A i \in 1 .. Len(incoming) : incoming[i].event # "Health" =>
        incoming[i].from \in Goroutine /\ pc[incoming[i].from] = "send"
  <2> SUFFICES ASSUME NEW i \in 1 .. Len(incoming), incoming[i].event # "Health"
               PROVE  incoming[i].from \in Goroutine /\ pc[incoming[i].from] = "send"
    OBVIOUS
  <2>1. incoming[i] \in Letters /\ pc[incoming[i].from] = "send"
    BY <1>2, <1>5 DEF ConnectionInv, Queue
  <2> QED BY <2>1, LettersAreSigned, Goroutines DEF Letter
<1>7. \A i \in DOMAIN incoming' :
        incoming'[i].event # "Health" => pc'[incoming'[i].from] = "send"
  BY <1>3, <1>4, <1>5, <1>6
<1>8. \A i, j \in DOMAIN incoming' :
        incoming'[i].event # "Health" /\ incoming'[i].from = incoming'[j].from => i = j
  <2> SUFFICES ASSUME NEW i \in DOMAIN incoming', NEW j \in DOMAIN incoming',
                      incoming'[i].event # "Health", incoming'[i].from = incoming'[j].from
               PROVE  i = j
    OBVIOUS
  <2>1. incoming'[j].event # "Health"
    <3>1. incoming'[i] \in Letters /\ incoming'[j] \in Letters
      BY <1>3
    <3> QED BY <3>1, LettersAreSigned DEF Letter, Upgrader, Reader, Leaver
  <2>2. CASE i \in 1 .. Len(incoming) /\ j \in 1 .. Len(incoming)
    BY <1>3, <1>5, <2>2 DEF ConnectionInv, Queue
  <2>3. CASE i = Len(incoming) + 1 /\ j \in 1 .. Len(incoming)
    BY <1>3, <1>4, <1>6, <2>1, <2>3
  <2>4. CASE j = Len(incoming) + 1 /\ i \in 1 .. Len(incoming)
    BY <1>3, <1>4, <1>6, <2>1, <2>4
  <2>5. CASE i = Len(incoming) + 1 /\ j = Len(incoming) + 1
    BY <2>5
  <2> QED BY <1>5, <2>2, <2>3, <2>4, <2>5
<1> QED BY <1>3, <1>7, <1>8 DEF Queue

\* The queue stays, and so do its senders.
LEMMA QueueStays ==
    ASSUME ConnectionInv, incoming' = incoming,
           \A h \in Goroutine : pc[h] = "send" => pc'[h] = "send"
    PROVE  Queue'
<1>1. \A i \in DOMAIN incoming : incoming[i].event # "Health" =>
        incoming[i].from \in Goroutine
  <2> SUFFICES ASSUME NEW i \in DOMAIN incoming, incoming[i].event # "Health"
               PROVE  incoming[i].from \in Goroutine
    OBVIOUS
  <2>1. incoming[i] \in Letters
    BY DEF ConnectionInv, Queue
  <2> QED BY <2>1, LettersAreSigned, Goroutines DEF Letter
<1> QED BY <1>1 DEF ConnectionInv, Queue

\* Who is dismissed stays so, and batches stay safe.
LEMMA SafeBatchesStay ==
    ASSUME \A c \in Client : Dismissed(c) => Dismissed(c)'
    PROVE  SafeBatch \subseteq SafeBatch'
BY DEF SafeBatch

\* A report that is on its way stays so while the queue only grows.
LEMMA StaysOnItsWay ==
    ASSUME ConnectionInv, NEW c \in Client, OnItsWay(c),
           pc[Leaver(c)] = "leave" => pc'[Leaver(c)] = "leave",
           \/ incoming' = incoming
           \/ \E g, event : Letter(g, event) \in Letters /\ Sends(g, event)
    PROVE  OnItsWay(c)'
<1>1. CASE pc[Leaver(c)] = "leave"
  BY <1>1 DEF OnItsWay
<1>2. CASE pc[Leaver(c)] # "leave"
  <2>1. PICK i \in DOMAIN incoming : incoming[i] = [from |-> Leaver(c), event |-> "Disconnected"]
    BY <1>2 DEF OnItsWay
  <2>2. incoming \in Seq(Letters)
    BY DEF ConnectionInv, Queue
  <2>3. i \in DOMAIN incoming' /\ incoming'[i] = incoming[i]
    <3>1. CASE incoming' = incoming
      BY <2>1, <3>1
    <3>2. CASE \E g, event : Letter(g, event) \in Letters /\ Sends(g, event)
      <4>1. PICK g, event : Letter(g, event) \in Letters
                            /\ incoming' = Append(incoming, Letter(g, event))
        BY <3>2 DEF Sends, Letter
      <4> QED BY <2>1, <2>2, <4>1, AppendProperties
    <3> QED BY <3>1, <3>2
  <2> QED BY <2>1, <2>3 DEF OnItsWay
<1> QED BY <1>1, <1>2

LEMMA UpgradeSafe ==
    ASSUME ConnectionInv, NEW c \in Client, Upgrade(c)
    PROVE  ConnectionInv'
<1>1. /\ pc[Upgrader(c)] = "none" /\ c \notin connected /\ ~once[c] /\ sock[c] = "none"
      /\ pc[Reader(c)] = "none" /\ pc[Writer(c)] = "none" /\ pc[Leaver(c)] = "none"
  BY DEF ConnectionInv, Beginnings, Begins, Upgrade
<1>2. /\ pc = [g \in Goroutine |-> pc[g]]
      /\ pc' = [pc EXCEPT ![Upgrader(c)] = "send"] /\ Upgrader(c) \in Goroutine
  BY Goroutines DEF ConnectionInv, Control, Upgrade
<1>3. Control'
  BY <1>2, Goroutines DEF ConnectionInv, Control
<1>4. Queue'
  <2>1. Letter(Upgrader(c), "Connected") \in Letters
    BY DEF Letters
  <2>2. Sends(Upgrader(c), "Connected")
    BY DEF Upgrade
  <2> QED BY <1>1, <1>2, <2>1, <2>2, SentLetter
<1>5. Beginnings'
  <2>1. /\ sock' = [sock EXCEPT ![c] = "open"] /\ sock = [d \in Client |-> sock[d]]
        /\ UNCHANGED <<once, connected, members>>
    BY DEF ConnectionInv, Beginnings, Upgrade
  <2>2. Begins(c)'
    BY <1>1, <1>2, <2>1, Goroutines DEF Begins
  <2>3. ASSUME NEW d \in Client, d # c PROVE Begins(d)'
    <3>1. /\ pc'[Upgrader(d)] = pc[Upgrader(d)] /\ pc'[Reader(d)] = pc[Reader(d)]
          /\ pc'[Writer(d)] = pc[Writer(d)] /\ pc'[Leaver(d)] = pc[Leaver(d)]
          /\ sock'[d] = sock[d] /\ Begins(d)
      BY <1>2, <2>1, <2>3, Goroutines DEF ConnectionInv, Beginnings
    <3> QED BY <2>1, <3>1 DEF Begins
  <2> QED BY <2>1, <2>2, <2>3 DEF ConnectionInv, Beginnings
<1>6. Closings'
  <2>1. \A d \in Client : Dismissed(d) => Dismissed(d)'
    BY <1>1, <1>2, Goroutines DEF Dismissed, Upgrade, Upgrader, Goroutine
  <2> QED BY <2>1, SafeBatchesStay DEF ConnectionInv, Closings, Upgrade
<1>7. Farewells'
  BY <1>2, Goroutines DEF ConnectionInv, Farewells, Upgrade
<1>8. NoGhosts'
  <2> SUFFICES ASSUME NEW d \in connected', once'[d] PROVE OnItsWay(d)'
    BY DEF NoGhosts
  <2>1. d \in connected /\ d \in Client /\ once[d] /\ OnItsWay(d)
    BY DEF ConnectionInv, NoGhosts, Beginnings, Upgrade
  <2>2. pc'[Leaver(d)] = pc[Leaver(d)]
    BY <1>2, <2>1, Goroutines
  <2>3. Letter(Upgrader(c), "Connected") \in Letters /\ Sends(Upgrader(c), "Connected")
    BY DEF Letters, Upgrade
  <2> QED BY <2>1, <2>2, <2>3, StaysOnItsWay
<1> QED BY <1>3, <1>4, <1>5, <1>6, <1>7, <1>8 DEF ConnectionInv

\* What a step leaves alone of a connection.
Stays(d) ==
    /\ pc'[Upgrader(d)] = pc[Upgrader(d)] /\ pc'[Reader(d)] = pc[Reader(d)]
    /\ pc'[Writer(d)] = pc[Writer(d)] /\ pc'[Leaver(d)] = pc[Leaver(d)]

Still(d) ==
    /\ Stays(d)
    /\ sock'[d] = sock[d] /\ once'[d] = once[d] /\ farewells'[d] = farewells[d]
    /\ hand'[d] = hand[d] /\ write'[d] = write[d]

\* What the fields of all connections are functions of.
Shapes ==
    /\ pc' = [g \in Goroutine |-> pc'[g]]
    /\ sock' = [c \in Client |-> sock'[c]]
    /\ once' \in [Client -> BOOLEAN]
    /\ farewells' \in [Client -> Nat]
    /\ hand' = [c \in Client |-> hand'[c]]
    /\ write' \in [Client -> Seq({"message", "CloseWriter"})]

\* A goroutine of c, which has begun, goes on.
LEMMA GoesOn ==
    ASSUME ConnectionInv, NEW c \in Client,
           Shapes, \A d \in Client \ {c} : Still(d),
           UNCHANGED <<connected, members, outbox>>,
           pc[Upgrader(c)] \in {"start", "done"}, pc'[Upgrader(c)] = "done",
           pc'[Reader(c)] \in {"none", "read", "send", "load", "lock", "shut", "done"},
           pc'[Writer(c)] \in {"none", "select", "write", "load", "lock", "shut", "done"},
           pc'[Leaver(c)] \in {"none", "leave", "send", "done"},
           sock'[c] # "none",
           \A i \in DOMAIN write'[c] : write'[c][i] = "CloseWriter" => Dismissed(c),
           hand'[c] = "CloseWriter" => Dismissed(c),
           farewells'[c] <= IF once'[c] THEN 1 ELSE 0,
           ~once'[c] => pc'[Leaver(c)] = "none",
           Queue',
           c \in connected /\ once'[c] => OnItsWay(c)',
           \/ incoming' = incoming
           \/ \E g, event : Letter(g, event) \in Letters /\ Sends(g, event)
    PROVE  ConnectionInv'
<1>1. Control'
  BY DEF ConnectionInv, Control, Shapes, Still, Stays
<1>2. Beginnings'
  <2>1. Begins(c)'
    BY DEF ConnectionInv, Beginnings, Begins
  <2>2. ASSUME NEW d \in Client, d # c PROVE Begins(d)'
    <3>1. Begins(d) /\ Still(d)
      BY <2>2 DEF ConnectionInv, Beginnings
    <3> QED BY <3>1 DEF Begins, Still, Stays
  <2> QED BY <2>1, <2>2 DEF ConnectionInv, Beginnings, Shapes
<1>3. \A d \in Client : Dismissed(d) => Dismissed(d)'
  BY DEF Dismissed, Still, Stays
<1>4. SafeBatch \subseteq SafeBatch'
  BY <1>3, SafeBatchesStay
<1>5. Closings'
  BY <1>3, <1>4 DEF ConnectionInv, Closings, Shapes, Still, Stays
<1>6. Farewells'
  <2>1. ASSUME NEW d \in Client, d # c
        PROVE  /\ farewells'[d] <= IF once'[d] THEN 1 ELSE 0
               /\ ~once'[d] => pc'[Leaver(d)] = "none"
    BY <2>1 DEF ConnectionInv, Farewells, Still, Stays
  <2> QED BY <2>1 DEF Farewells, Shapes
<1>7. NoGhosts'
  BY StaysOnItsWay DEF ConnectionInv, NoGhosts, Beginnings, Still, Stays
<1> QED BY <1>1, <1>2, <1>5, <1>6, <1>7 DEF ConnectionInv

-----------------------------------------------------------------------------
\* The goroutines of one connection, step by step

\* Whose reader or writer runs has begun.
LEMMA Running ==
    ASSUME ConnectionInv, NEW c \in Client,
           pc[Reader(c)] # "none" \/ pc[Writer(c)] # "none" \/ pc[Leaver(c)] # "none"
    PROVE  pc[Upgrader(c)] = "done" /\ sock[c] # "none"
BY DEF ConnectionInv, Beginnings, Begins

\* The fields, as functions.
LEMMA Fields ==
    ASSUME ConnectionInv
    PROVE  /\ pc = [g \in Goroutine |-> pc[g]]
           /\ sock = [c \in Client |-> sock[c]]
           /\ once \in [Client -> BOOLEAN]
           /\ farewells \in [Client -> Nat]
           /\ hand = [c \in Client |-> hand[c]]
           /\ write \in [Client -> Seq({"message", "CloseWriter"})]
BY DEF ConnectionInv, Control, Beginnings, Farewells, Closings

\* What holds of c now.
LEMMA Presently ==
    ASSUME ConnectionInv, NEW c \in Client
    PROVE  /\ pc[Upgrader(c)] \in {"none", "send", "start", "done"}
           /\ pc[Reader(c)] \in {"none", "read", "send", "load", "lock", "shut", "done"}
           /\ pc[Writer(c)] \in {"none", "select", "write", "load", "lock", "shut", "done"}
           /\ pc[Leaver(c)] \in {"none", "leave", "send", "done"}
           /\ \A i \in DOMAIN write[c] : write[c][i] = "CloseWriter" => Dismissed(c)
           /\ hand[c] = "CloseWriter" => Dismissed(c)
           /\ farewells[c] <= IF once[c] THEN 1 ELSE 0
           /\ ~once[c] => pc[Leaver(c)] = "none"
           /\ c \in connected /\ once[c] => OnItsWay(c)
BY DEF ConnectionInv, Control, Closings, Farewells, NoGhosts

\* One goroutine of c moves from a place that is no send.
Moves(c, g, x) ==
    /\ g \in {Upgrader(c), Reader(c), Writer(c), Leaver(c)}
    /\ pc[g] # "send"
    /\ pc' = [pc EXCEPT ![g] = x]

LEMMA OneMoves ==
    ASSUME ConnectionInv, NEW c \in Client, NEW g, NEW x, Moves(c, g, x)
    PROVE  /\ pc' = [h \in Goroutine |-> pc'[h]]
           /\ pc'[g] = x
           /\ \A h \in {Upgrader(c), Reader(c), Writer(c), Leaver(c)} \ {g} : pc'[h] = pc[h]
           /\ \A d \in Client \ {c} : Stays(d)
           /\ \A h \in Goroutine : pc[h] = "send" => pc'[h] = "send"
<1>1. pc = [h \in Goroutine |-> pc[h]] /\ g \in Goroutine
  BY Fields, Goroutines DEF Moves
<1>2. \A h \in Goroutine : pc'[h] = IF h = g THEN x ELSE pc[h]
  BY <1>1 DEF Moves
<1>3. pc' = [h \in Goroutine |-> pc'[h]]
  BY <1>1 DEF Moves
<1>4. \A h \in {Upgrader(c), Reader(c), Writer(c), Leaver(c)} : h \in Goroutine
  BY Goroutines
<1>5. ASSUME NEW d \in Client \ {c}
      PROVE  Stays(d)
  BY <1>2, Goroutines DEF Moves, Stays
<1> QED BY <1>1, <1>2, <1>3, <1>4, <1>5 DEF Moves

\* The two goroutines with which an upgrade ends.
LEMMA StartSafe ==
    ASSUME ConnectionInv, NEW c \in Client, Start(c)
    PROVE  ConnectionInv'
<1>1. /\ pc[Upgrader(c)] = "start" /\ sock[c] # "none" /\ ~once[c]
      /\ pc[Reader(c)] = "none" /\ pc[Writer(c)] = "none" /\ pc[Leaver(c)] = "none"
  BY DEF ConnectionInv, Beginnings, Begins, Start
<1>2. \A h \in Goroutine :
        pc'[h] = IF h = Upgrader(c) THEN "done" ELSE IF h = Reader(c) THEN "read"
                 ELSE IF h = Writer(c) THEN "select" ELSE pc[h]
  BY Fields, Goroutines DEF Start
<1>3. pc' = [h \in Goroutine |-> pc'[h]]
  BY Fields DEF Start
<1>4. \A d \in Client \ {c} : Still(d)
  BY <1>2, Goroutines DEF Still, Stays, Start
<1>5. /\ pc'[Upgrader(c)] = "done" /\ pc'[Reader(c)] = "read" /\ pc'[Writer(c)] = "select"
      /\ pc'[Leaver(c)] = "none"
  BY <1>1, <1>2, Goroutines
<1>6. Queue'
  BY <1>1, <1>2, QueueStays DEF Start
<1>7. Shapes
  BY <1>3, Fields DEF Start, Shapes
<1> QED BY <1>1, <1>4, <1>5, <1>6, <1>7, GoesOn, Presently DEF Start

\* An event of the page.
LEMMA ReadSafe ==
    ASSUME ConnectionInv, NEW c \in Client, Read(c)
    PROVE  ConnectionInv'
<1>1. pc[Reader(c)] = "read" /\ pc[Upgrader(c)] = "done" /\ sock[c] # "none"
  BY Running DEF Read
<1>2. Moves(c, Reader(c), "send")
  BY <1>1 DEF Moves, Read
<1>3. Letter(Reader(c), "event") \in Letters /\ Sends(Reader(c), "event")
  BY DEF Letters, Read
<1>4. Queue'
  BY <1>1, <1>2, <1>3, OneMoves, SentLetter
<1>5. Shapes /\ \A d \in Client \ {c} : Still(d)
  <2>1. Shapes
    BY <1>2, OneMoves, Fields DEF Read, Shapes
  <2>2. \A d \in Client \ {c} : Still(d)
    <3>1. \A d \in Client \ {c} : Stays(d)
      BY <1>2, OneMoves
    <3> QED BY <3>1, Fields DEF Read, Still
  <2> QED BY <2>1, <2>2
<1>6. pc'[Reader(c)] = "send" /\ pc'[Upgrader(c)] = "done" /\ pc'[Writer(c)] = pc[Writer(c)]
      /\ pc'[Leaver(c)] = pc[Leaver(c)]
  BY <1>1, <1>2, OneMoves, Goroutines
<1>7. OnItsWay(c) => OnItsWay(c)'
  BY <1>3, <1>6, StaysOnItsWay
<1> QED BY <1>1, <1>3, <1>4, <1>5, <1>6, <1>7, GoesOn, Presently DEF Read

\* The goroutine of CloseOnError reaches Incoming.
LEMMA LeaveSafe ==
    ASSUME ConnectionInv, NEW c \in Client, Leave(c)
    PROVE  ConnectionInv'
<1>1. pc[Leaver(c)] = "leave" /\ pc[Upgrader(c)] = "done" /\ sock[c] # "none"
  BY Running DEF Leave
<1>2. Moves(c, Leaver(c), "send")
  BY <1>1 DEF Moves, Leave
<1>3. Letter(Leaver(c), "Disconnected") \in Letters /\ Sends(Leaver(c), "Disconnected")
  BY DEF Letters, Leave
<1>4. Queue'
  BY <1>1, <1>2, <1>3, OneMoves, SentLetter
<1>5. Shapes /\ \A d \in Client \ {c} : Still(d)
  <2>1. Shapes
    BY <1>2, OneMoves, Fields DEF Leave, Shapes
  <2>2. \A d \in Client \ {c} : Still(d)
    <3>1. \A d \in Client \ {c} : Stays(d)
      BY <1>2, OneMoves
    <3> QED BY <3>1, Fields DEF Leave, Still
  <2> QED BY <2>1, <2>2
<1>6. pc'[Leaver(c)] = "send" /\ pc'[Upgrader(c)] = "done" /\ pc'[Writer(c)] = pc[Writer(c)]
      /\ pc'[Reader(c)] = pc[Reader(c)]
  BY <1>1, <1>2, OneMoves, Goroutines
<1>7. OnItsWay(c)'
  <2>1. incoming' = Append(incoming, [from |-> Leaver(c), event |-> "Disconnected"])
        /\ incoming \in Seq(Letters)
    BY DEF Leave, Sends, ConnectionInv, Queue
  <2>2. Len(incoming) + 1 \in DOMAIN incoming'
        /\ incoming'[Len(incoming) + 1] = [from |-> Leaver(c), event |-> "Disconnected"]
    BY <1>3, <2>1, AppendProperties DEF Letter
  <2> QED BY <2>2 DEF OnItsWay
<1> QED BY <1>1, <1>3, <1>4, <1>5, <1>6, <1>7, GoesOn, Presently DEF Leave

\* The reader gives up.
LEMMA RejectSafe ==
    ASSUME ConnectionInv, NEW c \in Client, Reject(c)
    PROVE  ConnectionInv'
<1>1. pc[Reader(c)] = "read" /\ pc[Upgrader(c)] = "done" /\ sock[c] # "none"
  BY Running DEF Reject
<1> DEFINE place == "load"
<1>2. Moves(c, Reader(c), place)
  BY <1>1 DEF Moves, Reject
<1>3. Queue'
  BY <1>1, <1>2, OneMoves, QueueStays DEF Reject
<1>4. Shapes /\ \A d \in Client \ {c} : Still(d)
  <2>1. Shapes
    BY <1>2, OneMoves, Fields DEF Reject, Shapes
  <2>2. \A d \in Client \ {c} : Still(d)
    <3>1. \A d \in Client \ {c} : Stays(d)
      BY <1>2, OneMoves
    <3> QED BY <3>1, Fields DEF Reject, Still
  <2> QED BY <2>1, <2>2
<1>5. pc'[Reader(c)] = place /\ pc'[Upgrader(c)] = "done" /\ pc'[Writer(c)] = pc[Writer(c)]
      /\ pc'[Leaver(c)] = pc[Leaver(c)]
  BY <1>1, <1>2, OneMoves, Goroutines
<1>6. OnItsWay(c) => OnItsWay(c)'
  BY <1>5, StaysOnItsWay DEF Reject
<1> QED BY <1>1, <1>3, <1>4, <1>5, <1>6, GoesOn, Presently, Fields DEF Reject

\* The writer takes a message.
LEMMA TakeSafe ==
    ASSUME ConnectionInv, NEW c \in Client, Take(c)
    PROVE  ConnectionInv'
<1>1. pc[Writer(c)] = "select" /\ pc[Upgrader(c)] = "done" /\ sock[c] # "none"
  BY Running DEF Take
<1> DEFINE place == IF Head(write[c]) = "CloseWriter" THEN "load" ELSE "write"
<1>0. /\ write[c] \in Seq({"message", "CloseWriter"}) /\ write[c] # <<>>
      /\ Tail(write[c]) \in Seq({"message", "CloseWriter"})
      /\ 1 \in DOMAIN write[c] /\ Head(write[c]) = write[c][1]
      /\ \A i \in DOMAIN Tail(write[c]) : i + 1 \in DOMAIN write[c]
                                           /\ Tail(write[c])[i] = write[c][i + 1]
  BY Fields DEF Take
<1>2. Moves(c, Writer(c), place)
  BY <1>1 DEF Moves, Take
<1>3. Queue'
  BY <1>1, <1>2, OneMoves, QueueStays DEF Take
<1>4. Shapes /\ \A d \in Client \ {c} : Still(d)
  <2>1. Shapes
    BY <1>2, OneMoves, Fields, <1>0 DEF Take, Shapes
  <2>2. \A d \in Client \ {c} : Still(d)
    <3>1. \A d \in Client \ {c} : Stays(d)
      BY <1>2, OneMoves
    <3> QED BY <3>1, Fields DEF Take, Still
  <2> QED BY <2>1, <2>2
<1>5. pc'[Writer(c)] = place /\ pc'[Upgrader(c)] = "done" /\ pc'[Reader(c)] = pc[Reader(c)]
      /\ pc'[Leaver(c)] = pc[Leaver(c)]
  BY <1>1, <1>2, OneMoves, Goroutines
<1>6. OnItsWay(c) => OnItsWay(c)'
  BY <1>5, StaysOnItsWay DEF Take
<1>7. /\ hand'[c] = "CloseWriter" => Dismissed(c)
      /\ \A i \in DOMAIN write'[c] : write'[c][i] = "CloseWriter" => Dismissed(c)
  BY <1>0, Presently, Fields DEF Take
<1>8. place \in {"load", "write"}
  OBVIOUS
<1> HIDE DEF place
<1> QED BY <1>1, <1>3, <1>4, <1>5, <1>6, <1>7, <1>8, GoesOn, Presently, Fields DEF Take

\* The writer pings.
LEMMA PingSafe ==
    ASSUME ConnectionInv, NEW c \in Client, Ping(c)
    PROVE  ConnectionInv'
<1>1. pc[Writer(c)] = "select" /\ pc[Upgrader(c)] = "done" /\ sock[c] # "none"
  BY Running DEF Ping
<1> DEFINE place == "write"
<1>2. Moves(c, Writer(c), place)
  BY <1>1 DEF Moves, Ping
<1>3. Queue'
  BY <1>1, <1>2, OneMoves, QueueStays DEF Ping
<1>4. Shapes /\ \A d \in Client \ {c} : Still(d)
  <2>1. Shapes
    BY <1>2, OneMoves, Fields DEF Ping, Shapes
  <2>2. \A d \in Client \ {c} : Still(d)
    <3>1. \A d \in Client \ {c} : Stays(d)
      BY <1>2, OneMoves
    <3> QED BY <3>1, Fields DEF Ping, Still
  <2> QED BY <2>1, <2>2
<1>5. pc'[Writer(c)] = place /\ pc'[Upgrader(c)] = "done" /\ pc'[Reader(c)] = pc[Reader(c)]
      /\ pc'[Leaver(c)] = pc[Leaver(c)]
  BY <1>1, <1>2, OneMoves, Goroutines
<1>6. OnItsWay(c) => OnItsWay(c)'
  BY <1>5, StaysOnItsWay DEF Ping
<1> QED BY <1>1, <1>3, <1>4, <1>5, <1>6, GoesOn, Presently, Fields DEF Ping

\* The writer has written.
LEMMA WrittenSafe ==
    ASSUME ConnectionInv, NEW c \in Client, Written(c)
    PROVE  ConnectionInv'
<1>1. pc[Writer(c)] = "write" /\ pc[Upgrader(c)] = "done" /\ sock[c] # "none"
  BY Running DEF Written, EmptyHanded
<1> DEFINE place == "select"
<1>2. Moves(c, Writer(c), place)
  BY <1>1 DEF Moves, Written
<1>3. Queue'
  BY <1>1, <1>2, OneMoves, QueueStays DEF Written, EmptyHanded
<1>4. Shapes /\ \A d \in Client \ {c} : Still(d)
  <2>1. Shapes
    BY <1>2, OneMoves, Fields, OwnGoroutines DEF Written, EmptyHanded, Shapes
  <2>2. \A d \in Client \ {c} : Still(d)
    <3>1. \A d \in Client \ {c} : Stays(d)
      BY <1>2, OneMoves
    <3> QED BY <3>1, Fields, OwnGoroutines DEF Written, EmptyHanded, Still
  <2> QED BY <2>1, <2>2
<1>5. pc'[Writer(c)] = place /\ pc'[Upgrader(c)] = "done" /\ pc'[Reader(c)] = pc[Reader(c)]
      /\ pc'[Leaver(c)] = pc[Leaver(c)]
  BY <1>1, <1>2, OneMoves, Goroutines
<1>6. OnItsWay(c) => OnItsWay(c)'
  BY <1>5, StaysOnItsWay DEF Written, EmptyHanded
<1>7. hand'[c] = "none" /\ UNCHANGED <<sock, once, farewells, write, incoming, connected, members, outbox>>
  BY Fields, OwnGoroutines DEF Written, EmptyHanded
<1> QED BY <1>1, <1>3, <1>4, <1>5, <1>6, <1>7, GoesOn, Presently, Fields

\* The writer has not.
LEMMA WriteFailsSafe ==
    ASSUME ConnectionInv, NEW c \in Client, WriteFails(c)
    PROVE  ConnectionInv'
<1>1. pc[Writer(c)] = "write" /\ pc[Upgrader(c)] = "done" /\ sock[c] # "none"
  BY Running DEF WriteFails
<1> DEFINE place == "load"
<1>2. Moves(c, Writer(c), place)
  BY <1>1 DEF Moves, WriteFails
<1>3. Queue'
  BY <1>1, <1>2, OneMoves, QueueStays DEF WriteFails
<1>4. Shapes /\ \A d \in Client \ {c} : Still(d)
  <2>1. Shapes
    BY <1>2, OneMoves, Fields DEF WriteFails, Shapes
  <2>2. \A d \in Client \ {c} : Still(d)
    <3>1. \A d \in Client \ {c} : Stays(d)
      BY <1>2, OneMoves
    <3> QED BY <3>1, Fields DEF WriteFails, Still
  <2> QED BY <2>1, <2>2
<1>5. pc'[Writer(c)] = place /\ pc'[Upgrader(c)] = "done" /\ pc'[Reader(c)] = pc[Reader(c)]
      /\ pc'[Leaver(c)] = pc[Leaver(c)]
  BY <1>1, <1>2, OneMoves, Goroutines
<1>6. OnItsWay(c) => OnItsWay(c)'
  BY <1>5, StaysOnItsWay DEF WriteFails
<1> QED BY <1>1, <1>3, <1>4, <1>5, <1>6, GoesOn, Presently, Fields DEF WriteFails

\* once.Do: whoever closes goes on where Resumes says, or to the lock.
LEMMA ResumesSomewhere ==
    ASSUME NEW c
    PROVE  /\ Resumes(Reader(c)) = "done"
           /\ Resumes(Writer(c)) \in {"select", "done"}
BY OwnGoroutines DEF Resumes

\* A closer of c: its reader or its writer.
Closer(c, g) == g \in {Reader(c), Writer(c)}

\* What a closer does to the pcs and to the hand.
LEMMA CloserMoves ==
    ASSUME ConnectionInv, NEW c \in Client, NEW g, Closer(c, g), pc[g] \in {"load", "lock", "shut"},
           NEW x \in {"lock", "shut", Resumes(g)}, Moves(c, g, x),
           EmptyHanded(g) \/ hand' = hand,
           UNCHANGED <<write, incoming, connected, members, outbox>>,
           sock' = [d \in Client |-> sock'[d]], sock'[c] # "none", \A d \in Client \ {c} : sock'[d] = sock[d],
           once' \in [Client -> BOOLEAN], \A d \in Client \ {c} : once'[d] = once[d],
           farewells' = farewells, once[c] => once'[c],
           once'[c] => once[c] \/ hand[c] = "CloseWriter"
    PROVE  ConnectionInv'
<1>1. pc[Upgrader(c)] = "done"
  BY Running DEF Closer
<1>2. /\ pc'[Upgrader(c)] = "done" /\ pc'[Leaver(c)] = pc[Leaver(c)]
      /\ pc'[Reader(c)] \in {"none", "read", "send", "load", "lock", "shut", "done"}
      /\ pc'[Writer(c)] \in {"none", "select", "write", "load", "lock", "shut", "done"}
  <2>1. CASE g = Reader(c)
    BY <1>1, <2>1, OneMoves, Goroutines, ResumesSomewhere, Presently
  <2>2. CASE g = Writer(c)
    BY <1>1, <2>2, OneMoves, Goroutines, ResumesSomewhere, Presently
  <2> QED BY <2>1, <2>2 DEF Closer
<1>3. /\ hand' = [d \in Client |-> hand'[d]]
      /\ \A d \in Client \ {c} : hand'[d] = hand[d]
      /\ (hand'[c] = hand[c] \/ hand'[c] = "none")
  BY Fields, OwnGoroutines DEF EmptyHanded, Closer
<1>4. Shapes
  <2>1. pc' = [h \in Goroutine |-> pc'[h]]
    BY OneMoves
  <2> QED BY <1>3, <2>1, Fields DEF Shapes
<1>5. \A d \in Client \ {c} : Still(d)
  <2>1. \A d \in Client \ {c} : Stays(d)
    BY OneMoves
  <2> QED BY <1>3, <2>1 DEF Still
<1>6. Queue'
  <2>1. \A h \in Goroutine : pc[h] = "send" => pc'[h] = "send"
    BY OneMoves
  <2> QED BY <2>1, QueueStays
<1>7. c \in connected /\ once'[c] => OnItsWay(c)'
  <2>1. OnItsWay(c) => OnItsWay(c)'
    BY <1>2, StaysOnItsWay
  <2> QED BY <2>1, Presently DEF Dismissed
<1>8. farewells'[c] <= IF once'[c] THEN 1 ELSE 0
  BY Presently, Fields
<1>9. hand'[c] = "CloseWriter" => Dismissed(c)
  <2>1. hand[c] = "CloseWriter" => Dismissed(c)
    BY Presently
  <2> QED BY <1>3, <2>1
<1> QED BY <1>1, <1>2, <1>4, <1>5, <1>6, <1>7, <1>8, <1>9, GoesOn, Presently

LEMMA LoadSafe ==
    ASSUME ConnectionInv, NEW c \in Client, NEW g, Closer(c, g), Load(g)
    PROVE  ConnectionInv'
<1>1. pc[g] = "load" /\ g[1] = c
  BY OwnGoroutines DEF Load, Closer
<1>2. PICK x \in {"lock", Resumes(g)} : Moves(c, g, x) /\ (EmptyHanded(g) \/ hand' = hand)
  BY <1>1 DEF Load, Moves, Closer
<1>3. sock[c] # "none"
  BY <1>1, Running DEF Closer
<1>4. /\ UNCHANGED <<write, incoming, connected, members, outbox>>
      /\ sock' = sock /\ once' = once /\ farewells' = farewells
  BY DEF Load
<1> QED BY <1>1, <1>2, <1>3, <1>4, CloserMoves, Fields

\* writeCloseMessage
LEMMA ShutSafe ==
    ASSUME ConnectionInv, NEW c \in Client, NEW g, Closer(c, g), Shut(g)
    PROVE  ConnectionInv'
<1>1. pc[g] = "shut" /\ g[1] = c
  BY OwnGoroutines DEF Shut, Closer
<1>2. Moves(c, g, Resumes(g)) /\ EmptyHanded(g)
  BY <1>1 DEF Shut, Moves, Closer
<1>3. /\ UNCHANGED <<write, incoming, connected, members, outbox>>
      /\ sock' = [sock EXCEPT ![c] = "closed"] /\ once' = once /\ farewells' = farewells
  BY <1>1 DEF Shut
<1>4. /\ sock' = [d \in Client |-> sock'[d]] /\ sock'[c] # "none"
      /\ \A d \in Client \ {c} : sock'[d] = sock[d]
  BY <1>3, Fields
<1> QED BY <1>1, <1>2, <1>3, <1>4, CloserMoves, Fields

\* Of those that were not told to close the first to get the lock starts the report;
\* one that was told is known to the loop no longer.
LEMMA LockSafe ==
    ASSUME ConnectionInv, NEW c \in Client, NEW g, Closer(c, g), Lock(g)
    PROVE  ConnectionInv'
<1>1. /\ pc[g] = "lock" /\ g[1] = c /\ pc[Upgrader(c)] = "done" /\ sock[c] # "none"
      /\ once' = [once EXCEPT ![c] = TRUE]
  <2>1. g[1] = c
    BY OwnGoroutines DEF Closer
  <2>2. pc[g] = "lock" /\ once' = [once EXCEPT ![c] = TRUE]
    BY <2>1 DEF Lock
  <2>3. pc[Upgrader(c)] = "done" /\ sock[c] # "none"
    BY <2>2, Running DEF Closer
  <2> QED BY <2>1, <2>2, <2>3
<1>2. once' \in [Client -> BOOLEAN] /\ once'[c] /\ \A d \in Client \ {c} : once'[d] = once[d]
  BY <1>1, Fields
<1>3. UNCHANGED <<sock, write, incoming, connected, members, outbox>>
  BY DEF Lock
<1>4. CASE once[c]
  <2>1. Moves(c, g, Resumes(g)) /\ EmptyHanded(g) /\ farewells' = farewells
    BY <1>1, <1>4 DEF Lock, MayExecute, Moves, Closer
  <2> QED BY <1>1, <1>2, <1>3, <1>4, <2>1, CloserMoves, Fields
<1>5. CASE ~once[c] /\ ~Reports(g)
  <2>1. /\ pc' = [pc EXCEPT ![g] = "shut", ![Leaver(c)] = @]
        /\ farewells' = [farewells EXCEPT ![c] = @] /\ hand' = hand
    BY <1>1, <1>5 DEF Lock, MayExecute
  <2>2. Moves(c, g, "shut") /\ farewells' = farewells
    BY <1>1, <2>1, Fields, Goroutines DEF Moves, Closer
  <2>3. hand[c] = "CloseWriter"
    BY <1>1, <1>5 DEF Reports, Done
  <2> QED BY <1>1, <1>2, <1>3, <2>1, <2>2, <2>3, CloserMoves, Fields
<1>6. CASE ~once[c] /\ Reports(g)
  <2>1. /\ pc' = [pc EXCEPT ![g] = "shut", ![Leaver(c)] = "leave"]
        /\ farewells' = [farewells EXCEPT ![c] = @ + 1] /\ hand' = hand
    BY <1>1, <1>6 DEF Lock, MayExecute
  <2>2. pc[Leaver(c)] # "send"
    <3>1. pc[Leaver(c)] = "none"
      BY <1>6, Presently
    <3> QED BY <3>1
  <2>3. \A h \in Goroutine : pc'[h] = IF h = Leaver(c) THEN "leave"
                                      ELSE IF h = g THEN "shut" ELSE pc[h]
    BY <2>1, Fields, Goroutines DEF Closer
  <2>4. pc' = [h \in Goroutine |-> pc'[h]]
    BY <2>1, Fields
  <2>5. /\ pc'[Upgrader(c)] = "done" /\ pc'[Leaver(c)] = "leave"
        /\ pc'[Reader(c)] \in {"none", "read", "send", "load", "lock", "shut", "done"}
        /\ pc'[Writer(c)] \in {"none", "select", "write", "load", "lock", "shut", "done"}
    BY <1>1, <2>3, Goroutines, Presently DEF Closer
  <2>6. \A d \in Client \ {c} : Stays(d)
    BY <2>3, Goroutines DEF Closer, Stays
  <2>7. /\ farewells' \in [Client -> Nat] /\ farewells'[c] <= 1
        /\ \A d \in Client \ {c} : farewells'[d] = farewells[d]
    <3>1. farewells \in [Client -> Nat] /\ farewells[c] <= 0
      BY <1>6, Fields, Presently
    <3> QED BY <2>1, <3>1
  <2>8. Shapes
    BY <1>2, <1>3, <2>1, <2>4, <2>7, Fields DEF Shapes
  <2>9. \A d \in Client \ {c} : Still(d)
    BY <1>2, <1>3, <2>1, <2>6, <2>7 DEF Still
  <2>10. Queue'
    <3>1. \A h \in Goroutine : pc[h] = "send" => pc'[h] = "send"
      BY <1>1, <2>2, <2>3
    <3> QED BY <1>3, <3>1, QueueStays
  <2>11. OnItsWay(c)'
    BY <2>5 DEF OnItsWay
  <2>12. farewells'[c] <= IF once'[c] THEN 1 ELSE 0
    BY <1>2, <2>7
  <2> QED BY <1>1, <1>2, <1>3, <2>1, <2>5, <2>8, <2>9, <2>10, <2>11, <2>12, GoesOn, Presently
<1> QED BY <1>4, <1>5, <1>6

\* The page goes, or the writer has returned: only the socket changes.
LEMMA SocketSafe ==
    ASSUME ConnectionInv, NEW c \in Client, Lose(c) \/ CloseConn(c)
    PROVE  ConnectionInv'
<1>1. /\ sock' = [sock EXCEPT ![c] = sock'[c]] /\ sock'[c] # "none" /\ sock[c] # "none"
      /\ UNCHANGED <<pc, once, farewells, hand, write, incoming, connected, members, outbox>>
  BY Fields, Running DEF Lose, CloseConn
<1>2. \A d \in Client : (sock'[d] = "none") <=> (sock[d] = "none")
  BY <1>1, Fields
<1>3. Control' /\ Queue' /\ Farewells'
  BY <1>1 DEF ConnectionInv, Control, Queue, Farewells
<1>4. Beginnings'
  BY <1>1, <1>2, Fields DEF ConnectionInv, Beginnings, Begins
<1>5. SafeBatch' = SafeBatch
  BY <1>1 DEF SafeBatch, Dismissed
<1>6. Closings'
  BY <1>1, <1>5 DEF ConnectionInv, Closings, Dismissed
<1>7. NoGhosts'
  BY <1>1 DEF ConnectionInv, NoGhosts, OnItsWay
<1> QED BY <1>3, <1>4, <1>6, <1>7 DEF ConnectionInv

-----------------------------------------------------------------------------
\* The loop

\* A letter leaves the queue, from its head or from its middle.
LEMMA FewerLetters ==
    ASSUME ConnectionInv, NEW i \in DOMAIN incoming,
           incoming' \in Seq(Letters), Len(incoming') = Len(incoming) - 1,
           \A j \in 1 .. Len(incoming) - 1 :
                incoming'[j] = incoming[IF j < i THEN j ELSE j + 1],
           \A h \in Goroutine : pc[h] = "send" /\ h # incoming[i].from => pc'[h] = "send"
    PROVE  /\ Queue'
           /\ \A d \in Client :
                /\ OnItsWay(d)
                /\ incoming[i] # Letter(Leaver(d), "Disconnected")
                /\ pc[Leaver(d)] = "leave" => pc'[Leaver(d)] = "leave"
                => OnItsWay(d)'
<1> DEFINE at(j) == IF j < i THEN j ELSE j + 1
<1>1. /\ incoming \in Seq(Letters) /\ Len(incoming) \in Nat
      /\ DOMAIN incoming = 1 .. Len(incoming) /\ i \in 1 .. Len(incoming)
      /\ DOMAIN incoming' = 1 .. Len(incoming) - 1
  BY DEF ConnectionInv, Queue
<1>2. ASSUME NEW j \in DOMAIN incoming'
      PROVE  at(j) \in DOMAIN incoming /\ at(j) # i /\ incoming'[j] = incoming[at(j)]
  BY <1>1
<1>3. \A j, k \in DOMAIN incoming' : at(j) = at(k) => j = k
  BY <1>1
<1> HIDE DEF at
<1>4. \A j \in DOMAIN incoming : incoming[j].event # "Health" =>
        incoming[j].from \in Goroutine /\ pc[incoming[j].from] = "send"
  <2> SUFFICES ASSUME NEW j \in DOMAIN incoming, incoming[j].event # "Health"
               PROVE  incoming[j].from \in Goroutine /\ pc[incoming[j].from] = "send"
    OBVIOUS
  <2>1. incoming[j] \in Letters /\ pc[incoming[j].from] = "send"
    BY <1>1 DEF ConnectionInv, Queue
  <2> QED BY <2>1, LettersAreSigned, Goroutines DEF Letter
<1>5. \A j, k \in DOMAIN incoming :
        incoming[j].event # "Health" /\ incoming[j].from = incoming[k].from => j = k
  BY DEF ConnectionInv, Queue
<1>6. Queue'
  <2>1. ASSUME NEW j \in DOMAIN incoming', incoming'[j].event # "Health"
        PROVE  pc'[incoming'[j].from] = "send"
    <3>1. at(j) \in DOMAIN incoming /\ at(j) # i /\ incoming'[j] = incoming[at(j)]
      BY <1>2
    <3>2. incoming[at(j)].from # incoming[i].from
      BY <1>5, <2>1, <3>1
    <3> QED BY <1>4, <2>1, <3>1, <3>2
  <2>2. ASSUME NEW j \in DOMAIN incoming', NEW k \in DOMAIN incoming',
               incoming'[j].event # "Health", incoming'[j].from = incoming'[k].from
        PROVE  j = k
    BY <1>2, <1>3, <1>5, <2>2
  <2> QED BY <2>1, <2>2 DEF Queue
<1>7. ASSUME NEW d \in Client, OnItsWay(d),
             incoming[i] # Letter(Leaver(d), "Disconnected"),
             pc[Leaver(d)] = "leave" => pc'[Leaver(d)] = "leave"
      PROVE  OnItsWay(d)'
  <2>1. CASE pc[Leaver(d)] = "leave"
    BY <1>7, <2>1 DEF OnItsWay
  <2>2. CASE pc[Leaver(d)] # "leave"
    <3>1. PICK k \in DOMAIN incoming : incoming[k] = Letter(Leaver(d), "Disconnected")
      BY <1>7, <2>2 DEF OnItsWay, Letter
    <3>2. PICK j \in DOMAIN incoming' : at(j) = k
      <4>1. k \in 1 .. Len(incoming) /\ k # i
        BY <1>1, <1>7, <3>1
      <4>2. CASE k < i
        BY <1>1, <4>1, <4>2 DEF at
      <4>3. CASE ~(k < i)
        <5>1. k - 1 \in DOMAIN incoming' /\ at(k - 1) = k
          BY <1>1, <4>1, <4>3 DEF at
        <5> QED BY <5>1
      <4> QED BY <4>2, <4>3
    <3>3. incoming'[j] = Letter(Leaver(d), "Disconnected")
      BY <1>2, <3>1, <3>2
    <3> QED BY <3>3 DEF OnItsWay, Letter
  <2> QED BY <2>1, <2>2
<1> QED BY <1>6, <1>7

\* The loop takes the first.
LEMMA FirstLetter ==
    ASSUME ConnectionInv, incoming # <<>>, incoming' = Tail(incoming),
           \A h \in Goroutine : pc[h] = "send" /\ h # Head(incoming).from => pc'[h] = "send"
    PROVE  /\ Head(incoming) \in Letters
           /\ Head(incoming).event # "Health" => pc[Head(incoming).from] = "send"
           /\ Queue'
           /\ \A d \in Client :
                /\ OnItsWay(d)
                /\ Head(incoming) # Letter(Leaver(d), "Disconnected")
                /\ pc[Leaver(d)] = "leave" => pc'[Leaver(d)] = "leave"
                => OnItsWay(d)'
<1>1. incoming \in Seq(Letters) /\ Len(incoming) \in Nat
  BY DEF ConnectionInv, Queue
<1>2. /\ 1 \in DOMAIN incoming /\ Head(incoming) = incoming[1] /\ Head(incoming) \in Letters
      /\ incoming' \in Seq(Letters) /\ Len(incoming') = Len(incoming) - 1
      /\ \A j \in 1 .. Len(incoming) - 1 : incoming'[j] = incoming[j + 1]
  BY <1>1, HeadTailProperties
<1>3. \A j \in 1 .. Len(incoming) - 1 : incoming'[j] = incoming[IF j < 1 THEN j ELSE j + 1]
  BY <1>1, <1>2
<1>4. Head(incoming).event # "Health" => pc[Head(incoming).from] = "send"
  BY <1>2 DEF ConnectionInv, Queue
<1> QED BY <1>2, <1>3, <1>4, FewerLetters

\* Batches of SafeBatch.
LEMMA BatchOf ==
    ASSUME NEW S, NEW what, NEW to, to = {} \/ [what |-> what, to |-> to] \in S
    PROVE  Batch(what, to) \in Seq(S)
BY DEF Batch

\* A handler of the loop that takes an event of c, which it knows.
Handler(c) ==
    \/ Succeeds(c) /\ UNCHANGED connected
    \/ \E late \in BOOLEAN : Drops(c, late)
    \/ ClosesRoom(c)

LEMMA HandlerSafe ==
    ASSUME ConnectionInv, NEW c \in connected, Handler(c),
           \A d \in Client : pc'[Upgrader(d)] = pc[Upgrader(d)]
    PROVE  /\ outbox' \in Seq(SafeBatch')
           /\ connected' \subseteq connected /\ members' \subseteq connected'
           /\ Drops(c, FALSE) \/ ClosesRoom(c) => c \notin connected'
<1>1. /\ connected \subseteq Client /\ members \subseteq connected
      /\ \A d \in connected : pc'[Upgrader(d)] \in {"start", "done"}
  BY DEF ConnectionInv, Beginnings, Begins
<1>2. \A T \in SUBSET Client : Batch("message", T) \in Seq(SafeBatch')
  <2>1. \A T \in SUBSET Client : T = {} \/ [what |-> "message", to |-> T] \in SafeBatch'
    BY DEF SafeBatch
  <2> QED BY <2>1, BatchOf
<1>3. \A T \in SUBSET connected : T \cap connected' = {} =>
        Batch("CloseWriter", T) \in Seq(SafeBatch')
  <2> SUFFICES ASSUME NEW T \in SUBSET connected, T \cap connected' = {}
               PROVE  Batch("CloseWriter", T) \in Seq(SafeBatch')
    OBVIOUS
  <2>1. \A d \in T : Dismissed(d)'
    BY <1>1 DEF Dismissed
  <2>2. [what |-> "CloseWriter", to |-> T] \in SafeBatch'
    BY <1>1, <2>1 DEF SafeBatch
  <2> QED BY <2>2, BatchOf
<1>4. CASE Succeeds(c) /\ UNCHANGED connected
  <2>1. PICK S \in SUBSET (members \cup {c}) : \E twice \in SUBSET S :
            /\ outbox' = Batch("message", S) \o Batch("message", twice)
            /\ members' = members \cup {c}
    BY <1>4 DEF Succeeds
  <2>2. PICK twice \in SUBSET S : outbox' = Batch("message", S) \o Batch("message", twice)
    BY <2>1
  <2>6. S \in SUBSET Client /\ twice \in SUBSET Client
    BY <1>1
  <2>3. outbox' \in Seq(SafeBatch')
    BY <1>2, <2>2, <2>6, ConcatProperties
  <2>4. c \in connected'
    BY <1>4
  <2>5. ~(Drops(c, FALSE) \/ ClosesRoom(c))
    BY <2>4, <1>1 DEF Drops, ClosesRoom
  <2> QED BY <1>1, <1>4, <2>1, <2>3, <2>5
<1>5. ASSUME NEW late \in BOOLEAN, Drops(c, late)
      PROVE  /\ outbox' \in Seq(SafeBatch')
             /\ connected' \subseteq connected /\ members' \subseteq connected'
             /\ c \notin connected'
  <2>1. PICK S \in SUBSET (members \ {c}) :
            /\ outbox' = Batch("message", IF late THEN S \cup {c} ELSE {})
                            \o Batch("CloseWriter", {c}) \o Batch("message", S)
            /\ connected' = connected \ {c}
            /\ members' = members \ {c}
    BY <1>5 DEF Drops
  <2>2. /\ S \in SUBSET Client /\ (IF late THEN S \cup {c} ELSE {}) \in SUBSET Client
        /\ {c} \in SUBSET connected /\ {c} \cap connected' = {}
    BY <1>1, <2>1
  <2>3. /\ Batch("message", IF late THEN S \cup {c} ELSE {}) \in Seq(SafeBatch')
        /\ Batch("CloseWriter", {c}) \in Seq(SafeBatch')
        /\ Batch("message", S) \in Seq(SafeBatch')
    BY <1>2, <1>3, <2>2
  <2>4. outbox' \in Seq(SafeBatch')
    BY <2>1, <2>3, ConcatProperties
  <2> QED BY <1>1, <2>1, <2>4
<1>6. CASE ClosesRoom(c)
  <2>1. PICK S \in SUBSET (members \ {c}) : \E told \in SUBSET S :
            /\ outbox' = Batch("CloseWriter", {c})
                            \o Batch("message", told) \o Batch("CloseWriter", S)
            /\ connected' = connected \ (S \cup {c})
            /\ members' = members \ (S \cup {c})
    BY <1>6 DEF ClosesRoom
  <2>5. PICK told \in SUBSET S :
            outbox' = Batch("CloseWriter", {c})
                            \o Batch("message", told) \o Batch("CloseWriter", S)
    BY <2>1
  <2>2. /\ told \in SUBSET Client /\ S \in SUBSET connected /\ S \cap connected' = {}
        /\ {c} \in SUBSET connected /\ {c} \cap connected' = {}
    BY <1>1, <2>1
  <2>3. /\ Batch("CloseWriter", {c}) \in Seq(SafeBatch')
        /\ Batch("message", told) \in Seq(SafeBatch')
        /\ Batch("CloseWriter", S) \in Seq(SafeBatch')
    BY <1>2, <1>3, <2>2
  <2>4. outbox' \in Seq(SafeBatch')
    BY <2>3, <2>5, ConcatProperties
  <2> QED BY <1>1, <2>1, <2>4
<1> QED BY <1>4, <1>5, <1>6 DEF Handler

\* What the loop has to keep.
LEMMA LoopKeeps ==
    ASSUME ConnectionInv, Control', Queue', UNCHANGED <<sock, once, farewells, hand, write>>,
           connected' \subseteq Client, members' \subseteq connected',
           \A d \in Client : Begins(d)',
           \A d \in Client : Dismissed(d) => Dismissed(d)',
           outbox' \in Seq(SafeBatch'),
           \A d \in Client : ~once[d] => pc'[Leaver(d)] = "none",
           \A d \in connected' : once[d] => OnItsWay(d)'
    PROVE  ConnectionInv'
<1>1. Beginnings'
  BY DEF ConnectionInv, Beginnings
<1>2. Closings'
  BY DEF ConnectionInv, Closings
<1>3. Farewells'
  BY DEF ConnectionInv, Farewells
<1>4. NoGhosts'
  BY DEF NoGhosts
<1> QED BY <1>1, <1>2, <1>3, <1>4 DEF ConnectionInv

\* The sender of what is accepted goes on, and nobody else.
LEMMA SenderGoesOn ==
    ASSUME ConnectionInv, Accept
    PROVE  \E c \in Client : \E g \in {Upgrader(c), Reader(c), Leaver(c)} :
            /\ Head(incoming) =
                Letter(g, IF g = Upgrader(c) THEN "Connected"
                          ELSE IF g = Reader(c) THEN "event" ELSE "Disconnected")
            /\ Head(incoming).from = g /\ g[1] = c
            /\ pc[g] = "send"
            /\ pc' = [pc EXCEPT ![g] = IF g = Upgrader(c) THEN "start"
                                       ELSE IF g = Reader(c) THEN "read" ELSE "done"]
            /\ Queue'
            /\ \A d \in Client :
                OnItsWay(d) /\ (g = Leaver(c) => d # c) => OnItsWay(d)'
<1>1. /\ incoming # <<>> /\ incoming' = Tail(incoming) /\ Head(incoming).event # "Health"
      /\ pc' = [pc EXCEPT ![Head(incoming).from] =
                    CASE Head(incoming).event = "Connected" -> "start"
                      [] Head(incoming).event = "event" -> "read"
                      [] Head(incoming).event = "Disconnected" -> "done"]
  BY DEF Accept
<1>2. pc = [h \in Goroutine |-> pc[h]]
  BY Fields
<1>3. \A h \in Goroutine : h # Head(incoming).from => pc'[h] = pc[h]
  BY <1>1, <1>2
<1>4. /\ Head(incoming) \in Letters /\ pc[Head(incoming).from] = "send" /\ Queue'
      /\ \A d \in Client :
            /\ OnItsWay(d)
            /\ Head(incoming) # Letter(Leaver(d), "Disconnected")
            /\ pc[Leaver(d)] = "leave" => pc'[Leaver(d)] = "leave"
            => OnItsWay(d)'
  BY <1>1, <1>3, FirstLetter
<1>5. \A d \in Client : pc[Leaver(d)] = "leave" => pc'[Leaver(d)] = "leave"
  <2>1. \A d \in Client : Leaver(d) \in Goroutine
    BY Goroutines
  <2> QED BY <1>3, <1>4, <2>1
<1>6. PICK c \in Client :
        \/ Head(incoming) = Letter(Upgrader(c), "Connected") /\ Head(incoming).event = "Connected"
        \/ Head(incoming) = Letter(Reader(c), "event") /\ Head(incoming).event = "event"
        \/ /\ Head(incoming) = Letter(Leaver(c), "Disconnected")
           /\ Head(incoming).event = "Disconnected"
  BY <1>1, <1>4, LettersAreSigned
<1>7. CASE Head(incoming) = Letter(Upgrader(c), "Connected") /\ Head(incoming).event = "Connected"
  <2>1. Head(incoming).from = Upgrader(c) /\ Upgrader(c)[1] = c
    BY <1>7, OwnGoroutines DEF Letter
  <2>2. pc' = [pc EXCEPT ![Upgrader(c)] = "start"]
    BY <1>1, <1>7, <2>1
  <2>3. \A d \in Client : Head(incoming) # Letter(Leaver(d), "Disconnected")
    BY <1>7 DEF Letter
  <2> QED BY <1>4, <1>5, <1>7, <2>1, <2>2, <2>3, Goroutines
<1>8. CASE Head(incoming) = Letter(Reader(c), "event") /\ Head(incoming).event = "event"
  <2>1. Head(incoming).from = Reader(c) /\ Reader(c)[1] = c /\ Reader(c) # Upgrader(c)
    BY <1>8, OwnGoroutines, Goroutines DEF Letter
  <2>2. pc' = [pc EXCEPT ![Reader(c)] = "read"]
    BY <1>1, <1>8, <2>1
  <2>3. \A d \in Client : Head(incoming) # Letter(Leaver(d), "Disconnected")
    BY <1>8 DEF Letter
  <2> QED BY <1>4, <1>5, <1>8, <2>1, <2>2, <2>3, Goroutines
<1>9. CASE /\ Head(incoming) = Letter(Leaver(c), "Disconnected")
           /\ Head(incoming).event = "Disconnected"
  <2>1. Head(incoming).from = Leaver(c) /\ Leaver(c)[1] = c
        /\ Leaver(c) # Upgrader(c) /\ Leaver(c) # Reader(c)
    BY <1>9, OwnGoroutines, Goroutines DEF Letter
  <2>2. pc' = [pc EXCEPT ![Leaver(c)] = "done"]
    BY <1>1, <1>9, <2>1
  <2>3. \A d \in Client : d # c => Head(incoming) # Letter(Leaver(d), "Disconnected")
    BY <1>9, Goroutines DEF Letter
  <2> QED BY <1>4, <1>5, <1>9, <2>1, <2>2, <2>3, Goroutines
<1> QED BY <1>6, <1>7, <1>8, <1>9

\* What a message from c may change of what is known of c.
Accepted(c) ==
    /\ \A d \in Client \ {c} : Stays(d)
    /\ pc'[Writer(c)] = pc[Writer(c)]
    /\ UNCHANGED <<sock, once, farewells, hand, write>>
    /\ Control' /\ Queue'

\* Connected: it has not begun, so that there was nothing to report.
LEMMA ConnectedSafe ==
    ASSUME ConnectionInv, NEW c \in Client, Accepted(c),
           pc[Upgrader(c)] = "send", pc'[Upgrader(c)] = "start",
           pc'[Reader(c)] = pc[Reader(c)], pc'[Leaver(c)] = pc[Leaver(c)],
           connected' = connected \cup {c}, UNCHANGED <<members, outbox>>,
           \A d \in Client : OnItsWay(d) => OnItsWay(d)'
    PROVE  ConnectionInv'
<1>1. Begins(c) /\ sock[c] # "none" /\ ~once[c] /\ ~Dismissed(c)
  BY DEF ConnectionInv, Beginnings, Begins, Dismissed
<1>2. Begins(c)'
  BY <1>1 DEF Begins, Accepted
<1>3. ASSUME NEW d \in Client, d # c
      PROVE  Begins(d)' /\ (Dismissed(d) => Dismissed(d)')
  BY <1>3 DEF ConnectionInv, Beginnings, Begins, Dismissed, Accepted, Stays
<1>4. \A d \in Client : Dismissed(d) => Dismissed(d)'
  BY <1>1, <1>3
<1>5. outbox' \in Seq(SafeBatch')
  BY <1>4, SafeBatchesStay DEF ConnectionInv, Closings
<1>6. \A d \in Client : ~once[d] => pc'[Leaver(d)] = "none"
  BY Presently DEF Accepted, Stays
<1>7. \A d \in connected' : once[d] => OnItsWay(d)'
  BY <1>1 DEF ConnectionInv, NoGhosts, Beginnings
<1>8. connected' \subseteq Client /\ members' \subseteq connected'
  BY DEF ConnectionInv, Beginnings
<1>9. \A d \in Client : Begins(d)'
  BY <1>2, <1>3
<1>10. Control' /\ Queue' /\ UNCHANGED <<sock, once, farewells, hand, write>>
  BY DEF Accepted
<1> QED BY <1>4, <1>5, <1>6, <1>7, <1>8, <1>9, <1>10, LoopKeeps

\* Anything else: connections are forgotten, maybe, that have begun; the one that is
\* reported is, if it was known.
LEMMA EventSafe ==
    ASSUME ConnectionInv, NEW c \in Client, Accepted(c),
           pc'[Upgrader(c)] = pc[Upgrader(c)], pc[Upgrader(c)] = "done",
           ~once[c] => pc'[Leaver(c)] = "none",
           connected' \subseteq connected, members' \subseteq connected',
           outbox' \in Seq(SafeBatch'),
           \A d \in connected' : OnItsWay(d) => OnItsWay(d)'
    PROVE  ConnectionInv'
<1>1. Begins(c)'
  BY DEF ConnectionInv, Beginnings, Begins, Accepted
<1>2. ASSUME NEW d \in Client, d # c
      PROVE  Begins(d)' /\ (Dismissed(d) => Dismissed(d)')
  BY <1>2 DEF ConnectionInv, Beginnings, Begins, Dismissed, Accepted, Stays
<1>3. \A d \in Client : Dismissed(d) => Dismissed(d)'
  BY <1>2 DEF Dismissed
<1>4. \A d \in Client : ~once[d] => pc'[Leaver(d)] = "none"
  BY Presently DEF Accepted, Stays
<1>5. \A d \in connected' : once[d] => OnItsWay(d)'
  BY DEF ConnectionInv, NoGhosts
<1>6. connected' \subseteq Client
  BY DEF ConnectionInv, Beginnings
<1>7. \A d \in Client : Begins(d)'
  BY <1>1, <1>2
<1>8. Control' /\ Queue' /\ UNCHANGED <<sock, once, farewells, hand, write>>
  BY DEF Accepted
<1> QED BY <1>3, <1>4, <1>5, <1>6, <1>7, <1>8, LoopKeeps

LEMMA AcceptSafe ==
    ASSUME ConnectionInv, Accept
    PROVE  ConnectionInv'
<1>1. PICK c \in Client : \E g \in {Upgrader(c), Reader(c), Leaver(c)} :
        /\ Head(incoming) =
            Letter(g, IF g = Upgrader(c) THEN "Connected"
                      ELSE IF g = Reader(c) THEN "event" ELSE "Disconnected")
        /\ Head(incoming).from = g /\ g[1] = c
        /\ pc[g] = "send"
        /\ pc' = [pc EXCEPT ![g] = IF g = Upgrader(c) THEN "start"
                                   ELSE IF g = Reader(c) THEN "read" ELSE "done"]
        /\ Queue'
        /\ \A d \in Client :
            OnItsWay(d) /\ (g = Leaver(c) => d # c) => OnItsWay(d)'
  BY SenderGoesOn
<1>2. PICK g \in {Upgrader(c), Reader(c), Leaver(c)} :
        /\ Head(incoming) =
            Letter(g, IF g = Upgrader(c) THEN "Connected"
                      ELSE IF g = Reader(c) THEN "event" ELSE "Disconnected")
        /\ Head(incoming).from = g /\ g[1] = c
        /\ pc[g] = "send"
        /\ pc' = [pc EXCEPT ![g] = IF g = Upgrader(c) THEN "start"
                                   ELSE IF g = Reader(c) THEN "read" ELSE "done"]
        /\ Queue'
        /\ \A d \in Client :
            OnItsWay(d) /\ (g = Leaver(c) => d # c) => OnItsWay(d)'
  BY <1>1
<1>3. /\ pc = [h \in Goroutine |-> pc[h]] /\ pc' = [h \in Goroutine |-> pc'[h]]
      /\ g \in Goroutine
      /\ \A h \in Goroutine \ {g} : pc'[h] = pc[h]
      /\ pc'[g] = IF g = Upgrader(c) THEN "start"
                  ELSE IF g = Reader(c) THEN "read" ELSE "done"
  <2>1. pc = [h \in Goroutine |-> pc[h]] /\ g \in Goroutine
    BY Fields, Goroutines
  <2>2. pc' = [pc EXCEPT ![g] = IF g = Upgrader(c) THEN "start"
                                ELSE IF g = Reader(c) THEN "read" ELSE "done"]
    BY <1>2
  <2> QED BY <2>1, <2>2
<1>4. /\ \A d \in Client \ {c} : Stays(d)
      /\ pc'[Writer(c)] = pc[Writer(c)]
      /\ \A h \in {Upgrader(c), Reader(c), Leaver(c)} \ {g} : pc'[h] = pc[h]
  BY <1>3, Goroutines DEF Stays
<1>5. Control'
  <2>1. ASSUME NEW d \in Client
        PROVE  /\ pc'[Upgrader(d)] \in {"none", "send", "start", "done"}
               /\ pc'[Reader(d)] \in {"none", "read", "send", "load", "lock", "shut", "done"}
               /\ pc'[Writer(d)] \in {"none", "select", "write", "load", "lock", "shut", "done"}
               /\ pc'[Leaver(d)] \in {"none", "leave", "send", "done"}
    <3>1. CASE d # c
      BY <1>4, <3>1, Presently DEF Stays
    <3>2. CASE d = c
      BY <1>3, <1>4, <3>2, Presently, Goroutines
    <3> QED BY <3>1, <3>2
  <2> QED BY <1>3, <2>1 DEF Control
<1>6. Accepted(c)
  BY <1>2, <1>4, <1>5 DEF Accepted, Accept
<1>7. CASE g = Upgrader(c)
  <2>1. Head(incoming).event = "Connected"
    BY <1>2, <1>7 DEF Letter
  <2>2. connected' = connected \cup {c} /\ UNCHANGED <<members, outbox>>
    BY <1>2, <2>1 DEF Accept
  <2>3. /\ pc[Upgrader(c)] = "send" /\ pc'[Upgrader(c)] = "start"
        /\ pc'[Reader(c)] = pc[Reader(c)] /\ pc'[Leaver(c)] = pc[Leaver(c)]
    BY <1>2, <1>3, <1>4, <1>7, Goroutines
  <2>4. \A d \in Client : OnItsWay(d) => OnItsWay(d)'
    BY <1>2, <1>7, Goroutines
  <2> QED BY <1>6, <2>2, <2>3, <2>4, ConnectedSafe
<1>8. CASE g # Upgrader(c)
  <2>1. /\ pc[Upgrader(c)] = "done" /\ pc'[Upgrader(c)] = "done"
        /\ \A d \in Client : pc'[Upgrader(d)] = pc[Upgrader(d)]
    <3>1. pc[Upgrader(c)] = "done"
      BY <1>2, <1>8, Running
    <3> QED BY <1>4, <1>8, <3>1 DEF Stays
  <2>2. ~once[c] => pc'[Leaver(c)] = "none"
    BY <1>2, <1>4, Presently
  <2>3. Head(incoming).event = IF g = Reader(c) THEN "event" ELSE "Disconnected"
    BY <1>2, <1>8 DEF Letter
  <2>4. /\ c \in connected => Handler(c)
        /\ c \notin connected => UNCHANGED <<connected, members, outbox>>
        /\ g # Reader(c) /\ c \in connected => Drops(c, FALSE) \/ ClosesRoom(c)
    BY <1>2, <2>3 DEF Accept, Handler
  <2>5. /\ connected' \subseteq connected /\ members' \subseteq connected'
        /\ outbox' \in Seq(SafeBatch')
        /\ g # Reader(c) => c \notin connected'
    <3>1. CASE c \in connected
      BY <2>1, <2>4, <3>1, HandlerSafe
    <3>2. CASE c \notin connected
      <4>1. SafeBatch' = SafeBatch
        BY <2>1, <2>4, <3>2 DEF SafeBatch, Dismissed
      <4> QED BY <2>4, <3>2, <4>1 DEF ConnectionInv, Closings, Beginnings
    <3> QED BY <3>1, <3>2
  <2>6. \A d \in connected' : OnItsWay(d) => OnItsWay(d)'
    <3>1. connected' \subseteq Client
      BY <2>5 DEF ConnectionInv, Beginnings
    <3>2. g = Leaver(c) => g # Reader(c)
      BY Goroutines
    <3> QED BY <1>2, <2>5, <3>1, <3>2
  <2> QED BY <1>6, <2>1, <2>2, <2>5, <2>6, EventSafe
<1> QED BY <1>7, <1>8

\* A step of the loop or of a probe that leaves the connections' fields alone.
LEMMA Elsewhere ==
    ASSUME ConnectionInv, UNCHANGED <<pc, sock, once, farewells, hand, connected, members>>,
           write' \in [Client -> Seq({"message", "CloseWriter"})],
           \A c \in Client : \A i \in DOMAIN write'[c] :
                write'[c][i] = "CloseWriter" => Dismissed(c),
           Queue', outbox' \in Seq(SafeBatch),
           \A d \in Client : OnItsWay(d) => OnItsWay(d)'
    PROVE  ConnectionInv'
<1>1. Control' /\ Farewells'
  BY DEF ConnectionInv, Control, Farewells
<1>2. Beginnings'
  BY DEF ConnectionInv, Beginnings, Begins
<1>3. SafeBatch' = SafeBatch /\ \A c \in Client : Dismissed(c)' <=> Dismissed(c)
  BY DEF SafeBatch, Dismissed
<1>4. Closings'
  BY <1>3 DEF ConnectionInv, Closings
<1>5. NoGhosts'
  BY DEF ConnectionInv, NoGhosts, Beginnings
<1> QED BY <1>1, <1>2, <1>4, <1>5 DEF ConnectionInv

LEMMA Unwritten ==
    ASSUME ConnectionInv
    PROVE  /\ write \in [Client -> Seq({"message", "CloseWriter"})]
           /\ \A c \in Client : \A i \in DOMAIN write[c] :
                write[c][i] = "CloseWriter" => Dismissed(c)
           /\ outbox \in Seq(SafeBatch)
           /\ incoming' = incoming /\ UNCHANGED pc =>
                Queue' /\ \A d \in Client : OnItsWay(d) => OnItsWay(d)'
BY QueueStays DEF ConnectionInv, Closings, OnItsWay

\* A write of the running handler is over.
LEMMA PastSafe ==
    ASSUME ConnectionInv, outbox # <<>>, NEW d, Past(d)
    PROVE  outbox' \in Seq(SafeBatch) /\ Head(outbox) \in SafeBatch
<1>1. outbox \in Seq(SafeBatch)
  BY DEF ConnectionInv, Closings
<1>2. Head(outbox) \in SafeBatch /\ Tail(outbox) \in Seq(SafeBatch)
  BY <1>1, HeadTailProperties
<1> DEFINE b == Head(outbox)  rest == [b EXCEPT !.to = @ \ {d}]
<1>3. rest \in SafeBatch
  BY <1>2 DEF SafeBatch
<1>4. outbox' = Tail(outbox) \/ outbox' = <<rest>> \o Tail(outbox)
  BY DEF Past
<1> HIDE DEF rest
<1>5. <<rest>> \in Seq(SafeBatch)
  BY <1>3
<1> QED BY <1>2, <1>4, <1>5, ConcatProperties

LEMMA WriteSafe ==
    ASSUME ConnectionInv, NEW d \in Client, Write(d) \/ TimeOut(d)
    PROVE  ConnectionInv'
<1>1. /\ outbox # <<>> /\ Past(d) /\ d \in Head(outbox).to
      /\ UNCHANGED <<pc, sock, once, farewells, hand, incoming, connected, members>>
      /\ write' = write \/ write' = [write EXCEPT ![d] = <<Head(outbox).what>>]
  BY DEF Write, TimeOut, Idle
<1>2. outbox' \in Seq(SafeBatch) /\ Head(outbox) \in SafeBatch
  BY <1>1, PastSafe
<1>3. /\ Head(outbox).what \in {"message", "CloseWriter"}
      /\ Head(outbox).what = "CloseWriter" => Dismissed(d)
  BY <1>1, <1>2, ProberAssumption DEF SafeBatch
<1>4. /\ write' \in [Client -> Seq({"message", "CloseWriter"})]
      /\ \A c \in Client : \A i \in DOMAIN write'[c] :
            write'[c][i] = "CloseWriter" => Dismissed(c)
  <2>1. CASE write' = write
    BY <2>1, Unwritten
  <2>2. CASE write' = [write EXCEPT ![d] = <<Head(outbox).what>>]
    <3>1. /\ <<Head(outbox).what>> \in Seq({"message", "CloseWriter"})
          /\ \A i \in DOMAIN <<Head(outbox).what>> :
                <<Head(outbox).what>>[i] = Head(outbox).what
      BY <1>3
    <3> QED BY <1>3, <2>2, <3>1, Unwritten
  <2> QED BY <1>1, <2>1, <2>2
<1> QED BY <1>1, <1>2, <1>4, Unwritten, Elsewhere

LEMMA RespondSafe ==
    ASSUME ConnectionInv, NEW p \in Prober, Respond(p)
    PROVE  ConnectionInv'
<1>1. /\ outbox # <<>> /\ outbox' = Tail(outbox)
      /\ UNCHANGED <<pc, sock, once, farewells, hand, write, incoming, connected, members>>
  BY DEF Respond, Idle
<1>2. outbox' \in Seq(SafeBatch)
  BY <1>1, Unwritten, HeadTailProperties
<1> QED BY <1>1, <1>2, Unwritten, Elsewhere

LEMMA AcceptHealthSafe ==
    ASSUME ConnectionInv, AcceptHealth
    PROVE  ConnectionInv'
<1>1. /\ incoming # <<>> /\ incoming' = Tail(incoming) /\ Head(incoming).event = "Health"
      /\ outbox' = Batch("count", {Head(incoming).from[1]})
      /\ UNCHANGED <<pc, sock, once, farewells, hand, write, connected, members>>
  BY DEF AcceptHealth
<1>2. /\ Head(incoming) \in Letters /\ Queue'
      /\ \A d \in Client :
            OnItsWay(d) /\ Head(incoming) # Letter(Leaver(d), "Disconnected") => OnItsWay(d)'
  BY <1>1, FirstLetter
<1>3. PICK p \in Prober : Head(incoming).from = <<p, "health">>
  BY <1>1, <1>2, LettersAreSigned
<1>4. outbox' \in Seq(SafeBatch)
  <2>1. [what |-> "count", to |-> {p}] \in SafeBatch
    BY DEF SafeBatch
  <2>2. Head(incoming).from[1] = p
    BY <1>3
  <2>3. outbox' = Batch("count", {p})
    BY <1>1, <2>2
  <2> QED BY <2>1, <2>3, BatchOf
<1>5. \A d \in Client : OnItsWay(d) => OnItsWay(d)'
  <2>1. \A d \in Client : Head(incoming) # Letter(Leaver(d), "Disconnected")
    BY <1>1 DEF Letter
  <2> QED BY <1>2, <2>1
<1> QED BY <1>1, <1>2, <1>4, <1>5, Unwritten, Elsewhere

LEMMA AskSafe ==
    ASSUME ConnectionInv, NEW p \in Prober, Ask(p)
    PROVE  ConnectionInv'
<1>1. /\ incoming' = Append(incoming, Letter(<<p, "health">>, "Health"))
      /\ UNCHANGED <<pc, sock, once, farewells, hand, write, connected, members, outbox>>
  BY DEF Ask, Sends, Letter
<1>2. incoming \in Seq(Letters) /\ Letter(<<p, "health">>, "Health") \in Letters
  BY DEF ConnectionInv, Queue, Letters
<1>3. /\ incoming' \in Seq(Letters) /\ Len(incoming') = Len(incoming) + 1
      /\ \A i \in 1 .. Len(incoming) : incoming'[i] = incoming[i]
      /\ incoming'[Len(incoming) + 1] = Letter(<<p, "health">>, "Health")
  BY <1>1, <1>2, AppendProperties
<1>4. /\ DOMAIN incoming' = 1 .. Len(incoming) + 1 /\ DOMAIN incoming = 1 .. Len(incoming)
      /\ Len(incoming) \in Nat
  BY <1>2, <1>3
<1>5. \A i \in DOMAIN incoming : incoming[i].event # "Health" =>
        incoming[i].from # <<p, "health">>
  <2> SUFFICES ASSUME NEW i \in DOMAIN incoming, incoming[i].event # "Health"
               PROVE  incoming[i].from # <<p, "health">>
    OBVIOUS
  <2>1. incoming[i] \in Letters
    BY <1>2
  <2> QED BY <2>1, LettersAreSigned DEF Letter, Upgrader, Reader, Leaver
<1>6. Queue'
  <2>1. \A i \in DOMAIN incoming' :
            incoming'[i].event # "Health" => i \in DOMAIN incoming /\ incoming'[i] = incoming[i]
    BY <1>3, <1>4 DEF Letter
  <2>2. \A i \in DOMAIN incoming' :
            i \in DOMAIN incoming \/ incoming'[i].from = <<p, "health">>
    BY <1>3, <1>4 DEF Letter
  <2>3. \A i, j \in DOMAIN incoming' :
            incoming'[i].event # "Health" /\ incoming'[i].from = incoming'[j].from => i = j
    <3> SUFFICES ASSUME NEW i \in DOMAIN incoming', NEW j \in DOMAIN incoming',
                        incoming'[i].event # "Health", incoming'[i].from = incoming'[j].from
                 PROVE  i = j
      OBVIOUS
    <3>1. i \in DOMAIN incoming /\ incoming'[i] = incoming[i]
          /\ incoming[i].from # <<p, "health">>
      BY <1>5, <2>1
    <3>2. j \in DOMAIN incoming /\ incoming'[j] = incoming[j]
      BY <1>3, <1>4, <2>2, <3>1
    <3> QED BY <3>1, <3>2 DEF ConnectionInv, Queue
  <2>4. \A i \in DOMAIN incoming' :
            incoming'[i].event # "Health" => pc'[incoming'[i].from] = "send"
    <3>1. UNCHANGED pc /\ \A i \in DOMAIN incoming :
            incoming[i].event # "Health" => pc[incoming[i].from] = "send"
      BY <1>1 DEF ConnectionInv, Queue
    <3> QED BY <2>1, <3>1
  <2> QED BY <1>3, <2>3, <2>4 DEF Queue
<1>7. \A d \in Client : OnItsWay(d) => OnItsWay(d)'
  BY <1>1, <1>3, <1>4 DEF OnItsWay
<1> QED BY <1>1, <1>6, <1>7, Unwritten, Elsewhere

\* Count withdraws its own message and no report.
LEMMA GiveUpSafe ==
    ASSUME ConnectionInv, NEW p \in Prober, GiveUp(p)
    PROVE  ConnectionInv'
<1>1. UNCHANGED <<pc, sock, once, farewells, hand, write, connected, members, outbox>>
  BY DEF GiveUp
<1>2. CASE incoming' = incoming
  BY <1>1, <1>2, Unwritten, Elsewhere
<1>3. CASE incoming' # incoming
  <2>1. PICK i \in DOMAIN incoming :
            incoming[i].from = <<p, "health">> /\ incoming' = RemoveAt(incoming, i)
    BY <1>3 DEF GiveUp
  <2>2. incoming \in Seq(Letters)
    BY DEF ConnectionInv, Queue
  <2>3. /\ incoming' \in Seq(Letters) /\ Len(incoming') = Len(incoming) - 1
        /\ \A j \in 1 .. Len(incoming) - 1 :
                incoming'[j] = incoming[IF j < i THEN j ELSE j + 1]
    BY <2>1, <2>2, RemovedAt
  <2>4. \A d \in Client : incoming[i] # Letter(Leaver(d), "Disconnected")
    BY <2>1 DEF Letter, Leaver
  <2>5. Queue' /\ \A d \in Client : OnItsWay(d) => OnItsWay(d)'
    BY <1>1, <2>3, <2>4, FewerLetters
  <2> QED BY <1>1, <2>5, Unwritten, Elsewhere
<1> QED BY <1>2, <1>3

-----------------------------------------------------------------------------
\* Types

\* The channel of a writer holds one message.
Fits(q) == q = <<>> \/ \E m \in {"message", "CloseWriter"} : q = <<m>>

Types ==
    /\ sock \in [Client -> {"none", "open", "lost", "closed"}]
    /\ hand \in [Client -> {"none", "message", "CloseWriter"}]
    /\ \A c \in Client : Fits(write[c])
    /\ probe \in [Prober -> {"idle", "ask", "await"}]

LEMMA InitTypes == Init => Types
BY DEF Init, Types, Fits

LEMMA NextTypes == ConnectionInv /\ Types /\ [Next]_vars => Types'
<1> SUFFICES ASSUME ConnectionInv, Types, [Next]_vars PROVE Types'
  OBVIOUS
<1> USE DEF Types
<1>1. ASSUME NEW c \in Client, Upgrade(c) \/ Lose(c) \/ CloseConn(c)
      PROVE  Types'
  BY <1>1 DEF Upgrade, Lose, CloseConn
<1>2. ASSUME NEW c \in Client, Start(c) \/ Read(c) \/ Reject(c) \/ Leave(c) \/ WriteFails(c)
      PROVE  Types'
  BY <1>2 DEF Start, Read, Reject, Leave, WriteFails
<1>3. ASSUME NEW c \in Client, NEW g, Closer(c, g), Closes(g)
      PROVE  Types'
  <2>1. g[1] = c
    BY <1>3, OwnGoroutines DEF Closer
  <2>2. /\ sock' = sock \/ sock' = [sock EXCEPT ![c] = "closed"]
        /\ hand' = hand \/ hand' = [hand EXCEPT ![c] = "none"]
        /\ UNCHANGED <<write, probe>>
    BY <1>3, <2>1 DEF Closes, Load, Lock, Shut, EmptyHanded
  <2> QED BY <2>2
<1>4. ASSUME NEW c \in Client, Take(c)
      PROVE  Types'
  <2>1. PICK m \in {"message", "CloseWriter"} : write[c] = <<m>>
    BY <1>4 DEF Take, Fits
  <2>2. Head(write[c]) = m /\ Tail(write[c]) = <<>>
    BY <2>1
  <2>3. /\ hand' = [hand EXCEPT ![c] = m] /\ write' = [write EXCEPT ![c] = <<>>]
        /\ UNCHANGED <<sock, probe>>
    BY <1>4, <2>2 DEF Take
  <2> QED BY <2>3, Unwritten DEF Fits
<1>5. ASSUME NEW c \in Client, Ping(c) \/ Written(c)
      PROVE  Types'
  BY <1>5, OwnGoroutines DEF Ping, Written, EmptyHanded
<1>6. CASE Accept \/ AcceptHealth
  <2>1. Accept => UNCHANGED <<sock, hand, write, probe>>
    BY DEF Accept
  <2>2. ASSUME AcceptHealth PROVE Types'
    <3>1. /\ UNCHANGED <<sock, hand, write>>
          /\ probe' = [probe EXCEPT ![Head(incoming).from[1]] = "await"]
      BY <2>2 DEF AcceptHealth
    <3> QED BY <3>1
  <2> QED BY <1>6, <2>1, <2>2
<1>7. ASSUME NEW d \in Client, Write(d) \/ TimeOut(d)
      PROVE  Types'
  <2>1. /\ outbox # <<>> /\ Past(d) /\ d \in Head(outbox).to
        /\ UNCHANGED <<sock, hand, probe>>
        /\ write' = write \/ write' = [write EXCEPT ![d] = <<Head(outbox).what>>]
    BY <1>7 DEF Write, TimeOut, Idle
  <2>2. Head(outbox).what \in {"message", "CloseWriter"}
    BY <2>1, PastSafe, ProberAssumption DEF SafeBatch
  <2> QED BY <2>1, <2>2, Unwritten DEF Fits
<1>8. ASSUME NEW p \in Prober, Respond(p) \/ Ask(p) \/ GiveUp(p)
      PROVE  Types'
  BY <1>8 DEF Respond, Ask, GiveUp
<1>9. CASE UNCHANGED vars
  BY <1>9 DEF vars
<1> HIDE DEF Types
<1>10. \A c \in Client : Closer(c, Reader(c)) /\ Closer(c, Writer(c))
  BY DEF Closer
<1> QED BY <1>1, <1>2, <1>3, <1>4, <1>5, <1>6, <1>7, <1>8, <1>9, <1>10
        DEF Next, ReaderNext, WriterNext, LoopNext

-----------------------------------------------------------------------------
\* The theorems

LEMMA NextConnectionInv == ConnectionInv /\ [Next]_vars => ConnectionInv'
<1> SUFFICES ASSUME ConnectionInv, [Next]_vars PROVE ConnectionInv'
  OBVIOUS
<1>1. ASSUME NEW c \in Client, Upgrade(c) \/ Lose(c) \/ ReaderNext(c) \/ Leave(c)
      PROVE  ConnectionInv'
  <2>1. Closer(c, Reader(c))
    BY DEF Closer
  <2> QED BY <1>1, <2>1, UpgradeSafe, SocketSafe, StartSafe, ReadSafe, RejectSafe, LoadSafe,
             LockSafe, ShutSafe, LeaveSafe DEF ReaderNext, Closes
<1>2. ASSUME NEW c \in Client, WriterNext(c)
      PROVE  ConnectionInv'
  <2>1. Closer(c, Writer(c))
    BY DEF Closer
  <2> QED BY <1>2, <2>1, TakeSafe, PingSafe, WrittenSafe, WriteFailsSafe, LoadSafe,
             LockSafe, ShutSafe, SocketSafe DEF WriterNext, Closes
<1>3. CASE LoopNext
  BY <1>3, AcceptSafe, AcceptHealthSafe, WriteSafe, RespondSafe DEF LoopNext
<1>4. ASSUME NEW p \in Prober, Ask(p) \/ GiveUp(p)
      PROVE  ConnectionInv'
  BY <1>4, AskSafe, GiveUpSafe
<1>5. CASE UNCHANGED vars
  <2>1. /\ UNCHANGED <<pc, sock, once, farewells, hand, connected, members>>
        /\ incoming' = incoming /\ outbox' = outbox /\ write' = write
    BY <1>5 DEF vars
  <2> QED BY <2>1, Unwritten, Elsewhere
<1> QED BY <1>1, <1>2, <1>3, <1>4, <1>5 DEF Next

\* The whole invariant: who waits at Incoming, where the goroutines of a connection
\* are before, while and after the loop knows it, and whom it tells to close.
THEOREM ConnectionInvariant == Spec => []ConnectionInv
BY InitConnectionInv, NextConnectionInv, PTL DEF Spec

\* Types; a writer's channel holds at most the one message of its buffer, and no
\* answer to a probe gets into one.
THEOREM ConnectionTypes == Spec => []TypeOK
<1>1. ConnectionInv /\ Types => TypeOK
  <2> SUFFICES ASSUME ConnectionInv, Types PROVE TypeOK
    OBVIOUS
  <2>1. pc \in [Goroutine -> {"none", "start", "read", "select", "write", "send",
                             "load", "lock", "shut", "leave", "done"}]
    <3>1. ASSUME NEW g \in Goroutine
          PROVE  \E c \in Client : g \in {Upgrader(c), Reader(c), Writer(c), Leaver(c)}
      BY DEF Goroutine, Upgrader, Reader, Writer, Leaver
    <3>2. ASSUME NEW g \in Goroutine
          PROVE  pc[g] \in {"none", "start", "read", "select", "write", "send",
                            "load", "lock", "shut", "leave", "done"}
      BY <3>1, Presently
    <3> QED BY <3>2, Fields
  <2>2. \A c \in Client : Len(write[c]) <= 1
    <3>1. ASSUME NEW q, Fits(q) PROVE Len(q) <= 1
      <4>1. CASE q = <<>>
        BY <4>1
      <4>2. ASSUME NEW m, q = <<m>> PROVE Len(q) <= 1
        BY <4>2
      <4> QED BY <3>1, <4>1, <4>2 DEF Fits
    <3> QED BY <3>1 DEF Types
  <2> QED BY <2>1, <2>2 DEF ConnectionInv, Beginnings, Farewells, Types, TypeOK
<1>2. Spec => []Types
  BY InitTypes, NextTypes, ConnectionInvariant, PTL DEF Spec
<1> QED BY <1>1, <1>2, ConnectionInvariant, PTL

\* CloseOnError's once lets one goroutine through (ws/once.go), so that the loop is
\* told of the end of a connection at most once, however reader and writer fail together.
THEOREM EndsAreReportedOnce == Spec => []OneFarewell
<1>1. ConnectionInv => OneFarewell
  BY DEF ConnectionInv, Farewells, OneFarewell
<1> QED BY <1>1, ConnectionInvariant, PTL

\* A connection that has closed and that the loop still knows has reported, and the
\* report is on its way: Upgrade announces it before any of its goroutines can fail
\* (ws/rooms.go), and the loop forgets it before it is told to close (ws/client.go).
THEOREM ClosedOnesAreReported == Spec => []NoGhosts
<1>1. ConnectionInv => NoGhosts
  BY DEF ConnectionInv
<1> QED BY <1>1, ConnectionInvariant, PTL

=============================================================================
