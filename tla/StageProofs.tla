----------------------------- MODULE StageProofs ------------------------------
(***************************************************************************)
(* What a page shares is what it shows and what the server was told, and   *)
(* what it has on the stage is what its room has, for any number of        *)
(* attempts, streams, captures and pickers.                                *)
(***************************************************************************)
EXTENDS Stage, TLAPS

Fields == {"ws", "host", "clients", "selected"}

\* Nothing is shown out of a room, the room that is shown has been entered and is not over,
\* and a server knows of nothing over a connection that does not reach it.
ShareInv ==
    /\ DOMAIN view = Fields
    /\ pickers \subseteq Capture
    /\ conn \in Attempt \cup {None} /\ view.ws \in Attempt \cup {None}
    /\ DOMAIN ws = Attempt
    /\ view.ws = None => view.host = None
    /\ view.ws # None => ws[view.ws] \in {"in", "closing"}
    /\ \A a \in sharing : a \in Attempt /\ ws[a] \in {"open", "in", "closing"}
    /\ conn \in sharing => ws[conn] \in {"open", "in"}
    /\ ShareIsAsShown

-----------------------------------------------------------------------------

LEMMA InitShareInv == Init => ShareInv
<1> SUFFICES ASSUME Init PROVE ShareInv
  OBVIOUS
<1>1. DOMAIN view = Fields /\ view.ws = None /\ view.host = None
  BY DEF Init, Nothing, Fields
<1>2. pickers = {} /\ sharing = {} /\ conn = None /\ DOMAIN ws = Attempt
  BY DEF Init
<1> QED
  BY <1>1, <1>2 DEF ShareInv, ShareIsAsShown

\* ShareInv depends on what stays.
LEMMA ShareInvUnchanged ==
    ASSUME ShareInv, UNCHANGED <<server, capture, live>>,
           DOMAIN view' = Fields, view'.ws = view.ws, view'.host = view.host,
           pickers' \subseteq Capture, ended \subseteq ended'
    PROVE  ShareInv'
BY DEF ShareInv, ShareIsAsShown, server

\* stopShare, called from wherever: what is shown, kept and told goes together, unless it
\* throws, and then the room that is shown is not that of conn.current.
LEMMA StopsKeeps ==
    ASSUME ShareInv, Stops
    PROVE  /\ DOMAIN view' = Fields /\ view'.ws = view.ws
           /\ view'.host \in {view.host, None}
           /\ view.ws = conn => view'.host = None
           /\ sharing' \subseteq sharing /\ conn \notin sharing'
<1>1. CASE Throws
  <2>1. view.ws # conn /\ conn \notin sharing
    BY <1>1, AttemptsAssumption DEF Throws, ShareInv
  <2> QED
    BY <1>1, <2>1 DEF Stops, ShareInv
<1>2. CASE ~Throws
  <2>1. DOMAIN view' = Fields /\ view'.ws = view.ws /\ view'.host = None
    BY <1>2 DEF Stops, ShowsHost, ShareInv, Fields
  <2>2. sharing' \subseteq sharing /\ conn \notin sharing'
    BY DEF Stops, Reached, ShareInv
  <2> QED
    BY <2>1, <2>2
<1> QED
  BY <1>1, <1>2

\* Events of the streams, of the browser and of React leave shares as they are.
LEMMA StreamStep ==
    ASSUME ShareInv,
           \/ Render \/ RunEffects
           \/ \E s \in Session \cup {Host} : Select(s)
           \/ \E s \in Session : Arrives(s) \/ Goes(s)
           \/ \E s \in Session \cup Capture : FallsSilent(s) \/ HearsOf(s)
    PROVE  ShareInv'
<1>1. UNCHANGED <<server, capture, live, pickers, ended>>
  BY DEF Render, RunEffects, Select, Arrives, Goes, FallsSilent, HearsOf, media, stage, server
<1>2. DOMAIN view' = DOMAIN view /\ view'.ws = view.ws /\ view'.host = view.host
  <2>1. CASE Render
    BY <2>1 DEF Render, ShareInv, Fields
  <2>2. CASE RunEffects
    BY <2>2 DEF RunEffects, ShareInv, Fields
  <2>3. CASE \E s \in Session \cup {Host} : Select(s)
    BY <2>3 DEF Select, ShareInv, Fields
  <2>4. CASE \E s \in Session : Arrives(s) \/ Goes(s)
    BY <2>4 DEF Arrives, Goes, ShareInv, Fields
  <2>5. CASE \E s \in Session \cup Capture : FallsSilent(s) \/ HearsOf(s)
    BY <2>5 DEF FallsSilent, HearsOf, stage
  <2> QED
    BY <2>1, <2>2, <2>3, <2>4, <2>5
<1> QED
  BY <1>1, <1>2, ShareInvUnchanged DEF ShareInv

\* A connection comes, opens, enters or goes, also one that is not shown or not the last.
LEMMA ConnectionStep ==
    ASSUME ShareInv, NEW a \in Attempt, Connect(a) \/ Opens(a) \/ Enters(a) \/ Closes(a)
    PROVE  ShareInv'
<1>1. CASE Connect(a)
  <2>1. /\ UNCHANGED <<stage, media, sharing>> /\ conn' = a /\ ws[a] = "none"
        /\ DOMAIN ws' = Attempt /\ ws'[a] = "connecting"
        /\ \A b \in Attempt : b # a => ws'[b] = ws[b]
    BY <1>1 DEF Connect, ShareInv
  <2>2. a # view.ws /\ a \notin sharing /\ a # None
    BY <2>1, AttemptsAssumption DEF ShareInv
  <2> QED
    BY <2>1, <2>2 DEF ShareInv, ShareIsAsShown, stage, media
<1>2. CASE Opens(a)
  <2>1. /\ UNCHANGED <<conn, stage, media, sharing>> /\ ws[a] = "connecting"
        /\ DOMAIN ws' = Attempt /\ ws'[a] = "open"
        /\ \A b \in Attempt : b # a => ws'[b] = ws[b]
    BY <1>2 DEF Opens, ShareInv
  <2>2. a # view.ws /\ a \notin sharing
    BY <2>1, AttemptsAssumption DEF ShareInv
  <2> QED
    BY <2>1, <2>2, AttemptsAssumption DEF ShareInv, ShareIsAsShown, stage, media
<1>3. CASE Enters(a)
  <2>1. /\ DOMAIN view' = Fields /\ view'.ws = a /\ view'.host = None
        /\ UNCHANGED <<conn, media, sharing>> /\ ws[a] = "open"
        /\ DOMAIN ws' = Attempt /\ ws'[a] = "in"
        /\ \A b \in Attempt : b # a => ws'[b] = ws[b]
    BY <1>3 DEF Enters, ShareInv, Fields
  <2> QED
    BY <2>1, AttemptsAssumption DEF ShareInv, ShareIsAsShown, media
<1>4. CASE Closes(a)
  <2>1. /\ DOMAIN view' = Fields /\ view'.ws = None /\ view'.host = None
        /\ UNCHANGED <<conn, media>> /\ sharing' = sharing \ {a}
        /\ DOMAIN ws' = Attempt /\ \A b \in Attempt : b # a => ws'[b] = ws[b]
    BY <1>4 DEF Closes, Nothing, Fields, ShareInv
  <2> QED
    BY <2>1 DEF ShareInv, ShareIsAsShown, media
<1> QED
  BY <1>1, <1>2, <1>3, <1>4

\* A capture comes from its picker.
LEMMA PicksStep ==
    ASSUME ShareInv, NEW c \in Capture, Picks(c)
    PROVE  ShareInv'
<1>1. /\ DOMAIN view' = Fields /\ view'.ws = view.ws
      /\ view'.host = IF view.ws # None THEN c ELSE None
  BY DEF Picks, ShowsHost, ShareInv, Fields
<1>2. capture' = c /\ c \in live' /\ pickers' \subseteq Capture /\ UNCHANGED <<conn, ws>>
  BY DEF Picks, ShareInv
<1>3. sharing' = sharing \cup Reached
  BY DEF Picks
<1>4. /\ \A a \in sharing' : a \in Attempt /\ ws[a] \in {"open", "in", "closing"}
      /\ conn \in sharing' => ws[conn] \in {"open", "in"}
  BY <1>3 DEF ShareInv, Reached
<1>5. view.ws # None /\ view.ws = conn /\ ws[conn] = "in" => conn \in sharing'
  BY <1>3 DEF ShareInv, Reached
<1> QED
  BY <1>1, <1>2, <1>4, <1>5 DEF ShareInv, ShareIsAsShown

\* Other steps of the user, and the end of a capture.
LEMMA ShareStep ==
    ASSUME ShareInv,
           \/ StopShare \/ LeaveRoom
           \/ \E c \in Capture : Share(c) \/ Declines(c) \/ CaptureEnds(c) \/ OnEnded(c)
    PROVE  ShareInv'
<1>1. CASE StopShare \/ LeaveRoom \/ \E c \in Capture : OnEnded(c)
  <2>1. /\ Stops /\ pickers' = pickers /\ conn' = conn /\ DOMAIN ws' = Attempt
        /\ \A a \in Attempt : ws'[a] = ws[a] \/ (ws'[a] = "closing" /\ ws[a] # "none")
    BY <1>1 DEF StopShare, LeaveRoom, OnEnded, ShareInv
  <2>2. /\ DOMAIN view' = Fields /\ view'.ws = view.ws
        /\ view'.host \in {view.host, None} /\ (view.ws = conn => view'.host = None)
        /\ sharing' \subseteq sharing /\ conn \notin sharing'
    BY <2>1, StopsKeeps
  <2>3. view'.ws # None => ws'[view'.ws] \in {"in", "closing"}
    BY <2>1, <2>2 DEF ShareInv
  <2>4. \A a \in sharing' : a \in Attempt /\ ws'[a] \in {"open", "in", "closing"}
    BY <2>1, <2>2 DEF ShareInv
  <2> QED
    BY <2>1, <2>2, <2>3, <2>4 DEF ShareInv, ShareIsAsShown
<1>2. ASSUME NEW c \in Capture, Share(c) \/ Declines(c)
      PROVE  ShareInv'
  BY <1>2, ShareInvUnchanged DEF Share, Declines, ShareInv, stage, server
<1>3. ASSUME NEW c \in Capture, CaptureEnds(c)
      PROVE  ShareInv'
  BY <1>3 DEF CaptureEnds, ShareInv, ShareIsAsShown, stage, server
<1> QED
  BY <1>1, <1>2, <1>3

LEMMA NextShareInv == ShareInv /\ [Next]_vars => ShareInv'
<1> SUFFICES ASSUME ShareInv, [Next]_vars PROVE ShareInv'
  OBVIOUS
<1>1. CASE UNCHANGED vars
  BY <1>1 DEF vars, stage, media, server, ShareInv, ShareIsAsShown
<1> QED
  BY <1>1, StreamStep, ConnectionStep, PicksStep, ShareStep DEF Next, User, Browser

\* In the room of its last attempt, what the page shows as its own screen is what "stop"
\* stops, and the server knows of it; and who shares for the server of that attempt captures
\* a screen, or its page is about to hear that the capture ended: no order of pickers,
\* stops, ends, leavings and of any number of attempts breaks that.
THEOREM SharesAreAsShown == Spec => []ShareIsAsShown
<1>1. ShareInv => ShareIsAsShown
  BY DEF ShareInv
<1> QED
  BY <1>1, InitShareInv, NextShareInv, PTL DEF Spec

-----------------------------------------------------------------------------
\* The stage

Ids == Session \cup Capture

IsList(q) == q \in Seq(Session) /\ \A i, j \in DOMAIN q : q[i] = q[j] => i = j

\* Streams are where they belong, each once, and one that is picked is nowhere before.
StageTypes ==
    /\ DOMAIN view = Fields /\ DOMAIN seen = Fields
    /\ IsList(view.clients) /\ IsList(seen.clients)
    /\ view.host \in Capture \cup {None} /\ seen.host \in Capture \cup {None}
    /\ capture \in Capture \cup {None}
    /\ listening \in Ids \cup {None}
    /\ pickers \subseteq Capture /\ sound \subseteq Ids
    /\ view.host \notin pickers /\ seen.host \notin pickers /\ listening \notin pickers

\* What useHasAudioTrack knows of a stream is right as long as the room has the stream, or
\* it is what is captured, also when it is no longer or not yet on the stage.
AudioKnown ==
    /\ hasAudio \in BOOLEAN
    /\ listening = None => hasAudio = FALSE
    /\ listening \in ({view.host} \cap {capture}) \cup ToSet(view.clients) /\ listening \notin silenced =>
           (hasAudio = TRUE <=> listening \in sound)

\* After the effects, the stage and the listeners have the stream that was rendered, and
\* a selection that is no good was replaced.
EffectsRan ==
    seen.ws # None /\ ~effects =>
        /\ listening = Stream(seen) /\ video = Stream(seen)
        /\ Selection(seen) = seen.selected \/ view.selected # seen.selected

StageInv == ShareInv /\ StageTypes /\ AudioKnown /\ EffectsRan

LEMMA AppendedList ==
    ASSUME NEW q, IsList(q), NEW s \in Session, s \notin ToSet(q)
    PROVE  IsList(Append(q, s)) /\ ToSet(Append(q, s)) = ToSet(q) \cup {s}
<1> DEFINE r == Append(q, s)
<1>1. r \in Seq(Session) /\ DOMAIN q = 1..Len(q) /\ DOMAIN r = 1..(Len(q) + 1) /\ Len(q) \in Nat
  BY DEF IsList
<1>2. \A i \in DOMAIN r : r[i] = IF i = Len(q) + 1 THEN s ELSE q[i]
  BY DEF IsList
<1>3. ToSet(r) = ToSet(q) \cup {s}
  BY <1>1, <1>2 DEF ToSet
<1>4. ASSUME NEW i \in DOMAIN r, NEW j \in DOMAIN r, r[i] = r[j]
      PROVE  i = j
  BY <1>1, <1>2, <1>4 DEF IsList, ToSet
<1> QED
  BY <1>1, <1>3, <1>4 DEF IsList

LEMMA ShortenedList ==
    ASSUME NEW q, IsList(q), NEW i \in DOMAIN q
    PROVE  IsList(RemoveAt(q, i)) /\ ToSet(RemoveAt(q, i)) = ToSet(q) \ {q[i]}
<1> DEFINE r == RemoveAt(q, i)
<1>1. q \in Seq(Session) /\ DOMAIN q = 1..Len(q) /\ Len(q) \in Nat /\ i \in 1..Len(q)
  BY DEF IsList
<1>2. /\ SubSeq(q, 1, i - 1) \in Seq(Session) /\ Len(SubSeq(q, 1, i - 1)) = i - 1
      /\ SubSeq(q, i + 1, Len(q)) \in Seq(Session)
      /\ Len(SubSeq(q, i + 1, Len(q))) = Len(q) - i
  BY <1>1
<1>3. r \in Seq(Session) /\ DOMAIN r = 1..(Len(q) - 1)
  BY <1>1, <1>2 DEF RemoveAt
<1>4. \A k \in 1..(Len(q) - 1) : r[k] = IF k < i THEN q[k] ELSE q[k + 1]
  <2> TAKE k \in 1..(Len(q) - 1)
  <2> DEFINE a == SubSeq(q, 1, i - 1)
             b == SubSeq(q, i + 1, Len(q))
  <2>1. r[k] = IF k <= i - 1 THEN a[k] ELSE b[k - (i - 1)]
    <3>1. r = a \o b
      BY DEF RemoveAt
    <3> HIDE DEF r, a, b
    <3>2. a \in Seq(Session) /\ b \in Seq(Session) /\ Len(a) = i - 1 /\ Len(b) = Len(q) - i
      BY <1>2 DEF a, b
    <3> QED
      BY <1>1, <3>1, <3>2
  <2>2. k < i => SubSeq(q, 1, i - 1)[k] = q[k]
    BY <1>1, <1>2
  <2>3. ~(k < i) => SubSeq(q, i + 1, Len(q))[k - (i - 1)] = q[k + 1]
    BY <1>1, <1>2
  <2> QED
    BY <1>1, <2>1, <2>2, <2>3
<1>5. ASSUME NEW k \in DOMAIN r, NEW l \in DOMAIN r, r[k] = r[l]
      PROVE  k = l
  <2> DEFINE at(m) == IF m < i THEN m ELSE m + 1
  <2>1. \A m \in DOMAIN r : at(m) \in DOMAIN q /\ r[m] = q[at(m)]
    BY <1>1, <1>3, <1>4
  <2>2. q[at(k)] = q[at(l)] /\ at(k) \in DOMAIN q /\ at(l) \in DOMAIN q
    <3> HIDE DEF at, r
    <3> QED
      BY <1>5, <2>1
  <2>3. at(k) = at(l)
    <3> HIDE DEF at
    <3> QED
      BY <2>2 DEF IsList
  <2> QED
    BY <1>1, <1>3, <2>3
<1>6. \A k \in DOMAIN r : \E l \in DOMAIN q : r[k] = q[l] /\ l # i
  <2> TAKE k \in DOMAIN r
  <2>1. CASE k < i
    BY <1>1, <1>3, <1>4, <2>1
  <2>2. CASE ~(k < i)
    BY <1>1, <1>3, <1>4, <2>2
  <2> QED
    BY <2>1, <2>2
<1>7. \A l \in DOMAIN q \ {i} : \E k \in DOMAIN r : r[k] = q[l]
  <2> TAKE l \in DOMAIN q \ {i}
  <2>1. CASE l < i
    BY <1>1, <1>3, <1>4, <2>1
  <2>2. CASE ~(l < i)
    <3>1. l - 1 \in DOMAIN r /\ ~(l - 1 < i)
      BY <1>1, <1>3, <2>2
    <3> QED
      BY <1>1, <1>3, <1>4, <3>1
  <2> QED
    BY <2>1, <2>2
<1>8. ToSet(r) = ToSet(q) \ {q[i]}
  <2>1. \A x \in ToSet(r) : x \in ToSet(q) /\ x # q[i]
    BY <1>6 DEF ToSet, IsList
  <2>2. \A x \in ToSet(q) : x # q[i] => x \in ToSet(r)
    BY <1>7 DEF ToSet
  <2> QED
    BY <2>1, <2>2
<1> QED
  BY <1>3, <1>5, <1>8 DEF IsList

\* A truth value in a variable.
LEMMA Truth ==
    \A b, x, S : b = (x \in S) => b \in BOOLEAN /\ (b = TRUE <=> x \in S)
<1> TAKE b, x, S
<1>1. CASE x \in S
  <2>1. (x \in S) = TRUE
    BY <1>1
  <2> QED
    BY <1>1, <2>1
<1>2. CASE x \notin S
  <2>1. (x \in S) = FALSE
    BY <1>2
  <2> QED
    BY <1>2, <2>1
<1> QED
  BY <1>1, <1>2

LEMMA StreamType ==
    ASSUME NEW v, IsList(v.clients), v.host \in Capture \cup {None}
    PROVE  /\ ToSet(v.clients) \subseteq Session
           /\ Stream(v) \in {v.host, None} \cup ToSet(v.clients)
<1>1. ToSet(v.clients) \subseteq Session
  BY DEF IsList, ToSet
<1>2. \A s : Contains(v.clients, s) => s \in ToSet(v.clients)
  BY DEF IsList, Contains, ToSet
<1> QED
  BY <1>1, <1>2 DEF Stream, Present

-----------------------------------------------------------------------------

LEMMA InitStageInv == Init => StageInv
<1> SUFFICES ASSUME Init PROVE StageInv
  OBVIOUS
<1>1. /\ DOMAIN view = Fields /\ view.clients = <<>> /\ view.host = None /\ view.ws = None
      /\ seen = view
  BY DEF Init, Nothing, Fields
<1>2. IsList(<<>>)
  BY DEF IsList
<1>3. StageTypes
  BY <1>1, <1>2 DEF Init, StageTypes
<1>4. AudioKnown
  BY DEF Init, AudioKnown
<1>5. EffectsRan
  BY <1>1 DEF EffectsRan
<1> QED
  BY <1>3, <1>4, <1>5, InitShareInv DEF StageInv

\* The steps that neither render nor run effects nor select only have to keep the lists,
\* the hosts and what is known of the audio.
LEMMA EffectsRanUnchanged ==
    ASSUME EffectsRan, UNCHANGED <<seen, effects, listening, video>>,
           view'.selected = view.selected
    PROVE  EffectsRan'
BY DEF EffectsRan, Stream, Selection, Present

LEMMA RenderStage ==
    ASSUME StageInv, Render
    PROVE  StageTypes' /\ AudioKnown' /\ EffectsRan'
<1> DEFINE Rendered == {view, [view EXCEPT !.selected = seen.selected],
                       [seen EXCEPT !.selected = view.selected]}
<1>1. \A n \in Rendered : /\ DOMAIN n = Fields
                         /\ n.host \in {view.host, seen.host}
                         /\ n.clients \in {view.clients, seen.clients}
  BY DEF StageInv, StageTypes, Fields
<1>2. UNCHANGED media
  BY DEF Render
<1>3. PICK n \in Rendered : n # seen /\
        IF n.ws # None
        THEN /\ seen' = n
             /\ effects' = TRUE
             /\ UNCHANGED <<view, listening, hasAudio, video>>
        ELSE /\ seen' = Nothing
             /\ view' = [view EXCEPT !.selected = None]
             /\ listening' = None /\ hasAudio' = FALSE /\ video' = None
             /\ UNCHANGED effects
  BY DEF Render
<1>4. CASE n.ws # None
  <2>1. seen' = n /\ effects' = TRUE /\ UNCHANGED <<view, listening, hasAudio, video>>
    BY <1>3, <1>4
  <2>2. DOMAIN seen' = Fields /\ IsList(seen'.clients) /\ seen'.host \in {view.host, seen.host}
    BY <1>1, <2>1 DEF StageInv, StageTypes
  <2>3. StageTypes'
    BY <1>2, <2>1, <2>2 DEF StageInv, StageTypes, media
  <2>4. AudioKnown' /\ EffectsRan'
    BY <1>2, <2>1 DEF StageInv, AudioKnown, EffectsRan, media
  <2> QED
    BY <2>3, <2>4
<1>5. CASE n.ws = None
  <2>1. /\ DOMAIN seen' = Fields /\ seen'.clients = <<>> /\ seen'.host = None
        /\ seen'.ws = None
    BY <1>3, <1>5 DEF Nothing, Fields
  <2>2. /\ DOMAIN view' = Fields /\ view'.clients = view.clients /\ view'.host = view.host
        /\ listening' = None /\ hasAudio' = FALSE
    BY <1>3, <1>5 DEF StageInv, StageTypes, Fields
  <2>3. IsList(<<>>)
    BY DEF IsList
  <2>4. StageTypes'
    BY <1>2, <2>1, <2>2, <2>3, NamesAssumption DEF StageInv, StageTypes, media
  <2> QED
    BY <1>2, <2>1, <2>2, <2>4, NamesAssumption DEF StageInv, StageTypes, AudioKnown, EffectsRan, Ids, media
<1> QED
  BY <1>4, <1>5

LEMMA EffectsStage ==
    ASSUME StageInv, RunEffects
    PROVE  StageTypes' /\ AudioKnown' /\ EffectsRan'
<1>1. /\ UNCHANGED <<seen, media>>
      /\ effects' = FALSE /\ Listens(Stream(seen)) /\ video' = Stream(seen)
  BY DEF RunEffects
<1>2. /\ DOMAIN view' = Fields /\ view'.host = view.host /\ view'.clients = view.clients
      /\ Selection(seen) # seen.selected => view'.selected = Selection(seen)
  BY DEF RunEffects, StageInv, StageTypes, Fields
<1>3. listening' = Stream(seen)
  BY <1>1 DEF Listens
<1>4. Stream(seen) \in {seen.host, None} \cup ToSet(seen.clients) /\ ToSet(seen.clients) \subseteq Session
  BY StreamType DEF StageInv, StageTypes
<1>5. listening' \in Ids \cup {None} /\ listening' \notin pickers
  BY <1>3, <1>4, StreamsAssumption, NamesAssumption DEF StageInv, StageTypes, Ids
<1>6. StageTypes'
  BY <1>1, <1>2, <1>5 DEF StageInv, StageTypes, media
<1>7. AudioKnown'
  <2>1. CASE Stream(seen) = listening
    BY <1>1, <1>2, <2>1 DEF Listens, StageInv, AudioKnown, media
  <2>2. CASE Stream(seen) # listening
    <3>1. listening' = Stream(seen) /\ hasAudio' = (Stream(seen) \in sound) /\ sound' = sound
      BY <1>1, <2>2 DEF Listens, media
    <3>2. None \notin sound
      BY NamesAssumption DEF StageInv, StageTypes, Ids
    <3>3. hasAudio' \in BOOLEAN /\ (hasAudio' = TRUE <=> Stream(seen) \in sound)
      BY <3>1, Truth
    <3> QED
      BY <3>1, <3>2, <3>3 DEF AudioKnown
  <2> QED
    BY <2>1, <2>2
<1>8. EffectsRan'
  BY <1>1, <1>2, <1>3 DEF EffectsRan, Stream, Selection, Present
<1> QED
  BY <1>6, <1>7, <1>8

LEMMA SelectStage ==
    ASSUME StageInv, NEW s, Select(s)
    PROVE  StageTypes' /\ AudioKnown' /\ EffectsRan'
<1>1. /\ UNCHANGED <<seen, effects, listening, hasAudio, video, media>>
      /\ s # seen.selected
  BY DEF Select
<1>2. /\ DOMAIN view' = Fields /\ view'.host = view.host /\ view'.clients = view.clients
      /\ view'.selected = s
  BY DEF Select, StageInv, StageTypes, Fields
<1>3. StageTypes' /\ AudioKnown'
  BY <1>1, <1>2 DEF StageInv, StageTypes, AudioKnown, media
<1>4. EffectsRan'
  BY <1>1, <1>2 DEF StageInv, EffectsRan, Stream, Selection, Present
<1> QED
  BY <1>3, <1>4

-----------------------------------------------------------------------------
\* Streams and their audio

LEMMA ArrivesStage ==
    ASSUME StageInv, NEW s \in Session, Arrives(s)
    PROVE  StageTypes' /\ AudioKnown' /\ EffectsRan'
<1>1. /\ UNCHANGED <<seen, effects, listening, hasAudio, video, silenced, pickers, capture>>
      /\ sound' \in {sound, sound \cup {s}} /\ Unused(s)
  BY DEF Arrives
<1>2. /\ DOMAIN view' = Fields /\ view'.host = view.host /\ view'.selected = view.selected
      /\ view'.clients = Append(view.clients, s)
  BY DEF Arrives, StageInv, StageTypes, Fields
<1>3. s \notin ToSet(view.clients) /\ s # listening
  BY <1>1 DEF Unused
<1>4. IsList(view'.clients) /\ ToSet(view'.clients) = ToSet(view.clients) \cup {s}
  BY <1>2, <1>3, AppendedList DEF StageInv, StageTypes
<1>5. StageTypes'
  BY <1>1, <1>2, <1>4 DEF StageInv, StageTypes, Ids
<1>6. AudioKnown'
  BY <1>1, <1>2, <1>3, <1>4 DEF StageInv, AudioKnown
<1> QED
  BY <1>1, <1>2, <1>5, <1>6, EffectsRanUnchanged DEF StageInv

LEMMA GoesStage ==
    ASSUME StageInv, NEW s \in Session, Goes(s)
    PROVE  StageTypes' /\ AudioKnown' /\ EffectsRan'
<1>1. /\ UNCHANGED <<seen, effects, listening, hasAudio, video, silenced, pickers, capture>>
      /\ sound' = sound \ {s}
  BY DEF Goes
<1>2. PICK i \in DOMAIN view.clients : /\ view.clients[i] = s
                                      /\ view' = [view EXCEPT !.clients = RemoveAt(@, i)]
  BY DEF Goes
<1>3. /\ DOMAIN view' = Fields /\ view'.host = view.host /\ view'.selected = view.selected
      /\ view'.clients = RemoveAt(view.clients, i)
  BY <1>2 DEF StageInv, StageTypes, Fields
<1>4. IsList(view'.clients) /\ ToSet(view'.clients) = ToSet(view.clients) \ {s}
  BY <1>2, <1>3, ShortenedList DEF StageInv, StageTypes
<1>5. StageTypes'
  BY <1>1, <1>3, <1>4 DEF StageInv, StageTypes
<1>6. s # view.host
  BY StreamsAssumption, NamesAssumption DEF StageInv, StageTypes
<1>7. AudioKnown'
  BY <1>1, <1>3, <1>4, <1>6 DEF StageInv, AudioKnown
<1> QED
  BY <1>1, <1>3, <1>5, <1>7, EffectsRanUnchanged DEF StageInv

LEMMA AudioStage ==
    ASSUME StageInv, NEW s \in Ids, FallsSilent(s) \/ HearsOf(s)
    PROVE  StageTypes' /\ AudioKnown' /\ EffectsRan'
<1>1. UNCHANGED <<view, seen, effects, listening, video, pickers, capture>>
  BY DEF FallsSilent, HearsOf, stage
<1>2. CASE FallsSilent(s)
  <2>1. sound' = sound \ {s} /\ silenced' = silenced \cup {s} /\ hasAudio' = hasAudio
    BY <1>2 DEF FallsSilent, stage
  <2> QED
    BY <1>1, <2>1, EffectsRanUnchanged DEF StageInv, StageTypes, AudioKnown
<1>3. CASE HearsOf(s)
  <2>1. sound' = sound /\ silenced' = silenced \ {s}
    BY <1>3 DEF HearsOf
  <2>2. StageTypes' /\ EffectsRan'
    BY <1>1, <2>1, EffectsRanUnchanged DEF StageInv, StageTypes
  <2>3. CASE listening = s
    <3>1. hasAudio' \in BOOLEAN /\ (hasAudio' = TRUE <=> listening \in sound)
      <4>1. hasAudio' = (s \in sound)
        BY <1>3, <2>3 DEF HearsOf
      <4> QED
        BY <4>1, <2>3, Truth
    <3> QED
      BY <1>1, <2>1, <2>2, <2>3, <3>1, NamesAssumption DEF AudioKnown, Ids
  <2>4. CASE listening # s
    <3>1. hasAudio' = hasAudio
      BY <1>3, <2>4 DEF HearsOf
    <3> QED
      BY <1>1, <2>1, <2>2, <2>4, <3>1 DEF StageInv, AudioKnown
  <2> QED
    BY <2>2, <2>3, <2>4
<1> QED
  BY <1>2, <1>3

-----------------------------------------------------------------------------
\* The room and the captures

LEMMA ConnectionStage ==
    ASSUME StageInv, NEW a \in Attempt, Connect(a) \/ Opens(a) \/ Enters(a) \/ Closes(a)
    PROVE  StageTypes' /\ AudioKnown' /\ EffectsRan'
<1>1. UNCHANGED <<seen, effects, listening, hasAudio, video, media>>
  BY DEF Connect, Opens, Enters, Closes, stage
<1>2. \/ view' = view
      \/ /\ DOMAIN view' = Fields /\ view'.host = None /\ view'.clients = <<>>
         /\ view'.selected = view.selected
  BY DEF Connect, Opens, Enters, Closes, stage, Nothing, StageInv, StageTypes, Fields
<1>3. IsList(<<>>) /\ ToSet(<<>>) = {}
  BY DEF IsList, ToSet
<1>4. StageTypes'
  BY <1>1, <1>2, <1>3, NamesAssumption DEF StageInv, StageTypes, media
<1>5. AudioKnown'
  <2>1. None \notin sound
    BY NamesAssumption DEF StageInv, StageTypes, Ids
  <2> QED
    BY <1>1, <1>2, <1>3, <2>1 DEF StageInv, AudioKnown, media
<1>6. view'.selected = view.selected
  BY <1>2
<1> QED
  BY <1>1, <1>4, <1>5, <1>6, EffectsRanUnchanged DEF StageInv

LEMMA PickerStage ==
    ASSUME StageInv, NEW c \in Capture, Share(c) \/ Declines(c) \/ CaptureEnds(c)
    PROVE  StageTypes' /\ AudioKnown' /\ EffectsRan'
<1>1. UNCHANGED <<stage, capture>>
  BY DEF Share, Declines, CaptureEnds
<1>2. EffectsRan'
  BY <1>1, EffectsRanUnchanged DEF StageInv, stage
<1>3. CASE Share(c)
  <2>1. c \notin {view.host, seen.host, listening} /\ pickers' = pickers \cup {c}
        /\ UNCHANGED <<sound, silenced>>
    BY <1>3 DEF Share, Unused
  <2> QED
    BY <1>1, <1>2, <2>1 DEF StageInv, StageTypes, AudioKnown, stage
<1>4. CASE Declines(c)
  <2>1. pickers' = pickers \ {c} /\ UNCHANGED <<sound, silenced>>
    BY <1>4 DEF Declines
  <2> QED
    BY <1>1, <1>2, <2>1 DEF StageInv, StageTypes, AudioKnown, stage
<1>5. CASE CaptureEnds(c)
  <2>1. sound' = sound \ {c} /\ silenced' = silenced \cup ({c} \cap sound) /\ pickers' = pickers
    BY <1>5 DEF CaptureEnds
  <2> QED
    BY <1>1, <1>2, <2>1 DEF StageInv, StageTypes, AudioKnown, stage
<1> QED
  BY <1>3, <1>4, <1>5

LEMMA PicksStage ==
    ASSUME StageInv, NEW c \in Capture, Picks(c)
    PROVE  StageTypes' /\ AudioKnown' /\ EffectsRan'
<1>1. /\ UNCHANGED <<seen, effects, listening, hasAudio, video, silenced>>
      /\ c \in pickers /\ pickers' = pickers \ {c} /\ capture' = c
      /\ sound' \in {sound, sound \cup {c}}
  BY DEF Picks
<1>2. /\ DOMAIN view' = Fields /\ view'.clients = view.clients
      /\ view'.selected = view.selected /\ view'.host \in {view.host, c}
  BY DEF Picks, ShowsHost, StageInv, StageTypes, Fields
<1>3. c # listening /\ c # view.host /\ c # seen.host /\ c # None
  BY <1>1, NamesAssumption DEF StageInv, StageTypes
<1>4. StageTypes'
  BY <1>1, <1>2, <1>3 DEF StageInv, StageTypes, Ids
<1>5. AudioKnown'
  BY <1>1, <1>2, <1>3 DEF StageInv, AudioKnown
<1> QED
  BY <1>1, <1>2, <1>4, <1>5, EffectsRanUnchanged DEF StageInv

\* What is captured has no sound any more: it is off the stage, or no longer captured.
LEMMA StopsStage ==
    ASSUME StageInv, StopShare \/ LeaveRoom \/ \E c \in Capture : OnEnded(c)
    PROVE  StageTypes' /\ AudioKnown' /\ EffectsRan'
<1>1. /\ UNCHANGED <<seen, effects, listening, hasAudio, video, silenced, pickers>>
      /\ Stops
  BY DEF StopShare, LeaveRoom, OnEnded
<1>2. /\ DOMAIN view' = Fields /\ view'.clients = view.clients
      /\ view'.selected = view.selected /\ view'.host \in {view.host, None}
  BY <1>1 DEF Stops, ShowsHost, StageInv, StageTypes, Fields
<1>3. sound' = sound \ {capture} /\ capture' = None
  BY <1>1 DEF Stops
<1>4. StageTypes'
  BY <1>1, <1>2, <1>3, NamesAssumption DEF StageInv, StageTypes
<1>5. AudioKnown'
  <2>1. None \notin sound
    BY NamesAssumption DEF StageInv, StageTypes, Ids
  <2>2. capture \notin ToSet(view.clients)
    BY StreamType, StreamsAssumption, NamesAssumption DEF StageInv, StageTypes
  <2> QED
    BY <1>1, <1>2, <1>3, <2>1, <2>2 DEF StageInv, AudioKnown
<1> QED
  BY <1>1, <1>2, <1>4, <1>5, EffectsRanUnchanged DEF StageInv

LEMMA NextStageInv == StageInv /\ [Next]_vars => StageInv'
<1> SUFFICES ASSUME StageInv, [Next]_vars PROVE StageTypes' /\ AudioKnown' /\ EffectsRan'
  BY NextShareInv DEF StageInv
<1>1. CASE UNCHANGED vars
  <2>1. StageTypes' /\ AudioKnown'
    BY <1>1 DEF vars, stage, media, StageInv, StageTypes, AudioKnown
  <2> QED
    BY <1>1, <2>1, EffectsRanUnchanged DEF vars, stage, StageInv
<1>2. CASE User
  BY <1>2, StopsStage, SelectStage, PickerStage, PicksStage DEF User
<1>3. CASE Browser
  BY <1>3, RenderStage, EffectsStage, ConnectionStage, ArrivesStage, GoesStage, AudioStage,
     StopsStage DEF Browser, Ids
<1> QED
  BY <1>1, <1>2, <1>3 DEF Next

LEMMA StageInvAlways == Spec => []StageInv
BY InitStageInv, NextStageInv, PTL DEF Spec

\* A settled page shows one of the streams its room has, whatever came, went, and was clicked.
THEOREM TheStageIsLit == Spec => []StageIsLit
<1>1. StageInv => StageIsLit
  <2> SUFFICES ASSUME StageInv, Settled, NEW t \in Session \cup {Host}, Present(seen, t)
               PROVE  Present(seen, seen.selected) /\ video = Stream(seen)
    BY DEF StageIsLit
  <2>1. video = Stream(seen) /\ Selection(seen) = seen.selected
    BY DEF StageInv, EffectsRan, Settled
  <2>2. seen.host # None => Present(seen, Host)
    BY DEF Present
  <2>3. ASSUME seen.clients # <<>>
        PROVE  Present(seen, Head(seen.clients))
    <3>1. seen.clients \in Seq(Session)
      BY DEF StageInv, StageTypes, IsList
    <3>2. /\ 1 \in 1..Len(seen.clients) /\ seen.clients[1] = Head(seen.clients)
          /\ Head(seen.clients) \in Session
      BY <2>3, <3>1
    <3>3. Head(seen.clients) # Host
      BY <3>2, NamesAssumption
    <3> QED
      BY <3>2, <3>3 DEF Present, Contains
  <2>4. seen.host # None \/ seen.clients # <<>>
    <3>1. ~Contains(<<>>, t)
      BY DEF Contains
    <3> QED
      BY <3>1 DEF Present
  <2> QED
    BY <2>1, <2>2, <2>3, <2>4 DEF Selection
<1> QED
  BY <1>1, StageInvAlways, PTL

\* The volume button of a settled page tells whether what is on the stage has sound, up to
\* what the browser has yet to report, and a stopped screen that stays there.
THEOREM TheVolumeButtonIsRight == Spec => []VolumeButtonIsRight
<1>1. StageInv => VolumeButtonIsRight
  <2> SUFFICES ASSUME StageInv, Settled, Stream(seen) \notin silenced,
                      Stream(seen) \in Capture => Stream(seen) = capture
               PROVE  hasAudio = (Stream(seen) \in sound)
    BY DEF VolumeButtonIsRight
  <2>1. listening = Stream(seen) /\ seen = view
    BY DEF StageInv, EffectsRan, Settled
  <2>2. Stream(seen) \in {view.host, None} \cup ToSet(view.clients)
    BY <2>1, StreamType DEF StageInv, StageTypes
  <2>3. None \notin sound
    BY NamesAssumption DEF StageInv, StageTypes, Ids
  <2>4. Stream(seen) # None => Stream(seen) \in ({view.host} \cap {capture}) \cup ToSet(view.clients)
    BY <2>2 DEF StageInv, StageTypes
  <2>5. hasAudio \in BOOLEAN /\ (hasAudio = TRUE <=> Stream(seen) \in sound)
    BY <2>1, <2>3, <2>4 DEF StageInv, AudioKnown
  <2> QED
    BY <2>5
<1> QED
  BY <1>1, StageInvAlways, PTL
=============================================================================
