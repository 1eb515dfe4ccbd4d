----------------------------- MODULE LandingProofs ----------------------------
(***************************************************************************)
(* A page before its room, for any number of attempts and of overlapping   *)
(* calls: every end is told once, forms get their answers, what a form     *)
(* offers is accepted, and an undisturbed page knows its login.            *)
(***************************************************************************)
EXTENDS Landing, TLAPS

AttemptRecord ==
    [ws : {"none", "connecting", "open", "entered", "over"}, kind : Kind \cup {None},
     notifyInitialError : BOOLEAN, first : BOOLEAN, connected : BOOLEAN,
     closeNotified : BOOLEAN, gone : BOOLEAN, result : {None, "ok", "failed"},
     events : Seq(Event)]

IsEnding(events) == events \in Seq(Event) /\ \A i \in DOMAIN events : events[i] # "room"

\* What an attempt has yet to hear, and what the user was told of it.
Good(at, n) ==
    /\ at \in AttemptRecord
    /\ n \in {0, 1}
    /\ at.first => n = 0 /\ ~at.connected /\ ~at.closeNotified /\ at.result = None
    /\ at.ws \in {"none", "connecting", "open"} => at.first /\ at.events = <<>>
    /\ at.ws = "entered" /\ at.first => at.events = <<"room">>
    /\ at.ws = "entered" /\ ~at.first => at.events = <<>> /\ at.connected
    /\ at.ws = "over" /\ at.first =>
           /\ at.events # <<>>
           /\ \/ IsEnding(at.events)
              \/ Head(at.events) = "room" /\ Tail(at.events) # <<>> /\ IsEnding(Tail(at.events))
    /\ at.ws = "over" /\ ~at.first => IsEnding(at.events)
    /\ ~at.first /\ at.connected =>
           /\ at.result = "ok"
           /\ at.closeNotified => n = 1
           /\ ~at.closeNotified => n = 0
           /\ at.ws = "over" /\ at.events = <<>> => at.closeNotified
    /\ ~at.first /\ ~at.connected =>
           /\ at.result = "failed"
           /\ at.notifyInitialError => at.closeNotified
           /\ ~at.gone => n = 1

\* The form and the attempts that are its own.
FormInv ==
    /\ form.pendingAction = None <=> form.attempt = None
    /\ form.attempt # None =>
           /\ form.attempt \in Attempt
           /\ LET at == attempts[form.attempt]
              IN  /\ ~at.notifyInitialError /\ ~at.gone /\ at.ws # "none"
                  /\ at.result # "failed"
    /\ \A a \in Attempt :
           LET at == attempts[a]
           IN  at.ws # "none" /\ ~at.notifyInitialError /\ at.first /\ ~at.gone =>
                   form.attempt = a

EnteringInv ==
    /\ attempts \in [Attempt -> AttemptRecord]
    /\ told \in [Attempt -> {0, 1}]
    /\ DOMAIN form = {"pendingAction", "attempt", "answer"}
    /\ \A a \in Attempt : Good(attempts[a], told[a])
    /\ FormInv

-----------------------------------------------------------------------------
\* One attempt

\* A websocket reports.
LEMMA GoodComes ==
    ASSUME NEW at, NEW n, Good(at, n), NEW ws, NEW events,
           \/ at.ws = "connecting" /\ ws = "open" /\ events = <<>>
           \/ at.ws = "open" /\ ws = "entered" /\ events = <<"room">>
           \/ /\ at.ws \in {"connecting", "open", "entered"} /\ ws = "over"
              /\ events # <<>> /\ IsEnding(events)
    PROVE  Good([at EXCEPT !.ws = ws, !.events = @ \o events], n)
<1> DEFINE r == [at EXCEPT !.ws = ws, !.events = @ \o events]
<1>1. /\ at.events \in Seq(Event) /\ events \in Seq(Event) /\ at.events \o events \in Seq(Event)
      /\ ws \in {"open", "entered", "over"}
  <2>1. at.events \in Seq(Event)
    BY DEF Good, AttemptRecord
  <2>2. <<>> \in Seq(Event) /\ <<"room">> \in Seq(Event)
    BY DEF Event
  <2>3. events \in Seq(Event) /\ ws \in {"open", "entered", "over"}
    BY <2>2 DEF IsEnding
  <2> QED
    BY <2>1, <2>3
<1>2. /\ r \in AttemptRecord /\ r.ws = ws /\ r.events = at.events \o events
      /\ r.first = at.first /\ r.connected = at.connected
      /\ r.closeNotified = at.closeNotified /\ r.result = at.result
      /\ r.notifyInitialError = at.notifyInitialError /\ r.gone = at.gone
  BY <1>1 DEF Good, AttemptRecord
<1> HIDE DEF r
<1> SUFFICES Good(r, n)
  BY DEF r
<1>3. CASE at.ws \in {"connecting", "open"}
  <2>1. at.events \o events = events
    BY <1>1, <1>3 DEF Good
  <2> QED
    BY <1>2, <1>3, <2>1 DEF Good
<1>4. CASE at.ws = "entered" /\ at.first
  <2>1. at.events = <<"room">> /\ ws = "over" /\ events # <<>> /\ IsEnding(events)
    BY <1>4 DEF Good
  <2>2. /\ Head(<<"room">> \o events) = "room" /\ Tail(<<"room">> \o events) = events
        /\ <<"room">> \o events # <<>>
    BY <1>1
  <2> QED
    BY <1>2, <1>4, <2>1, <2>2 DEF Good
<1>5. CASE at.ws = "entered" /\ ~at.first
  <2>1. at.events \o events = events /\ ws = "over" /\ events # <<>> /\ IsEnding(events)
    BY <1>1, <1>5 DEF Good
  <2> QED
    BY <1>2, <1>5, <2>1 DEF Good
<1> QED
  BY <1>3, <1>4, <1>5

\* The first message is of the room.
LEMMA GoodRoom ==
    ASSUME NEW at, NEW n, Good(at, n), at.events # <<>>, Head(at.events) = "room"
    PROVE  /\ at.first
           /\ Good([at EXCEPT !.events = Tail(@), !.first = FALSE, !.connected = TRUE,
                              !.result = "ok"], n)
<1> DEFINE r == [at EXCEPT !.events = Tail(@), !.first = FALSE, !.connected = TRUE,
                           !.result = "ok"]
<1>1. at.events \in Seq(Event) /\ Tail(at.events) \in Seq(Event) /\ at.events[1] = "room"
      /\ 1 \in DOMAIN at.events
  BY DEF Good, AttemptRecord
<1>2. ~IsEnding(at.events)
  BY <1>1 DEF IsEnding
<1>3. at.first /\ at.ws \in {"entered", "over"}
  BY <1>2 DEF Good, AttemptRecord
<1>4. /\ r \in AttemptRecord /\ r.ws = at.ws /\ r.events = Tail(at.events)
      /\ r.first = FALSE /\ r.connected = TRUE
      /\ r.closeNotified = at.closeNotified /\ r.result = "ok"
      /\ r.notifyInitialError = at.notifyInitialError /\ r.gone = at.gone
  BY <1>1 DEF Good, AttemptRecord
<1> HIDE DEF r
<1>5. Tail(<<"room">>) = <<>>
  OBVIOUS
<1>6. Good(r, n)
  BY <1>2, <1>3, <1>4, <1>5 DEF Good
<1> QED
  BY <1>3, <1>6 DEF r

\* The end, or what comes after it: a toast, an answer, both never.
LEMMA GoodEnd ==
    ASSUME NEW at, NEW n, Good(at, n), at.events # <<>>, Head(at.events) # "room",
           NEW toasts \in BOOLEAN, NEW answers \in BOOLEAN, NEW r, NEW m,
           toasts <=> ~at.closeNotified /\ (at.connected \/ at.notifyInitialError),
           at.first /\ ~at.notifyInitialError /\ ~at.gone => answers,
           answers => at.first /\ ~at.notifyInitialError,
           r = [at EXCEPT !.events = Tail(@), !.first = FALSE,
                          !.result = IF at.first THEN "failed" ELSE @,
                          !.closeNotified = @ \/ toasts],
           m = n + (IF toasts THEN 1 ELSE 0) + (IF answers THEN 1 ELSE 0)
    PROVE  Good(r, m)
<1>1. at.events \in Seq(Event) /\ Tail(at.events) \in Seq(Event)
  BY DEF Good, AttemptRecord
<1>2. at.ws = "over"
  BY DEF Good, AttemptRecord
<1>3. IsEnding(at.events)
  BY <1>2 DEF Good, AttemptRecord
<1>4. IsEnding(Tail(at.events))
  BY <1>1, <1>3 DEF IsEnding
<1>5. /\ r \in AttemptRecord /\ r.ws = at.ws /\ r.events = Tail(at.events)
      /\ r.first = FALSE /\ r.connected = at.connected
      /\ r.closeNotified <=> at.closeNotified \/ toasts
      /\ r.result = IF at.first THEN "failed" ELSE at.result
      /\ r.notifyInitialError = at.notifyInitialError /\ r.gone = at.gone
  BY <1>1 DEF Good, AttemptRecord
<1>6. CASE at.first
  <2>1. n = 0 /\ ~at.connected /\ ~at.closeNotified
    BY <1>6 DEF Good
  <2>2. m \in {0, 1} /\ (~at.gone => m = 1)
    BY <1>6, <2>1
  <2> QED
    BY <1>2, <1>4, <1>5, <1>6, <2>1, <2>2 DEF Good
<1>7. CASE ~at.first /\ at.connected
  <2>1. /\ at.result = "ok"
        /\ at.closeNotified => n = 1
        /\ ~at.closeNotified => n = 0
    BY <1>7 DEF Good
  <2>2. m = 1
    <3>1. ~answers
      BY <1>7
    <3>2. CASE at.closeNotified
      <4>1. ~toasts
        BY <3>2
      <4> QED
        BY <2>1, <3>1, <3>2, <4>1
    <3>3. CASE ~at.closeNotified
      <4>1. toasts = TRUE
        BY <1>7, <3>3
      <4> QED
        BY <2>1, <3>1, <3>3, <4>1
    <3> QED
      BY <3>2, <3>3
  <2> QED
    BY <1>2, <1>4, <1>5, <1>7, <2>1, <2>2 DEF Good
<1>8. CASE ~at.first /\ ~at.connected
  <2>1. ~toasts /\ ~answers
    BY <1>8 DEF Good
  <2>2. m = n
    BY <2>1 DEF Good
  <2> QED
    BY <1>2, <1>4, <1>5, <1>8, <2>1, <2>2 DEF Good
<1> QED
  BY <1>6, <1>7, <1>8 DEF Good, AttemptRecord

LEMMA GoodGone ==
    ASSUME NEW at, NEW n, Good(at, n), NEW goes \in BOOLEAN
    PROVE  Good([at EXCEPT !.gone = @ \/ goes], n)
<1> DEFINE r == [at EXCEPT !.gone = @ \/ goes]
<1>1. /\ r \in AttemptRecord /\ r.ws = at.ws /\ r.events = at.events
      /\ r.first = at.first /\ r.connected = at.connected
      /\ r.closeNotified = at.closeNotified /\ r.result = at.result
      /\ r.notifyInitialError = at.notifyInitialError /\ (r.gone <=> at.gone \/ goes)
  BY DEF Good, AttemptRecord
<1> HIDE DEF r
<1>2. Good(r, n)
  BY <1>1 DEF Good
<1> QED
  BY <1>2 DEF r

-----------------------------------------------------------------------------
\* All attempts

\* One attempt changes.
LEMMA OneChanges ==
    ASSUME EnteringInv, NEW a \in Attempt, NEW r, NEW m, Good(r, m),
           attempts' = [attempts EXCEPT ![a] = r],
           told' \in [Attempt -> {0, 1}], told'[a] = m,
           \A b \in Attempt \ {a} : told'[b] = told[b],
           DOMAIN form' = {"pendingAction", "attempt", "answer"},
           FormInv'
    PROVE  EnteringInv'
<1>1. r \in AttemptRecord /\ m \in {0, 1}
  BY DEF Good
<1>2. /\ attempts' \in [Attempt -> AttemptRecord]
      /\ attempts'[a] = r /\ \A b \in Attempt \ {a} : attempts'[b] = attempts[b]
  BY <1>1 DEF EnteringInv
<1>3. \A b \in Attempt : Good(attempts'[b], told'[b])
  BY <1>2 DEF EnteringInv
<1> QED
  BY <1>2, <1>3 DEF EnteringInv

\* It changes and is still the form's, or another's.
LEMMA FormKept ==
    ASSUME EnteringInv, NEW a \in Attempt, NEW r,
           attempts' = [attempts EXCEPT ![a] = r],
           attempts[a].ws # "none" /\ r.ws # "none",
           r.notifyInitialError = attempts[a].notifyInitialError,
           r.gone = attempts[a].gone,
           r.first => attempts[a].first,
           r.result = "failed" => form.attempt # a,
           DOMAIN form' = DOMAIN form,
           form'.pendingAction = form.pendingAction, form'.attempt = form.attempt
    PROVE  FormInv'
<1>1. attempts'[a] = r /\ \A b \in Attempt \ {a} : attempts'[b] = attempts[b]
  BY DEF EnteringInv
<1> QED
  BY <1>1 DEF EnteringInv, FormInv

LEMMA InitEntering == EnteringInit => EnteringInv
<1> SUFFICES ASSUME EnteringInit PROVE EnteringInv
  OBVIOUS
<1>1. Unused \in AttemptRecord
  <2>1. <<>> \in Seq(Event)
    OBVIOUS
  <2> QED
    BY <2>1 DEF Unused, AttemptRecord
<1>2. Good(Unused, 0)
  BY <1>1 DEF Good, Unused
<1>3. /\ attempts = [a \in Attempt |-> Unused] /\ told = [a \in Attempt |-> 0]
      /\ DOMAIN form = {"pendingAction", "attempt", "answer"}
      /\ form.pendingAction = None /\ form.attempt = None
  BY DEF EnteringInit, NewForm
<1>4. FormInv
  <2>1. \A a \in Attempt : attempts[a].ws = "none"
    BY <1>3 DEF Unused
  <2> QED
    BY <1>3, <2>1 DEF FormInv
<1> QED
  BY <1>1, <1>2, <1>3, <1>4 DEF EnteringInv

\* An attempt of the address, or of a form that then waits for it, begins.
LEMMA RoomKeeps ==
    ASSUME EnteringInv, NEW a \in Attempt, NEW kind \in Kind, NEW notifies \in BOOLEAN,
           Room(a, kind, notifies), told' = told,
           \/ notifies /\ form' = form
           \/ /\ ~notifies /\ form.pendingAction = None
              /\ form' = [pendingAction |-> kind, attempt |-> a, answer |-> None]
    PROVE  EnteringInv'
<1> DEFINE r == [Unused EXCEPT !.ws = "connecting", !.kind = kind,
                               !.notifyInitialError = notifies]
<1>1. /\ r.ws = "connecting" /\ r.notifyInitialError = notifies /\ r.first /\ ~r.gone
      /\ r.events = <<>> /\ ~r.connected /\ ~r.closeNotified /\ r.result = None
  BY DEF Unused
<1>2. r \in AttemptRecord
  <2>1. <<>> \in Seq(Event)
    OBVIOUS
  <2> QED
    BY <2>1 DEF Unused, AttemptRecord
<1>3. attempts' = [attempts EXCEPT ![a] = r] /\ attempts[a] = Unused
  BY DEF Room
<1> HIDE DEF r
<1>4. attempts[a].ws = "none" /\ attempts[a].first
  BY <1>3 DEF Unused
<1>5. told[a] = 0
  BY <1>4 DEF EnteringInv, Good
<1>6. Good(r, 0)
  BY <1>1, <1>2 DEF Good
<1>7. attempts'[a] = r /\ \A b \in Attempt \ {a} : attempts'[b] = attempts[b]
  BY <1>3 DEF EnteringInv
<1>8. FormInv' /\ DOMAIN form' = {"pendingAction", "attempt", "answer"}
  <2>1. CASE notifies /\ form' = form
    <3>1. form.attempt # a
      BY <1>4, NoneAssumption DEF EnteringInv, FormInv
    <3> QED
      BY <1>1, <1>7, <2>1, <3>1 DEF EnteringInv, FormInv
  <2>2. CASE /\ ~notifies /\ form.pendingAction = None
             /\ form' = [pendingAction |-> kind, attempt |-> a, answer |-> None]
    <3>1. /\ form'.pendingAction # None /\ form'.attempt = a /\ a # None
          /\ DOMAIN form' = {"pendingAction", "attempt", "answer"}
      BY <2>2, NoneAssumption
    <3>2. \A b \in Attempt : LET at == attempts[b] IN
              ~(at.ws # "none" /\ ~at.notifyInitialError /\ at.first /\ ~at.gone)
      BY <2>2, NoneAssumption DEF EnteringInv, FormInv
    <3>3. r.result # "failed"
      BY <1>1, NoneAssumption
    <3> QED
      BY <1>1, <1>7, <2>2, <3>1, <3>2, <3>3 DEF FormInv
  <2> QED
    BY <2>1, <2>2
<1> QED
  BY <1>3, <1>5, <1>6, <1>8, OneChanges DEF EnteringInv

LEMMA ComesKeeps ==
    ASSUME EnteringInv, NEW a \in Attempt, NEW ws, NEW events, Comes(a, ws, events),
           \/ attempts[a].ws = "connecting" /\ ws = "open" /\ events = <<>>
           \/ attempts[a].ws = "open" /\ ws = "entered" /\ events = <<"room">>
           \/ /\ attempts[a].ws \in {"connecting", "open", "entered"} /\ ws = "over"
              /\ events # <<>> /\ IsEnding(events)
    PROVE  EnteringInv'
<1> DEFINE r == [attempts[a] EXCEPT !.ws = ws, !.events = @ \o events]
<1>1. Good(r, told[a])
  BY GoodComes DEF EnteringInv
<1>2. attempts' = [attempts EXCEPT ![a] = r] /\ told' = told /\ form' = form
  BY DEF Comes
<1>3. /\ r.ws = ws /\ r.notifyInitialError = attempts[a].notifyInitialError
      /\ r.gone = attempts[a].gone /\ r.first = attempts[a].first
      /\ r.result = attempts[a].result
  BY DEF EnteringInv, AttemptRecord
<1> HIDE DEF r
<1>4. attempts[a].result = "failed" => form.attempt # a
  BY NoneAssumption DEF EnteringInv, FormInv
<1>5. FormInv'
  BY <1>2, <1>3, <1>4, FormKept
<1> QED
  BY <1>1, <1>2, <1>5, OneChanges DEF EnteringInv

\* The browser and the server do no other things to an attempt.
LEMMA WebsocketKeeps ==
    ASSUME EnteringInv, NEW a \in Attempt,
           \/ Opens(a) \/ Enters(a) \/ Breaks(a)
           \/ \E reason \in Reason : Closes(a, reason)
    PROVE  EnteringInv'
<1>1. ASSUME NEW reason \in Reason PROVE IsEnding(<<reason>>) /\ <<reason>> # <<>>
  <2>1. reason \in Event /\ reason # "room"
    BY DEF Event, Reason
  <2> QED
    BY <2>1 DEF IsEnding
<1>2. IsEnding(<<"error", "disconnected">>) /\ <<"error", "disconnected">> # <<>>
  BY DEF IsEnding, Event, Reason
<1>3. CASE Opens(a)
  BY <1>3, ComesKeeps DEF Opens
<1>4. CASE Enters(a)
  BY <1>4, ComesKeeps DEF Enters
<1>5. CASE Breaks(a)
  BY <1>2, <1>5, ComesKeeps DEF Breaks
<1>6. ASSUME NEW reason \in Reason, Closes(a, reason) PROVE EnteringInv'
  BY <1>1, <1>6, ComesKeeps DEF Closes
<1> QED
  BY <1>3, <1>4, <1>5, <1>6

LEMMA LeaveRoomKeeps == EnteringInv /\ LeaveRoom /\ shown \in Attempt => EnteringInv'
<1> SUFFICES ASSUME EnteringInv, LeaveRoom, shown \in Attempt PROVE EnteringInv'
  OBVIOUS
<1>1. IsEnding(<<"disconnected">>) /\ <<"disconnected">> # <<>>
  BY DEF IsEnding, Event, Reason
<1> QED
  BY <1>1, ComesKeeps DEF LeaveRoom

LEMMA OnRoomKeeps ==
    ASSUME EnteringInv, NEW a \in Attempt, OnRoom(a)
    PROVE  /\ EnteringInv'
           /\ \A b \in Attempt : /\ attempts'[b].ws = attempts[b].ws
                                /\ attempts'[b].notifyInitialError = attempts[b].notifyInitialError
<1> DEFINE r == [attempts[a] EXCEPT !.events = Tail(@), !.first = FALSE, !.connected = TRUE,
                                    !.result = "ok"]
<1>1. Good(r, told[a]) /\ attempts[a].first
  BY GoodRoom DEF EnteringInv, OnRoom
<1>2. attempts' = [attempts EXCEPT ![a] = r] /\ told' = told /\ form' = form
  BY DEF OnRoom
<1>3. /\ r.ws = attempts[a].ws /\ r.notifyInitialError = attempts[a].notifyInitialError
      /\ r.gone = attempts[a].gone /\ r.first = FALSE /\ r.result = "ok"
  BY DEF EnteringInv, AttemptRecord
<1> HIDE DEF r
<1>4. attempts[a].ws # "none"
  BY DEF EnteringInv, Good, OnRoom
<1>5. FormInv'
  BY <1>2, <1>3, <1>4, FormKept
<1>6. EnteringInv'
  BY <1>1, <1>2, <1>5, OneChanges DEF EnteringInv
<1>7. attempts'[a] = r /\ \A b \in Attempt \ {a} : attempts'[b] = attempts[b]
  BY <1>2 DEF EnteringInv
<1> QED
  BY <1>3, <1>6, <1>7

LEMMA OnEndKeeps ==
    ASSUME EnteringInv, NEW a \in Attempt, OnEnd(a)
    PROVE  /\ EnteringInv'
           /\ \A b \in Attempt : /\ attempts'[b].ws = attempts[b].ws
                                /\ attempts'[b].notifyInitialError = attempts[b].notifyInitialError
<1> DEFINE event == Head(attempts[a].events)
           answers == attempts[a].first /\ form.attempt = a
           toasts == ~attempts[a].closeNotified
                       /\ (attempts[a].connected \/ attempts[a].notifyInitialError)
           r == [attempts[a] EXCEPT !.events = Tail(@), !.first = FALSE,
                                    !.result = IF attempts[a].first THEN "failed" ELSE @,
                                    !.closeNotified = @ \/ toasts]
           m == told[a] + (IF toasts THEN 1 ELSE 0) + (IF answers THEN 1 ELSE 0)
<1>1. attempts' = [attempts EXCEPT ![a] = r]
  BY DEF OnEnd, Toasts
<1>2. told' = [told EXCEPT ![a] = m]
  BY DEF OnEnd, Toasts, EnteringInv
<1>3. form' = IF attempts[a].first THEN FormAfter(a, event) ELSE form
  BY DEF OnEnd
<1>4. /\ r.ws = attempts[a].ws /\ r.notifyInitialError = attempts[a].notifyInitialError
      /\ r.gone = attempts[a].gone /\ r.first = FALSE
      /\ r.result = IF attempts[a].first THEN "failed" ELSE attempts[a].result
  BY DEF EnteringInv, AttemptRecord
<1>5. attempts[a].events # <<>> /\ Head(attempts[a].events) # "room"
  BY DEF OnEnd
<1>6. attempts[a].ws # "none"
  BY <1>5 DEF EnteringInv, Good
<1>7. form.attempt = a => ~attempts[a].notifyInitialError
  BY NoneAssumption DEF EnteringInv, FormInv
<1>8. attempts[a].first /\ ~attempts[a].notifyInitialError /\ ~attempts[a].gone => answers
  BY <1>6 DEF EnteringInv, FormInv
<1>9. Good(attempts[a], told[a]) /\ toasts \in BOOLEAN /\ answers \in BOOLEAN
  BY DEF EnteringInv
<1>10. answers => attempts[a].first /\ ~attempts[a].notifyInitialError
  BY <1>7
<1>11. Good(r, m)
  <2> HIDE DEF answers
  <2> QED
    BY <1>5, <1>8, <1>9, <1>10, GoodEnd
<1> HIDE DEF r, m
<1>14. m \in {0, 1}
  BY <1>11 DEF Good
<1>15. told' \in [Attempt -> {0, 1}] /\ told'[a] = m /\ \A b \in Attempt \ {a} : told'[b] = told[b]
  BY <1>2, <1>14 DEF EnteringInv
<1>16. attempts'[a] = r /\ \A b \in Attempt \ {a} : attempts'[b] = attempts[b]
  BY <1>1 DEF EnteringInv
<1> SUFFICES FormInv' /\ DOMAIN form' = {"pendingAction", "attempt", "answer"}
  <2>1. ASSUME FormInv', DOMAIN form' = {"pendingAction", "attempt", "answer"}
        PROVE  EnteringInv'
    BY <1>1, <1>11, <1>15, <2>1, OneChanges
  <2> QED
    BY <1>4, <1>16, <2>1
<1> HIDE DEF toasts, event
<1>12. CASE answers
  <2>1. /\ form'.pendingAction = None /\ form'.attempt = None
        /\ DOMAIN form' = {"pendingAction", "attempt", "answer"}
    BY <1>3, <1>12 DEF FormAfter
  <2>3. \A b \in Attempt \ {a} : LET at == attempts[b] IN
            ~(at.ws # "none" /\ ~at.notifyInitialError /\ at.first /\ ~at.gone)
    BY <1>12 DEF EnteringInv, FormInv
  <2>4. FormInv'
    BY <1>4, <1>16, <2>1, <2>3 DEF FormInv
  <2> QED
    BY <2>1, <2>4
<1>13. CASE ~answers
  <2>1. form' = form
    BY <1>3, <1>13 DEF FormAfter
  <2>2. r.result = "failed" => form.attempt # a
    BY <1>4, <1>13, NoneAssumption DEF EnteringInv, FormInv
  <2>3. FormInv'
    BY <1>1, <1>4, <1>6, <2>1, <2>2, FormKept
  <2> QED
    BY <2>1, <2>3 DEF EnteringInv
<1> QED
  BY <1>12, <1>13

\* The form goes, and what it asked for is nobody's.
LEMMA FormGoesKeeps ==
    ASSUME EnteringInv, FormGoes, told' = told
    PROVE  EnteringInv'
<1>1. /\ DOMAIN form' = {"pendingAction", "attempt", "answer"}
      /\ form'.pendingAction = None /\ form'.attempt = None
  BY DEF FormGoes, NewForm
<1>2. \A a \in Attempt :
          attempts'[a] = [attempts[a] EXCEPT !.gone = @ \/ (form.attempt = a)]
  BY DEF FormGoes
<1>3. \A a \in Attempt : Good(attempts'[a], told'[a])
  <2> TAKE a \in Attempt
  <2>1. Good([attempts[a] EXCEPT !.gone = @ \/ (form.attempt = a)], told[a])
    BY GoodGone DEF EnteringInv
  <2> QED
    BY <1>2, <2>1
<1>4. attempts' \in [Attempt -> AttemptRecord]
  <2>1. \A a \in Attempt : attempts'[a] \in AttemptRecord
    BY <1>3 DEF Good
  <2> QED
    BY <2>1 DEF FormGoes
<1>5. \A a \in Attempt :
          /\ attempts'[a].ws = attempts[a].ws /\ attempts'[a].first = attempts[a].first
          /\ attempts'[a].notifyInitialError = attempts[a].notifyInitialError
          /\ attempts'[a].gone = (attempts[a].gone \/ form.attempt = a)
  <2> TAKE a \in Attempt
  <2>1. DOMAIN attempts[a] = {"ws", "kind", "notifyInitialError", "first", "connected",
                              "closeNotified", "gone", "result", "events"}
    BY DEF EnteringInv, AttemptRecord
  <2> QED
    BY <1>2, <2>1
<1>6. FormInv'
  BY <1>1, <1>5 DEF EnteringInv, FormInv
<1> QED
  BY <1>1, <1>3, <1>4, <1>6 DEF EnteringInv

\* The form's answer is no concern of its attempts.
LEMMA AnswerKeeps ==
    ASSUME EnteringInv, Invalid \/ NewRoom
    PROVE  EnteringInv'
<1>1. /\ DOMAIN form' = {"pendingAction", "attempt", "answer"}
      /\ form'.pendingAction = form.pendingAction /\ form'.attempt = form.attempt
      /\ UNCHANGED <<attempts, told>>
  BY DEF Invalid, NewRoom, EnteringInv
<1> QED
  BY <1>1 DEF EnteringInv, FormInv

LEMMA EnteringUnchanged ==
    ASSUME EnteringInv, UNCHANGED entering
    PROVE  EnteringInv'
BY DEF EnteringInv, FormInv, entering

-----------------------------------------------------------------------------
\* The login

CallRecord == [kind : {None, "refetch", "login", "logout"},
               at : {"none", "posting", "fetching"}, loggedIn : BOOLEAN]

LoginTypes ==
    /\ authMode \in {"all", "turn", "none"} /\ cookie \in BOOLEAN /\ disturbed \in BOOLEAN
    /\ config \in [loading : BOOLEAN, loggedIn : BOOLEAN]
    /\ calls \in [Call -> CallRecord]
    /\ \A c \in UnderWay : calls[c].at # "none"

\* What is under way, while nothing disturbs it, tells the page in the end.
ConfigInv ==
    ~disturbed =>
        /\ \A c, d \in UnderWay : c = d
        /\ \A c \in UnderWay :
               /\ calls[c].at = "posting" => ~config.loading /\ config.loggedIn = cookie
               /\ calls[c].at = "fetching" => calls[c].loggedIn = cookie
        /\ UnderWay = {} => ~config.loading /\ config.loggedIn = cookie

LEMMA InitLogin == Init => LoginTypes /\ ConfigInv
<1> SUFFICES ASSUME Init PROVE LoginTypes /\ ConfigInv
  OBVIOUS
<1>1. PICK c \in Call :
        calls = [[d \in Call |-> NoCall] EXCEPT
                    ![c] = [kind |-> "refetch", at |-> "fetching", loggedIn |-> cookie]]
  BY DEF Init
<1>2. /\ calls[c] = [kind |-> "refetch", at |-> "fetching", loggedIn |-> cookie]
      /\ \A d \in Call \ {c} : calls[d] = NoCall
  BY <1>1
<1>3. [kind |-> "refetch", at |-> "fetching", loggedIn |-> cookie] # NoCall
  <2>1. NoCall.at = "none" /\ [kind |-> "refetch", at |-> "fetching", loggedIn |-> cookie].at # "none"
    BY DEF NoCall
  <2> QED
    BY <2>1
<1>4. UnderWay = {c}
  BY <1>2, <1>3 DEF UnderWay
<1>5. calls \in [Call -> CallRecord]
  BY <1>1 DEF Init, NoCall, CallRecord
<1>6. LoginTypes
  <2>1. /\ authMode \in {"all", "turn", "none"} /\ cookie \in BOOLEAN /\ disturbed \in BOOLEAN
        /\ config \in [loading : BOOLEAN, loggedIn : BOOLEAN]
    BY DEF Init
  <2>2. calls[c].at = "fetching"
    BY <1>2
  <2> QED
    BY <1>4, <1>5, <2>1, <2>2 DEF LoginTypes
<1>7. ConfigInv
  BY <1>2, <1>4 DEF ConfigInv
<1> QED
  BY <1>6, <1>7

\* One call goes on, or begins, or ends.
LEMMA CallSteps ==
    ASSUME LoginTypes, ConfigInv, NEW c \in Call,
           Login(c) \/ Logout(c) \/ Accepted(c) \/ Fails(c) \/ Fetched(c)
    PROVE  LoginTypes' /\ ConfigInv'
<1>1. NoCall \in CallRecord /\ NoCall.at = "none"
  BY DEF NoCall, CallRecord
<1>2. CASE Login(c) \/ Logout(c)
  <2>1. PICK kind \in {"login", "logout"} : Posts(c, kind)
    BY <1>2 DEF Login, Logout
  <2> DEFINE r == [NoCall EXCEPT !.kind = kind, !.at = "posting"]
  <2>2. r \in CallRecord /\ r.at = "posting" /\ r # NoCall
    BY <1>1 DEF NoCall, CallRecord
  <2>3. /\ calls' = [calls EXCEPT ![c] = r] /\ c \notin UnderWay
        /\ disturbed' = (disturbed \/ UnderWay # {})
        /\ UNCHANGED <<authMode, cookie, config>>
    BY <2>1 DEF Posts
  <2> HIDE DEF r
  <2>4. /\ calls' \in [Call -> CallRecord] /\ calls'[c] = r
        /\ \A d \in Call \ {c} : calls'[d] = calls[d]
    BY <2>2, <2>3 DEF LoginTypes
  <2>5. UnderWay' = UnderWay \cup {c}
    BY <2>2, <2>4 DEF UnderWay
  <2>6. LoginTypes'
    BY <2>2, <2>3, <2>4, <2>5 DEF LoginTypes, UnderWay
  <2>7. ConfigInv'
    <3> SUFFICES ASSUME ~disturbed' PROVE ConfigInv'
      BY DEF ConfigInv
    <3>1. ~disturbed /\ UnderWay = {}
      BY <2>3 DEF LoginTypes
    <3>2. ~config.loading /\ config.loggedIn = cookie
      BY <3>1 DEF ConfigInv
    <3> QED
      BY <2>2, <2>3, <2>4, <2>5, <3>1, <3>2 DEF ConfigInv
  <2> QED
    BY <2>6, <2>7
<1>3. CASE Accepted(c)
  <2>1. /\ calls[c].at = "posting" /\ cookie' = (calls[c].kind = "login")
        /\ calls' = [calls EXCEPT ![c].at = "fetching", ![c].loggedIn = (calls[c].kind = "login")]
        /\ UNCHANGED <<authMode, config, disturbed>>
    BY <1>3 DEF Accepted, Fetches
  <2>2. c \in UnderWay
    BY <1>1, <2>1 DEF UnderWay
  <2>3. /\ calls' \in [Call -> CallRecord]
        /\ calls'[c].at = "fetching" /\ calls'[c].loggedIn = cookie'
        /\ \A d \in Call \ {c} : calls'[d] = calls[d]
    BY <2>1 DEF LoginTypes, CallRecord
  <2>4. UnderWay' = UnderWay
    BY <1>1, <2>2, <2>3 DEF UnderWay
  <2>5. LoginTypes'
    BY <2>1, <2>3, <2>4 DEF LoginTypes, UnderWay
  <2>6. ConfigInv'
    BY <2>1, <2>2, <2>3, <2>4 DEF ConfigInv, UnderWay
  <2> QED
    BY <2>5, <2>6
<1>4. CASE Fails(c) \/ Fetched(c)
  <2>1. /\ calls' = [calls EXCEPT ![c] = NoCall] /\ UNCHANGED <<authMode, cookie>>
        /\ c \in UnderWay
    BY <1>1, <1>4 DEF Fails, Fetched, UnderWay
  <2>2. /\ calls' \in [Call -> CallRecord]
        /\ calls'[c] = NoCall /\ \A d \in Call \ {c} : calls'[d] = calls[d]
    BY <1>1, <2>1 DEF LoginTypes
  <2>3. UnderWay' = UnderWay \ {c}
    BY <2>2 DEF UnderWay
  <2>4. CASE Fails(c)
    <3>1. disturbed' = (disturbed \/ calls[c].at = "fetching") /\ config' = config
      BY <2>4 DEF Fails
    <3>2. LoginTypes'
      BY <2>1, <2>2, <2>3, <3>1 DEF LoginTypes, UnderWay
    <3>3. ConfigInv'
      <4> SUFFICES ASSUME ~disturbed' PROVE ConfigInv'
        BY DEF ConfigInv
      <4>1. ~disturbed /\ calls[c].at = "posting"
        BY <2>1, <3>1 DEF LoginTypes, CallRecord, UnderWay
      <4>2. UnderWay' = {} /\ ~config.loading /\ config.loggedIn = cookie
        BY <2>1, <2>3, <4>1 DEF ConfigInv
      <4> QED
        BY <2>1, <3>1, <4>2 DEF ConfigInv
    <3> QED
      BY <3>2, <3>3
  <2>5. CASE Fetched(c)
    <3>1. /\ calls[c].at = "fetching" /\ disturbed' = disturbed
          /\ config' = [loading |-> FALSE, loggedIn |-> calls[c].loggedIn]
      BY <2>5 DEF Fetched
    <3>2. LoginTypes'
      BY <2>1, <2>2, <2>3, <3>1 DEF LoginTypes, UnderWay, CallRecord
    <3>3. ConfigInv'
      <4> SUFFICES ASSUME ~disturbed PROVE ConfigInv'
        BY <3>1 DEF ConfigInv
      <4>1. UnderWay' = {} /\ calls[c].loggedIn = cookie
        BY <2>1, <2>3, <3>1 DEF ConfigInv
      <4>2. ~config'.loading /\ config'.loggedIn = cookie'
        BY <2>1, <3>1, <4>1
      <4> QED
        BY <4>1, <4>2 DEF ConfigInv
    <3> QED
      BY <3>2, <3>3
  <2> QED
    BY <1>4, <2>4, <2>5
<1> QED
  BY <1>2, <1>3, <1>4

LEMMA LoginUnchanged ==
    ASSUME LoginTypes, ConfigInv, UNCHANGED <<authMode, cookie, config, calls, disturbed>>
    PROVE  LoginTypes' /\ ConfigInv'
BY DEF LoginTypes, ConfigInv, UnderWay

LEMMA NextLogin == LoginTypes /\ ConfigInv /\ [Next]_vars => LoginTypes' /\ ConfigInv'
<1> SUFFICES ASSUME LoginTypes, ConfigInv, [Next]_vars PROVE LoginTypes' /\ ConfigInv'
  OBVIOUS
<1>1. CASE Elsewhere
  BY <1>1 DEF Elsewhere, LoginTypes, ConfigInv, UnderWay
<1>2. CASE \E c \in Call : Login(c) \/ Logout(c) \/ Accepted(c) \/ Fails(c) \/ Fetched(c)
  BY <1>2, CallSteps
<1>3. CASE \/ ShowLogin \/ HideLogin \/ Renders \/ Retypes \/ Leaves \/ UNCHANGED vars
           \/ \E a \in Attempt :
               \/ EntersFromURL(a) \/ Presses(a)
               \/ OpensAs(a) \/ Accepts(a) \/ Refuses(a) \/ IsLost(a) \/ Handles(a)
  BY <1>3, LoginUnchanged DEF ShowLogin, HideLogin, Renders, Retypes, Leaves, EntersFromURL,
     Presses, Asks, OpensAs, Accepts, Refuses, IsLost, Answered, Handles, vars, login
<1> QED
  BY <1>1, <1>2, <1>3 DEF Next

\* A page to itself that does one thing after another and loses nothing knows whether it
\* is logged in, whatever order logins, logouts, rooms and forms come in.
THEOREM TheConfigIsCurrent == Spec => []ConfigIsCurrent
<1>1. LoginTypes /\ ConfigInv => ConfigIsCurrent
  BY DEF ConfigInv, ConfigIsCurrent
<1> QED
  BY <1>1, InitLogin, NextLogin, PTL DEF Spec

-----------------------------------------------------------------------------
\* The whole page

\* An attempt of the form under way was asked for by a page that may.
Offered(a) ==
    attempts[a].ws \in {"connecting", "open"} /\ ~attempts[a].notifyInitialError =>
        asked[a].loggedIn = TRUE \/ authMode # "all"

LandingInv ==
    /\ EnteringInv /\ LoginTypes /\ ConfigInv
    /\ state \in Attempt \cup {None} /\ shown \in Attempt \cup {None}
    /\ asked \in [Attempt -> [loggedIn : BOOLEAN, Authenticated : BOOLEAN]]
    /\ \A a \in Attempt : Offered(a)

LEMMA InitLanding == Init => LandingInv
<1> SUFFICES ASSUME Init PROVE LandingInv
  OBVIOUS
<1>1. EnteringInv /\ LoginTypes /\ ConfigInv
  BY InitLogin, InitEntering DEF Init
<1>2. state = None /\ shown = None /\ asked = [a \in Attempt |-> Nobody]
  BY DEF Init, EnteringInit
<1>3. asked \in [Attempt -> [loggedIn : BOOLEAN, Authenticated : BOOLEAN]]
  BY <1>2 DEF Nobody
<1>4. \A a \in Attempt : Offered(a)
  <2>1. \A a \in Attempt : attempts[a].ws = "none"
    BY DEF Init, EnteringInit, Unused
  <2> QED
    BY <2>1 DEF Offered
<1> QED
  BY <1>1, <1>2, <1>3, <1>4 DEF LandingInv

\* Steps that begin no attempt and answer none.
LEMMA OfferedKept ==
    ASSUME LandingInv, asked' = asked, authMode' = authMode,
           \A a \in Attempt : /\ attempts'[a].ws = attempts[a].ws
                             /\ attempts'[a].notifyInitialError = attempts[a].notifyInitialError
    PROVE  \A a \in Attempt : Offered(a)'
BY DEF LandingInv, Offered

LEMMA FormGoesOffered ==
    ASSUME LandingInv, FormGoes, asked' = asked, authMode' = authMode
    PROVE  \A a \in Attempt : Offered(a)'
<1>1. \A a \in Attempt :
          attempts'[a] = [attempts[a] EXCEPT !.gone = @ \/ (form.attempt = a)]
  BY DEF FormGoes
<1>2. \A a \in Attempt : /\ attempts'[a].ws = attempts[a].ws
                         /\ attempts'[a].notifyInitialError = attempts[a].notifyInitialError
  <2> TAKE a \in Attempt
  <2>1. DOMAIN attempts[a] = {"ws", "kind", "notifyInitialError", "first", "connected",
                              "closeNotified", "gone", "result", "events"}
    BY DEF LandingInv, EnteringInv, AttemptRecord
  <2> QED
    BY <1>1, <2>1
<1> QED
  BY <1>2, OfferedKept

\* What is shown changes, with the login or not.
LEMMA ViewSteps ==
    ASSUME LandingInv,
           \/ ShowLogin \/ HideLogin \/ Renders \/ Elsewhere
           \/ \E c \in Call : Login(c) \/ Logout(c) \/ Accepted(c) \/ Fails(c) \/ Fetched(c)
    PROVE  /\ EnteringInv' /\ \A a \in Attempt : Offered(a)'
           /\ state' \in Attempt \cup {None} /\ shown' \in Attempt \cup {None}
           /\ asked' \in [Attempt -> [loggedIn : BOOLEAN, Authenticated : BOOLEAN]]
<1>1. asked' = asked /\ authMode' = authMode
  BY DEF ShowLogin, HideLogin, Renders, Elsewhere, Login, Logout, Posts, Accepted, Fails, Fetched
<1>2. \/ UNCHANGED entering
      \/ FormGoes /\ told' = told /\ state' = state /\ shown' \in {shown, state}
  BY DEF ShowLogin, HideLogin, Renders, Render, Elsewhere, Login, Logout, Posts, Accepted,
     Fails, Fetched, Shows
<1>3. CASE UNCHANGED entering
  BY <1>1, <1>3, EnteringUnchanged, OfferedKept DEF LandingInv, entering
<1>4. CASE FormGoes /\ told' = told /\ state' = state /\ shown' \in {shown, state}
  BY <1>1, <1>4, FormGoesKeeps, FormGoesOffered DEF LandingInv
<1> QED
  BY <1>2, <1>3, <1>4

\* An attempt begins: the form is there only for those it may serve.
LEMMA AskingSteps ==
    ASSUME LandingInv, NEW a \in Attempt, EntersFromURL(a) \/ Presses(a)
    PROVE  /\ EnteringInv' /\ \A b \in Attempt : Offered(b)'
           /\ state' \in Attempt \cup {None} /\ shown' \in Attempt \cup {None}
           /\ asked' \in [Attempt -> [loggedIn : BOOLEAN, Authenticated : BOOLEAN]]
<1>1. /\ asked' = [asked EXCEPT ![a].loggedIn = config.loggedIn]
      /\ authMode' = authMode /\ UNCHANGED <<state, shown, told>>
  BY DEF EntersFromURL, EnterFromURL, Presses, Press, Asks, login
<1>2. PICK kind \in Kind, notifies \in BOOLEAN :
          /\ Room(a, kind, notifies)
          /\ \/ notifies /\ form' = form
             \/ /\ ~notifies /\ form.pendingAction = None
                /\ form' = [pendingAction |-> kind, attempt |-> a, answer |-> None]
          /\ ~notifies => ShowsForm
  BY DEF EntersFromURL, EnterFromURL, Presses, Press, FormIsIdle
<1>3. EnteringInv'
  BY <1>1, <1>2, RoomKeeps DEF LandingInv
<1>4. /\ asked' \in [Attempt -> [loggedIn : BOOLEAN, Authenticated : BOOLEAN]]
      /\ asked'[a].loggedIn = config.loggedIn
      /\ \A b \in Attempt \ {a} : asked'[b] = asked[b]
  BY <1>1 DEF LandingInv, LoginTypes
<1>5. /\ attempts'[a].notifyInitialError = notifies
      /\ \A b \in Attempt \ {a} : attempts'[b] = attempts[b]
  BY <1>2 DEF Room, LandingInv, EnteringInv, Unused
<1>6. ~notifies => config.loggedIn = TRUE \/ authMode # "all"
  BY <1>2 DEF ShowsForm, LoginVisible, LandingInv, LoginTypes
<1>7. \A b \in Attempt : Offered(b)'
  BY <1>1, <1>4, <1>5, <1>6 DEF Offered, LandingInv
<1> QED
  BY <1>1, <1>3, <1>4, <1>7 DEF LandingInv

\* A websocket reports, and the page hears of it.
LEMMA AttemptSteps ==
    ASSUME LandingInv, NEW a \in Attempt,
           OpensAs(a) \/ Accepts(a) \/ Refuses(a) \/ IsLost(a) \/ Handles(a)
    PROVE  /\ EnteringInv' /\ \A b \in Attempt : Offered(b)'
           /\ state' \in Attempt \cup {None} /\ shown' \in Attempt \cup {None}
           /\ asked' \in [Attempt -> [loggedIn : BOOLEAN, Authenticated : BOOLEAN]]
<1>1. authMode' = authMode /\ shown' = shown /\ state' \in {state, a, None}
  BY DEF OpensAs, Opens, Accepts, Enters, Refuses, Closes, IsLost, Breaks, Comes, Handles,
     OnRoom, OnEnd, StateAfter, Answered, login
<1>2. EnteringInv'
  BY WebsocketKeeps, OnRoomKeeps, OnEndKeeps
     DEF OpensAs, Accepts, Refuses, IsLost, Handles, LandingInv
<1>3. CASE OpensAs(a)
  <2>1. /\ asked' = [asked EXCEPT ![a].Authenticated = cookie]
        /\ attempts' = [attempts EXCEPT ![a].ws = "open", ![a].events = @ \o <<>>]
        /\ attempts[a].ws = "connecting"
    BY <1>3 DEF OpensAs, Opens, Comes
  <2>2. /\ asked' \in [Attempt -> [loggedIn : BOOLEAN, Authenticated : BOOLEAN]]
        /\ \A b \in Attempt : asked'[b].loggedIn = asked[b].loggedIn
    BY <2>1 DEF LandingInv, LoginTypes
  <2>3. /\ attempts'[a].notifyInitialError = attempts[a].notifyInitialError
        /\ \A b \in Attempt \ {a} : attempts'[b] = attempts[b]
    BY <2>1 DEF LandingInv, EnteringInv, AttemptRecord
  <2>4. \A b \in Attempt : Offered(b)'
    BY <1>1, <2>1, <2>2, <2>3 DEF LandingInv, Offered
  <2> QED
    BY <1>1, <1>2, <2>2, <2>4 DEF LandingInv
<1>4. CASE Accepts(a) \/ Refuses(a) \/ IsLost(a)
  <2>1. /\ asked' = [asked EXCEPT ![a] = Nobody]
        /\ \E ws \in {"entered", "over"} : \E events :
               attempts' = [attempts EXCEPT ![a].ws = ws, ![a].events = @ \o events]
    BY <1>4 DEF Accepts, Enters, Refuses, Closes, IsLost, Breaks, Comes, Answered
  <2>2. /\ asked' \in [Attempt -> [loggedIn : BOOLEAN, Authenticated : BOOLEAN]]
        /\ \A b \in Attempt \ {a} : asked'[b] = asked[b]
    BY <2>1 DEF LandingInv, Nobody
  <2>3. /\ attempts'[a].ws \in {"entered", "over"}
        /\ \A b \in Attempt \ {a} : attempts'[b] = attempts[b]
    BY <2>1 DEF LandingInv, EnteringInv, AttemptRecord
  <2>4. \A b \in Attempt : Offered(b)'
    BY <1>1, <2>2, <2>3 DEF LandingInv, Offered
  <2> QED
    BY <1>1, <1>2, <2>2, <2>4 DEF LandingInv
<1>5. CASE Handles(a)
  <2>1. asked' = asked
    BY <1>5 DEF Handles
  <2>3. \A b \in Attempt : /\ attempts'[b].ws = attempts[b].ws
                           /\ attempts'[b].notifyInitialError = attempts[b].notifyInitialError
    BY <1>5, OnRoomKeeps, OnEndKeeps DEF Handles, LandingInv
  <2>4. \A b \in Attempt : Offered(b)'
    BY <1>1, <2>1, <2>3, OfferedKept
  <2> QED
    BY <1>1, <1>2, <2>1, <2>4 DEF LandingInv
<1> QED
  BY <1>3, <1>4, <1>5

LEMMA OtherSteps ==
    ASSUME LandingInv, Retypes \/ Leaves \/ UNCHANGED vars
    PROVE  /\ EnteringInv' /\ \A b \in Attempt : Offered(b)'
           /\ state' \in Attempt \cup {None} /\ shown' \in Attempt \cup {None}
           /\ asked' \in [Attempt -> [loggedIn : BOOLEAN, Authenticated : BOOLEAN]]
<1>1. asked' = asked /\ authMode' = authMode /\ UNCHANGED <<state, shown>>
  BY DEF Retypes, Invalid, NewRoom, Leaves, LeaveRoom, Comes, vars, login, entering
<1>2. CASE Retypes
  <2>1. EnteringInv' /\ attempts' = attempts
    BY <1>2, AnswerKeeps DEF Retypes, Invalid, NewRoom, LandingInv
  <2> QED
    BY <1>1, <2>1, OfferedKept DEF LandingInv
<1>3. CASE Leaves
  <2>1. shown \in Attempt /\ LeaveRoom
    BY <1>3 DEF Leaves, LeaveRoom, LandingInv
  <2>2. EnteringInv'
    BY <2>1, LeaveRoomKeeps DEF LandingInv
  <2>3. /\ attempts'[shown].ws = "over"
        /\ \A b \in Attempt \ {shown} : attempts'[b] = attempts[b]
    BY <2>1 DEF LeaveRoom, Comes, LandingInv, EnteringInv, AttemptRecord
  <2>4. \A b \in Attempt : Offered(b)'
    BY <1>1, <2>3 DEF LandingInv, Offered
  <2> QED
    BY <1>1, <2>2, <2>4 DEF LandingInv
<1>4. CASE UNCHANGED vars
  BY <1>1, <1>4, EnteringUnchanged, OfferedKept DEF vars, entering, LandingInv
<1> QED
  BY <1>2, <1>3, <1>4

LEMMA NextLanding == LandingInv /\ [Next]_vars => LandingInv'
<1> SUFFICES ASSUME LandingInv, [Next]_vars PROVE LandingInv'
  OBVIOUS
<1>1. LoginTypes' /\ ConfigInv'
  BY NextLogin DEF LandingInv
<1>2. /\ EnteringInv' /\ \A b \in Attempt : Offered(b)'
      /\ state' \in Attempt \cup {None} /\ shown' \in Attempt \cup {None}
      /\ asked' \in [Attempt -> [loggedIn : BOOLEAN, Authenticated : BOOLEAN]]
  BY ViewSteps, AskingSteps, AttemptSteps, OtherSteps DEF Next
<1> QED
  BY <1>1, <1>2 DEF LandingInv

LEMMA LandingInvAlways == Spec => []LandingInv
BY InitLanding, NextLanding, PTL DEF Spec

\* Whatever becomes of an attempt, in whatever company, its end is told once, unless the
\* form that asked has gone.
THEOREM EndsAreToldOnce == Spec => []ToldOnce
<1>1. LandingInv => ToldOnce
  <2> SUFFICES ASSUME LandingInv, NEW a \in Attempt
               PROVE  /\ told[a] <= 1
                      /\ attempts[a].ws = "over" /\ attempts[a].events = <<>> /\ ~attempts[a].gone =>
                             told[a] = 1
    BY DEF ToldOnce
  <2>1. Good(attempts[a], told[a])
    BY DEF LandingInv, EnteringInv
  <2> QED
    BY <2>1 DEF Good
<1> QED
  BY <1>1, LandingInvAlways, PTL

\* No form waits for an attempt that failed, or for none.
THEOREM FormsGetTheirAnswers == Spec => []FormWaitsForAnAnswer
<1>1. LandingInv => FormWaitsForAnAnswer
  <2> SUFFICES ASSUME LandingInv, form.pendingAction # None PROVE FormWaitsForAnAnswer
    BY DEF FormWaitsForAnAnswer
  <2> DEFINE a == form.attempt
  <2>1. /\ a \in Attempt /\ ~attempts[a].gone /\ attempts[a].ws # "none"
        /\ attempts[a].result # "failed"
    BY DEF LandingInv, EnteringInv, FormInv
  <2>2. Good(attempts[a], told[a])
    BY <2>1 DEF LandingInv, EnteringInv
  <2>3. attempts[a].result = "ok" \/ (attempts[a].ws = "over" => attempts[a].events # <<>>)
    BY <2>1, <2>2 DEF Good, AttemptRecord
  <2> QED
    BY <2>1, <2>3 DEF FormWaitsForAnAnswer
<1> QED
  BY <1>1, LandingInvAlways, PTL

\* What the form offers the server accepts, under every authentication mode, unless the
\* cookie is not what the page was told.
THEOREM OffersAreAccepted == Spec => []ModeIsAccepted
<1>1. LandingInv => ModeIsAccepted
  <2> SUFFICES ASSUME LandingInv, NEW a \in Attempt,
                      attempts[a].ws = "open", ~attempts[a].notifyInitialError,
                      asked[a].loggedIn = asked[a].Authenticated
               PROVE  Authorized(a)
    BY DEF ModeIsAccepted
  <2>1. asked[a].loggedIn = TRUE \/ authMode # "all"
    BY DEF LandingInv, Offered
  <2>2. asked[a].loggedIn \in BOOLEAN /\ authMode \in {"all", "turn", "none"}
    BY DEF LandingInv, LoginTypes
  <2> QED
    BY <2>1, <2>2 DEF Authorized, authModeToRoomMode
<1> QED
  BY <1>1, LandingInvAlways, PTL
=============================================================================
