----------------------------- MODULE PagesProofs -----------------------------
(***************************************************************************)
(* Proofs about any number of pages and their conversation with the loop.  *)
(* First what the queues between them hold; then what one message does to  *)
(* the sessions and to those who hear of it, read off the handlers of      *)
(* Rooms.tla; then the inductive invariant, which follows a session from   *)
(* its announcement over offer and answer to its end.                      *)
(***************************************************************************)
EXTENDS Pages, RoomsProofs, SequenceTheorems

-----------------------------------------------------------------------------
\* Queues

Once(q, m) == \A i, j \in DOMAIN q : q[i] = m /\ q[j] = m => i = j
Final(q, m) == \A i \in DOMAIN q : q[i] = m => i = Len(q)

\* No m is behind an n; every m is; an n is ahead of every m.
Free(q, m, n) == \A i \in DOMAIN q : q[i] = m => \A j \in 1..(i - 1) : q[j] # n
Led(q, m, n) == \A i \in DOMAIN q : q[i] = m => \E j \in 1..(i - 1) : q[j] = n
Shields(q, n, m) == \E i \in DOMAIN q : q[i] = n /\ \A j \in 1..(i - 1) : q[j] # m

\* Nothing is in an empty queue.
LEMMA EmptyQueue ==
    \A m, n : /\ ~Holds(<<>>, m) /\ Once(<<>>, m) /\ Final(<<>>, m)
              /\ Free(<<>>, m, n) /\ Led(<<>>, m, n)
BY DEF Holds, Once, Final, Free, Led

\* One message is in a queue of one.
LEMMA SingleQueue ==
    ASSUME NEW a
    PROVE  /\ \A m : Holds(<<a>>, m) <=> m = a
           /\ \A m : Once(<<a>>, m) /\ Final(<<a>>, m)
           /\ \A m, n : Free(<<a>>, m, n)
BY DEF Holds, Once, Final, Free

\* Taking the first message of a queue.
LEMMA TailQueue ==
    ASSUME NEW S, NEW q \in Seq(S), q # <<>>
    PROVE  /\ Head(q) \in S /\ Tail(q) \in Seq(S) /\ Holds(q, Head(q))
           /\ \A m : Holds(Tail(q), m) => Holds(q, m)
           /\ \A m : Holds(q, m) => m = Head(q) \/ Holds(Tail(q), m)
           /\ \A m : Once(q, m) => Once(Tail(q), m) /\ (m = Head(q) => ~Holds(Tail(q), m))
           /\ \A m : Final(q, m) => Final(Tail(q), m) /\ (m = Head(q) => Tail(q) = <<>>)
<1> DEFINE t == Tail(q)
<1>1. /\ Head(q) \in S /\ t \in Seq(S) /\ Len(q) \in Nat \ {0} /\ Len(t) = Len(q) - 1
      /\ DOMAIN q = 1..Len(q) /\ DOMAIN t = 1..(Len(q) - 1)
      /\ Head(q) = q[1] /\ \A i \in DOMAIN t : t[i] = q[i + 1]
  OBVIOUS
<1> HIDE DEF t
<1>2. Holds(q, Head(q))
  BY <1>1 DEF Holds
<1>3. ASSUME NEW m PROVE Holds(t, m) => Holds(q, m)
  BY <1>1 DEF Holds
<1>4. ASSUME NEW m, Holds(q, m) PROVE m = Head(q) \/ Holds(t, m)
  <2>1. PICK i \in 1..Len(q) : q[i] = m
    BY <1>1, <1>4 DEF Holds
  <2>2. CASE i = 1
    BY <1>1, <2>1, <2>2
  <2>3. CASE i # 1
    <3>1. i - 1 \in DOMAIN t /\ t[i - 1] = m
      BY <1>1, <2>1, <2>3
    <3> QED BY <3>1 DEF Holds
  <2> QED BY <2>2, <2>3
<1>5. ASSUME NEW m, Once(q, m) PROVE Once(t, m) /\ (m = Head(q) => ~Holds(t, m))
  <2>1. \A i \in DOMAIN t : i + 1 \in DOMAIN q /\ 1 \in DOMAIN q /\ i + 1 # 1
    BY <1>1
  <2>2. Once(t, m)
    BY <1>1, <1>5, <2>1 DEF Once
  <2>3. m = Head(q) => ~Holds(t, m)
    BY <1>1, <1>5, <2>1 DEF Once, Holds
  <2> QED BY <2>2, <2>3
<1>6. ASSUME NEW m, Final(q, m) PROVE Final(t, m) /\ (m = Head(q) => t = <<>>)
  <2>1. Final(t, m)
    BY <1>1, <1>6 DEF Final
  <2>2. ASSUME m = Head(q) PROVE t = <<>>
    <3>1. Len(t) = 0
      BY <1>1, <1>6, <2>2 DEF Final
    <3> QED BY <1>1, <3>1
  <2> QED BY <2>1, <2>2
<1> QED BY <1>1, <1>2, <1>3, <1>4, <1>5, <1>6 DEF t

\* The same of the order of two messages.
LEMMA TailOrder ==
    ASSUME NEW S, NEW q \in Seq(S), q # <<>>, NEW m, NEW n
    PROVE  /\ Free(q, m, n) => Free(Tail(q), m, n)
           /\ Free(q, m, n) /\ n = Head(q) /\ m # n => ~Holds(q, m)
           /\ Led(q, m, n) => Head(q) # m /\ (n = Head(q) \/ Led(Tail(q), m, n))
           /\ Shields(q, n, m) /\ n # Head(q) => Shields(Tail(q), n, m) /\ Head(q) # m
<1> DEFINE t == Tail(q)
<1>1. /\ Head(q) \in S /\ t \in Seq(S) /\ Len(q) \in Nat \ {0} /\ Len(t) = Len(q) - 1
      /\ DOMAIN q = 1..Len(q) /\ DOMAIN t = 1..(Len(q) - 1)
      /\ Head(q) = q[1] /\ \A i \in DOMAIN t : t[i] = q[i + 1]
  OBVIOUS
<1> HIDE DEF t
<1>2. ASSUME Free(q, m, n) PROVE Free(t, m, n)
  <2> SUFFICES ASSUME NEW i \in DOMAIN t, t[i] = m, NEW j \in 1..(i - 1) PROVE t[j] # n
    BY DEF Free
  <2>1. i + 1 \in DOMAIN q /\ q[i + 1] = m /\ j + 1 \in 1..((i + 1) - 1) /\ j \in DOMAIN t
    BY <1>1
  <2> QED BY <1>1, <1>2, <2>1 DEF Free
<1>3. ASSUME Free(q, m, n), n = Head(q), m # n PROVE ~Holds(q, m)
  <2> SUFFICES ASSUME NEW i \in DOMAIN q, q[i] = m PROVE FALSE
    BY DEF Holds
  <2>1. 1 \in 1..(i - 1)
    BY <1>1, <1>3
  <2> QED BY <1>1, <1>3, <2>1 DEF Free
<1>4. ASSUME Led(q, m, n) PROVE Head(q) # m
  BY <1>1, <1>4 DEF Led
<1>5. ASSUME Led(q, m, n), n # Head(q) PROVE Led(t, m, n)
  <2> SUFFICES ASSUME NEW i \in DOMAIN t, t[i] = m PROVE \E j \in 1..(i - 1) : t[j] = n
    BY DEF Led
  <2>1. i + 1 \in DOMAIN q /\ q[i + 1] = m
    BY <1>1
  <2>2. PICK j \in 1..((i + 1) - 1) : q[j] = n
    BY <1>5, <2>1 DEF Led
  <2>3. j # 1
    BY <1>1, <1>5, <2>2
  <2>4. j - 1 \in 1..(i - 1) /\ j - 1 \in DOMAIN t /\ (j - 1) + 1 = j
    BY <1>1, <2>2, <2>3
  <2>5. t[j - 1] = n
    BY <1>1, <2>2, <2>4
  <2> QED BY <2>4, <2>5
<1>6. ASSUME Shields(q, n, m), n # Head(q) PROVE Shields(t, n, m) /\ Head(q) # m
  <2>1. PICK i \in DOMAIN q : q[i] = n /\ \A j \in 1..(i - 1) : q[j] # m
    BY <1>6 DEF Shields
  <2>2. i # 1
    BY <1>1, <1>6, <2>1
  <2>3. i - 1 \in DOMAIN t /\ t[i - 1] = n /\ 1 \in 1..(i - 1)
    BY <1>1, <2>1, <2>2
  <2>4. \A j \in 1..((i - 1) - 1) : j + 1 \in 1..(i - 1) /\ j \in DOMAIN t
    BY <1>1, <2>1, <2>2
  <2> QED BY <1>1, <2>1, <2>3, <2>4 DEF Shields
<1> QED BY <1>2, <1>3, <1>4, <1>5, <1>6 DEF t

\* Putting messages behind a queue.
LEMMA JoinedQueue ==
    ASSUME NEW S, NEW q \in Seq(S), NEW r \in Seq(S)
    PROVE  /\ q \o r \in Seq(S)
           /\ \A m : Holds(q \o r, m) <=> Holds(q, m) \/ Holds(r, m)
           /\ \A m : Once(q, m) /\ Once(r, m) /\ ~(Holds(q, m) /\ Holds(r, m)) => Once(q \o r, m)
           /\ \A m : Final(r, m) /\ ~Holds(q, m) => Final(q \o r, m)
           /\ q # <<>> => q \o r # <<>> /\ Head(q \o r) = Head(q)
           /\ q = <<>> => q \o r = r
           /\ r = <<>> => q \o r = q
<1> DEFINE t == q \o r
<1>1. /\ t \in Seq(S) /\ Len(q) \in Nat /\ Len(r) \in Nat /\ Len(t) = Len(q) + Len(r)
      /\ DOMAIN q = 1..Len(q) /\ DOMAIN r = 1..Len(r) /\ DOMAIN t = 1..(Len(q) + Len(r))
      /\ \A i \in DOMAIN t : t[i] = IF i <= Len(q) THEN q[i] ELSE r[i - Len(q)]
  OBVIOUS
<1>2. q # <<>> => t # <<>> /\ Head(t) = Head(q)
  OBVIOUS
<1>3. (q = <<>> => t = r) /\ (r = <<>> => t = q)
  OBVIOUS
<1> HIDE DEF t
<1>4. /\ \A i \in DOMAIN q : i \in DOMAIN t /\ t[i] = q[i]
      /\ \A i \in DOMAIN r : Len(q) + i \in DOMAIN t /\ t[Len(q) + i] = r[i]
      /\ \A i \in DOMAIN t : i \in DOMAIN q \/ \E j \in DOMAIN r : i = Len(q) + j
  <2>1. \A i \in DOMAIN q : i \in DOMAIN t /\ t[i] = q[i]
    BY <1>1
  <2>2. \A i \in DOMAIN r : Len(q) + i \in DOMAIN t /\ t[Len(q) + i] = r[i]
    <3> SUFFICES ASSUME NEW i \in DOMAIN r
                 PROVE  Len(q) + i \in DOMAIN t /\ t[Len(q) + i] = r[i]
      OBVIOUS
    <3>1. Len(q) + i \in DOMAIN t /\ ~(Len(q) + i <= Len(q)) /\ (Len(q) + i) - Len(q) = i
      BY <1>1
    <3> QED BY <1>1, <3>1
  <2>3. ASSUME NEW i \in DOMAIN t, i \notin DOMAIN q PROVE \E j \in DOMAIN r : i = Len(q) + j
    <3>1. i - Len(q) \in DOMAIN r /\ i = Len(q) + (i - Len(q))
      BY <1>1, <2>3
    <3> QED BY <3>1
  <2> QED BY <2>1, <2>2, <2>3
<1>5. ASSUME NEW m PROVE Holds(t, m) <=> Holds(q, m) \/ Holds(r, m)
  BY <1>4 DEF Holds
<1>6. ASSUME NEW m, Once(q, m), Once(r, m), ~(Holds(q, m) /\ Holds(r, m)) PROVE Once(t, m)
  <2> SUFFICES ASSUME NEW i \in DOMAIN t, NEW j \in DOMAIN t, t[i] = m, t[j] = m PROVE i = j
    BY DEF Once
  <2>1. CASE i \in DOMAIN q /\ j \in DOMAIN q
    BY <1>4, <1>6, <2>1 DEF Once
  <2>2. CASE i \notin DOMAIN q /\ j \notin DOMAIN q
    <3>1. PICK k \in DOMAIN r : i = Len(q) + k
      BY <1>4, <2>2
    <3>2. PICK l \in DOMAIN r : j = Len(q) + l
      BY <1>4, <2>2
    <3> QED BY <1>4, <1>6, <3>1, <3>2 DEF Once
  <2>3. CASE i \in DOMAIN q /\ j \notin DOMAIN q
    BY <1>4, <1>6, <2>3 DEF Holds
  <2>4. CASE i \notin DOMAIN q /\ j \in DOMAIN q
    BY <1>4, <1>6, <2>4 DEF Holds
  <2> QED BY <2>1, <2>2, <2>3, <2>4
<1>7. ASSUME NEW m, Final(r, m), ~Holds(q, m) PROVE Final(t, m)
  <2> SUFFICES ASSUME NEW i \in DOMAIN t, t[i] = m PROVE i = Len(t)
    BY DEF Final
  <2>1. i \notin DOMAIN q
    BY <1>4, <1>7 DEF Holds
  <2>2. PICK j \in DOMAIN r : i = Len(q) + j
    BY <1>4, <2>1
  <2> QED BY <1>1, <1>4, <1>7, <2>2 DEF Final
<1> QED BY <1>1, <1>2, <1>3, <1>5, <1>6, <1>7 DEF t

\* The same of the order of two messages.
LEMMA JoinedOrder ==
    ASSUME NEW S, NEW q \in Seq(S), NEW r \in Seq(S), NEW m, NEW n
    PROVE  /\ Free(q, m, n) /\ Free(r, m, n) /\ (~Holds(q, n) \/ ~Holds(r, m))
                => Free(q \o r, m, n)
           /\ Led(q, m, n) /\ (Holds(q, n) \/ ~Holds(r, m)) => Led(q \o r, m, n)
           /\ Shields(q, n, m) => Shields(q \o r, n, m)
           /\ Holds(r, n) /\ ~Holds(q, m) /\ ~Holds(r, m) => Shields(q \o r, n, m)
<1> DEFINE t == q \o r
<1>1. /\ t \in Seq(S) /\ Len(q) \in Nat /\ Len(r) \in Nat /\ Len(t) = Len(q) + Len(r)
      /\ DOMAIN q = 1..Len(q) /\ DOMAIN r = 1..Len(r) /\ DOMAIN t = 1..(Len(q) + Len(r))
      /\ \A i \in DOMAIN t : t[i] = IF i <= Len(q) THEN q[i] ELSE r[i - Len(q)]
  OBVIOUS
<1> HIDE DEF t
<1>2. ASSUME NEW i \in DOMAIN t, i \notin DOMAIN q
      PROVE  i - Len(q) \in DOMAIN r /\ t[i] = r[i - Len(q)]
  BY <1>1, <1>2
<1>3. \A i \in DOMAIN q : i \in DOMAIN t /\ t[i] = q[i]
  BY <1>1
<1>4. ASSUME Free(q, m, n), Free(r, m, n), ~Holds(q, n) \/ ~Holds(r, m) PROVE Free(t, m, n)
  <2> SUFFICES ASSUME NEW i \in DOMAIN t, t[i] = m, NEW j \in 1..(i - 1), t[j] = n PROVE FALSE
    BY DEF Free
  <2>1. CASE i \in DOMAIN q
    <3>1. j \in DOMAIN q
      BY <1>1, <2>1
    <3> QED BY <1>3, <1>4, <2>1, <3>1 DEF Free
  <2>2. CASE i \notin DOMAIN q /\ j \in DOMAIN q
    <3>1. Holds(q, n)
      BY <1>3, <2>2 DEF Holds
    <3>2. Holds(r, m)
      BY <1>2, <2>2 DEF Holds
    <3> QED BY <1>4, <3>1, <3>2
  <2>3. CASE i \notin DOMAIN q /\ j \notin DOMAIN q
    <3>1. j \in DOMAIN t
      BY <1>1
    <3>2. r[i - Len(q)] = m /\ r[j - Len(q)] = n /\ i - Len(q) \in DOMAIN r /\ j - Len(q) \in DOMAIN r
      BY <1>2, <2>3, <3>1
    <3>3. j - Len(q) \in 1..((i - Len(q)) - 1)
      BY <1>1, <3>2
    <3> QED BY <1>4, <3>2, <3>3 DEF Free
  <2> QED BY <2>1, <2>2, <2>3
<1>5. ASSUME Led(q, m, n), Holds(q, n) \/ ~Holds(r, m) PROVE Led(t, m, n)
  <2> SUFFICES ASSUME NEW i \in DOMAIN t, t[i] = m PROVE \E j \in 1..(i - 1) : t[j] = n
    BY DEF Led
  <2>1. CASE i \in DOMAIN q
    <3>1. PICK j \in 1..(i - 1) : q[j] = n
      BY <1>3, <1>5, <2>1 DEF Led
    <3>2. j \in DOMAIN q
      BY <1>1, <2>1
    <3> QED BY <1>3, <3>1, <3>2
  <2>2. CASE i \notin DOMAIN q
    <3>1. Holds(r, m)
      BY <1>2, <2>2 DEF Holds
    <3>2. PICK j \in DOMAIN q : q[j] = n
      BY <1>5, <3>1 DEF Holds
    <3>3. j \in 1..(i - 1)
      BY <1>1, <2>2
    <3> QED BY <1>3, <3>2, <3>3
  <2> QED BY <2>1, <2>2
<1>6. ASSUME Shields(q, n, m) PROVE Shields(t, n, m)
  <2>1. PICK i \in DOMAIN q : q[i] = n /\ \A j \in 1..(i - 1) : q[j] # m
    BY <1>6 DEF Shields
  <2>2. \A j \in 1..(i - 1) : j \in DOMAIN q
    BY <1>1
  <2> QED BY <1>3, <2>1, <2>2 DEF Shields
<1>7. ASSUME Holds(r, n), ~Holds(q, m), ~Holds(r, m) PROVE Shields(t, n, m)
  <2>1. PICK i \in DOMAIN r : r[i] = n
    BY <1>7 DEF Holds
  <2>2. Len(q) + i \in DOMAIN t /\ Len(q) + i \notin DOMAIN q /\ (Len(q) + i) - Len(q) = i
    BY <1>1
  <2>3. t[Len(q) + i] = n
    BY <1>2, <2>1, <2>2
  <2>4. \A j \in DOMAIN t : t[j] # m
    BY <1>2, <1>3, <1>7 DEF Holds
  <2>5. \A j \in 1..((Len(q) + i) - 1) : j \in DOMAIN t
    BY <1>1
  <2> QED BY <2>2, <2>3, <2>4, <2>5 DEF Shields
<1> QED BY <1>4, <1>5, <1>6, <1>7 DEF t

\* Writing one message.
LEMMA AppendedQueue ==
    ASSUME NEW S, NEW q \in Seq(S), NEW a \in S
    PROVE  /\ Append(q, a) \in Seq(S) /\ <<a>> \in Seq(S)
           /\ Append(q, a) = q \o <<a>>
OBVIOUS

\* Losing the end of a queue.
LEMMA CutQueue ==
    ASSUME NEW S, NEW q \in Seq(S), NEW n \in 0..Len(q)
    PROVE  /\ SubSeq(q, 1, n) \in Seq(S)
           /\ \A m : Holds(SubSeq(q, 1, n), m) => Holds(q, m)
           /\ \A m : Once(q, m) => Once(SubSeq(q, 1, n), m)
<1> DEFINE t == SubSeq(q, 1, n)
<1>1. /\ t \in Seq(S) /\ DOMAIN t = 1..n /\ DOMAIN q = 1..Len(q) /\ Len(q) \in Nat
      /\ \A i \in 1..n : t[i] = q[i]
  OBVIOUS
<1> HIDE DEF t
<1>2. \A i \in DOMAIN t : i \in DOMAIN q /\ t[i] = q[i]
  BY <1>1
<1> QED BY <1>1, <1>2 DEF Holds, Once, t

\* The messages about some sessions, one each.
LEMMA SetQueue ==
    ASSUME NEW S, IsFiniteSet(S)
    PROVE  /\ SetToSeq(S) \in Seq(S)
           /\ \A m : Holds(SetToSeq(S), m) <=> m \in S
           /\ \A m : Once(SetToSeq(S), m)
<1> DEFINE t == SetToSeq(S)
           n == Cardinality(S)
<1>1. n \in Nat /\ ExistsBijection(1..n, S)
  BY FS_CardinalityType
<1>2. \E f \in [1..n -> S] : IsInjective(f)
  BY <1>1 DEF ExistsBijection, Bijection, Injection
<1>3. t \in [1..n -> S] /\ IsInjective(t)
  BY <1>2 DEF SetToSeq
<1> HIDE DEF t
<1>4. t \in Injection(1..n, S) /\ IsFiniteSet(1..n) /\ Cardinality(1..n) = n
  BY <1>1, <1>3, FS_Interval DEF Injection
<1>5. t \in Surjection(1..n, S)
  BY <1>4, FS_Injection
<1>6. \A m : Holds(t, m) <=> m \in S
  BY <1>3, <1>5 DEF Surjection, Holds
<1>7. \A m : Once(t, m)
  BY <1>3 DEF IsInjective, Once
<1>8. t \in Seq(S)
  BY <1>1, <1>3
<1> QED BY <1>6, <1>7, <1>8 DEF t

-----------------------------------------------------------------------------
\* What one message does to the sessions and to who hears of them

OpenOf(s) == UNION {s.rooms[r].sessions : r \in DOMAIN s.rooms}

\* A message of p takes the state from s to t.  Nobody becomes connected; others stay in
\* their rooms or go, and only out of a room; who is in none gets no Room message.  A session
\* ends for somebody who stays only by p, its other end, going or stopping to share.
Effect(s, t, p, type) ==
    /\ DOMAIN t.connected \subseteq DOMAIN s.connected
    /\ \A d \in DOMAIN t.connected :
            d # p \/ type # "enter" => t.connected[d] = s.connected[d]
    /\ \A d \in DOMAIN s.connected : d # p /\ s.connected[d] = NoRoom => d \in DOMAIN t.connected
    /\ \A d \in DOMAIN t.connected :
            t.connected[d] = NoRoom => t.told[d].info = s.told[d].info
    /\ \A x \in OpenOf(s) \ OpenOf(t) : \A d \in {x.host, x.client} \cap DOMAIN t.connected :
            /\ p \in {x.host, x.client}
            /\ p \notin DOMAIN t.connected \/ (type = "stopshare" /\ x.host = p)
    /\ type = "stopshare" => \A x \in OpenOf(t) : x.host # p

\* The ends of a session are connected.
LEMMA OpenEnds ==
    ASSUME NEW s, Safe(s), NEW x \in OpenOf(s)
    PROVE  /\ x \in Session /\ x.host # x.client
           /\ x.host \in DOMAIN s.connected /\ x.client \in DOMAIN s.connected
           /\ s.connected[x.host] # NoRoom /\ s.connected[x.client] # NoRoom
<1>1. PICK r \in DOMAIN s.rooms : x \in s.rooms[r].sessions
  BY DEF OpenOf
<1>2. x \in Session /\ r # NoRoom
  BY <1>1, SafeRooms, RoomIdAssumption DEF StateType, RoomsType
<1>3. x.host # x.client
  BY <1>1 DEF Safe, RoomsSafe, RoomSafe, SessionsJoin
<1> QED BY <1>1, <1>2, <1>3, EndsConnected

\* The end of p's connection.
LEMMA DropEffect ==
    ASSUME NEW s, Safe(s), NEW p \in DOMAIN s.connected, Reaches(s, {p}), NEW type,
           NEW t, t = Dropped(s, p)
    PROVE  Effect(s, t, p, type) /\ p \notin DOMAIN t.connected
<1>1. Safe(t)
  BY DroppedIsSafe
<1>2. DropsOutside(s, t, p) \/ DropsMember(s, t, p, s.connected[p])
        \/ DropsRoom(s, t, p, s.connected[p])
  BY SafeRooms, DroppedEntries
<1>3. DOMAIN s.connected \subseteq Client
  BY DEF Safe, StateType, ConnectedType, IsMap
<1>4. SUFFICES
        /\ p \notin DOMAIN t.connected
        /\ DOMAIN t.connected \subseteq DOMAIN s.connected
        /\ \A d \in DOMAIN t.connected : t.connected[d] = s.connected[d]
        /\ \A d \in DOMAIN s.connected : d # p /\ s.connected[d] = NoRoom => d \in DOMAIN t.connected
        /\ \A d \in DOMAIN t.connected :
                t.connected[d] = NoRoom => t.told[d].info = s.told[d].info
        /\ \A x \in OpenOf(s) \ OpenOf(t) : \A d \in {x.host, x.client} \cap DOMAIN t.connected :
                p \in {x.host, x.client}
  <2>1. \A x \in OpenOf(t) : x.host \in DOMAIN t.connected
    BY <1>1, OpenEnds
  <2> QED BY <1>4, <2>1 DEF Effect
<1>5. CASE DropsOutside(s, t, p)
  <2>1. /\ t.rooms = s.rooms /\ t.connected = Without(s.connected, {p})
        /\ t.told = [d \in Client |-> IF d = p THEN Over(s.told[d]) ELSE s.told[d]]
    BY <1>5 DEF DropsOutside
  <2>2. OpenOf(t) = OpenOf(s)
    BY <2>1 DEF OpenOf
  <2> QED BY <1>3, <2>1, <2>2 DEF Without
<1>6. ASSUME NEW r, r = s.connected[p], DropsMember(s, t, p, r)
      PROVE  /\ p \notin DOMAIN t.connected
             /\ DOMAIN t.connected \subseteq DOMAIN s.connected
             /\ \A d \in DOMAIN t.connected : t.connected[d] = s.connected[d]
             /\ \A d \in DOMAIN s.connected :
                    d # p /\ s.connected[d] = NoRoom => d \in DOMAIN t.connected
             /\ \A d \in DOMAIN t.connected :
                    t.connected[d] = NoRoom => t.told[d].info = s.told[d].info
             /\ \A x \in OpenOf(s) \ OpenOf(t) :
                    \A d \in {x.host, x.client} \cap DOMAIN t.connected : p \in {x.host, x.client}
  <2>1. /\ Member(s, p, r)
        /\ t.rooms = [s.rooms EXCEPT ![r] = RoomWithout(s.rooms[r], p)]
        /\ t.connected = Without(s.connected, {p})
        /\ t.told = [d \in Client |->
                IF d = p THEN Over(s.told[d])
                ELSE IF d \in DOMAIN s.rooms[r].users
                THEN Knowing(s.told[d], RoomWithout(s.rooms[r], p).users,
                             s.told[d].open \ SessionsOf(s.rooms[r].sessions, p))
                ELSE s.told[d]]
    BY <1>6 DEF DropsMember
  <2>2. r \in DOMAIN s.rooms /\ r # NoRoom /\ IsRoom(s.rooms[r])
    BY <2>1, RoomIdAssumption, SafeRooms DEF Member, Safe, StateType, RoomsType
  <2>3. \A d \in DOMAIN t.connected : d \in Client /\ d # p /\ t.connected[d] = s.connected[d]
    BY <1>3, <2>1 DEF Without
  <2>4. \A d \in DOMAIN s.rooms[r].users : s.connected[d] = r
    BY <2>2, SafeRooms DEF Matches
  <2>5. \A d \in DOMAIN t.connected : t.connected[d] = NoRoom => t.told[d] = s.told[d]
    BY <2>1, <2>2, <2>3, <2>4
  <2>6. RoomWithout(s.rooms[r], p).sessions
          = s.rooms[r].sessions \ SessionsOf(s.rooms[r].sessions, p)
    BY <2>2 DEF RoomWithout, IsRoom
  <2>7. \A x \in OpenOf(s) \ OpenOf(t) : p \in {x.host, x.client}
    <3> SUFFICES ASSUME NEW x \in OpenOf(s), x \notin OpenOf(t) PROVE p \in {x.host, x.client}
      OBVIOUS
    <3>1. PICK q \in DOMAIN s.rooms : x \in s.rooms[q].sessions
      BY DEF OpenOf
    <3>2. q = r
      BY <2>1, <3>1 DEF OpenOf
    <3>3. x \notin RoomWithout(s.rooms[r], p).sessions
      BY <2>1, <2>2 DEF OpenOf
    <3> QED BY <2>6, <3>1, <3>2, <3>3 DEF SessionsOf
  <2> QED BY <2>1, <2>3, <2>5, <2>7 DEF Without
<1>7. ASSUME NEW r, r = s.connected[p], DropsRoom(s, t, p, r)
      PROVE  /\ p \notin DOMAIN t.connected
             /\ DOMAIN t.connected \subseteq DOMAIN s.connected
             /\ \A d \in DOMAIN t.connected : t.connected[d] = s.connected[d]
             /\ \A d \in DOMAIN s.connected :
                    d # p /\ s.connected[d] = NoRoom => d \in DOMAIN t.connected
             /\ \A d \in DOMAIN t.connected :
                    t.connected[d] = NoRoom => t.told[d].info = s.told[d].info
             /\ \A x \in OpenOf(s) \ OpenOf(t) :
                    \A d \in {x.host, x.client} \cap DOMAIN t.connected : p \in {x.host, x.client}
  <2>1. /\ Member(s, p, r)
        /\ t.rooms = Without(s.rooms, {r})
        /\ t.connected = Without(s.connected, DOMAIN s.rooms[r].users)
        /\ t.told = [d \in Client |->
                IF d \in DOMAIN s.rooms[r].users THEN Over(s.told[d]) ELSE s.told[d]]
    BY <1>7 DEF DropsRoom
  <2>2. r \in DOMAIN s.rooms /\ r # NoRoom
    BY <2>1, RoomIdAssumption DEF Member, Safe, StateType, RoomsType
  <2>3. \A d \in DOMAIN s.rooms[r].users : s.connected[d] = r
    BY <2>2, SafeRooms DEF Matches
  <2>4. \A d \in DOMAIN t.connected :
            d \in Client /\ t.connected[d] = s.connected[d] /\ t.told[d] = s.told[d]
    BY <1>3, <2>1 DEF Without
  <2>5. ASSUME NEW x \in OpenOf(s), x \notin OpenOf(t)
        PROVE  x.host \notin DOMAIN t.connected /\ x.client \notin DOMAIN t.connected
    <3>1. PICK q \in DOMAIN s.rooms : x \in s.rooms[q].sessions
      BY DEF OpenOf
    <3>2. q = r
      BY <2>1, <2>5, <3>1 DEF OpenOf, Without
    <3> QED BY <2>1, <3>1, <3>2, EndsConnected DEF Without
  <2>6. p \in DOMAIN s.rooms[r].users
    BY <2>1 DEF Member
  <2>7. DOMAIN t.connected = DOMAIN s.connected \ DOMAIN s.rooms[r].users
    BY <2>1 DEF Without
  <2>8. \A d \in DOMAIN s.connected : s.connected[d] = NoRoom => d \in DOMAIN t.connected
    BY <2>2, <2>3, <2>7
  <2> QED BY <2>4, <2>5, <2>6, <2>7, <2>8
<1> QED BY <1>2, <1>5, <1>6, <1>7

\* A state that p's message passes through: the sessions are those of s, and at most where
\* p is has changed.
Passes(s, m, p) ==
    /\ DOMAIN m.connected = DOMAIN s.connected
    /\ \A d \in DOMAIN s.connected \ {p} :
        /\ m.connected[d] = s.connected[d]
        /\ m.connected[d] = NoRoom => m.told[d].info = s.told[d].info
    /\ OpenOf(m) = OpenOf(s)

\* A message that fails half way ends p's connection.
LEMMA FailedEffect ==
    ASSUME NEW s, NEW m, Safe(m), NEW p \in DOMAIN m.connected, Reaches(m, {p}),
           Passes(s, m, p), NEW type, NEW t, t = Dropped(m, p)
    PROVE  Effect(s, t, p, type) /\ p \notin DOMAIN t.connected
<1>1. Effect(m, t, p, type) /\ p \notin DOMAIN t.connected
  BY DropEffect
<1>2. \A d \in DOMAIN t.connected : d # p /\ d \in DOMAIN s.connected
  BY <1>1 DEF Effect, Passes
<1>3. \A d \in DOMAIN t.connected :
        /\ t.connected[d] = s.connected[d]
        /\ t.connected[d] = NoRoom => t.told[d].info = s.told[d].info
  BY <1>1, <1>2 DEF Effect, Passes
<1> QED BY <1>1, <1>2, <1>3 DEF Effect, Passes

\* Replacing a room by one with the same sessions leaves the sessions as they are,
LEMMA SameOpen ==
    ASSUME NEW s, NEW r \in DOMAIN s.rooms, NEW room, NEW t,
           t.rooms = [s.rooms EXCEPT ![r] = room]
    PROVE  /\ room.sessions = s.rooms[r].sessions => OpenOf(t) = OpenOf(s)
           /\ s.rooms[r].sessions \subseteq room.sessions => OpenOf(s) \subseteq OpenOf(t)
           /\ \A x \in OpenOf(s) \ OpenOf(t) : x \in s.rooms[r].sessions \ room.sessions
<1>1. /\ DOMAIN t.rooms = DOMAIN s.rooms /\ t.rooms[r] = room
      /\ \A q \in DOMAIN s.rooms \ {r} : t.rooms[q] = s.rooms[q]
  OBVIOUS
<1>2. \A q \in DOMAIN s.rooms : q = r \/ t.rooms[q].sessions = s.rooms[q].sessions
  BY <1>1
<1>3. ASSUME s.rooms[r].sessions \subseteq room.sessions PROVE OpenOf(s) \subseteq OpenOf(t)
  <2> SUFFICES ASSUME NEW x \in OpenOf(s) PROVE x \in OpenOf(t)
    OBVIOUS
  <2>1. PICK q \in DOMAIN s.rooms : x \in s.rooms[q].sessions
    BY DEF OpenOf
  <2>2. x \in t.rooms[q].sessions /\ q \in DOMAIN t.rooms
    BY <1>1, <1>2, <1>3, <2>1
  <2> QED BY <2>2 DEF OpenOf
<1>4. ASSUME room.sessions \subseteq s.rooms[r].sessions PROVE OpenOf(t) \subseteq OpenOf(s)
  <2> SUFFICES ASSUME NEW x \in OpenOf(t) PROVE x \in OpenOf(s)
    OBVIOUS
  <2>1. PICK q \in DOMAIN t.rooms : x \in t.rooms[q].sessions
    BY DEF OpenOf
  <2>2. x \in s.rooms[q].sessions /\ q \in DOMAIN s.rooms
    BY <1>1, <1>2, <1>4, <2>1
  <2> QED BY <2>2 DEF OpenOf
<1>5. ASSUME NEW x \in OpenOf(s), x \notin OpenOf(t)
      PROVE  x \in s.rooms[r].sessions \ room.sessions
  <2>1. PICK q \in DOMAIN s.rooms : x \in s.rooms[q].sessions
    BY DEF OpenOf
  <2>2. x \notin t.rooms[q].sessions /\ x \notin t.rooms[r].sessions
    BY <1>1, <1>5, <2>1 DEF OpenOf
  <2> QED BY <1>1, <1>2, <2>1, <2>2
<1> QED BY <1>3, <1>4, <1>5

\* Room messages go to a room.
LEMMA NotifyInfo ==
    ASSUME NEW s, Safe(s), NEW r
    PROVE  \A d \in Client \ DOMAIN s.rooms[r].users : NotifyInfoChanged(s, r).told[d] = s.told[d]
<1>1. Notifies(s, NotifyInfoChanged(s, r), r)
  BY NotifyEffect DEF Safe, StateType
<1> QED BY <1>1 DEF Notifies

\* Opening sessions sends none.
LEMMA OpenInfo ==
    ASSUME NEW s, Safe(s), NEW r, NEW new
    PROVE  \A d \in Client : OpenSessions(s, r, new).told[d].info = s.told[d].info
<1>1. OpensSessions(s, OpenSessions(s, r, new), r, new)
  BY OpenSessionsEffect DEF Safe, StateType
<1>2. OpenSessions(s, r, new).told
        = [c \in Client |-> [s.told[c] EXCEPT !.open = @ \cup SessionsOf(new, c)]]
  BY <1>1 DEF OpensSessions
<1>3. \A d \in Client : IsTold(s.told[d])
  BY DEF Safe, StateType, ToldType
<1> SUFFICES ASSUME NEW d \in Client
             PROVE  OpenSessions(s, r, new).told[d].info = s.told[d].info
  OBVIOUS
<1>4. OpenSessions(s, r, new).told[d]
        = [s.told[d] EXCEPT !.open = s.told[d].open \cup SessionsOf(new, d)]
  BY <1>2
<1> QED BY <1>3, <1>4, KnowingFields, KnowingParts

\* A new room has no sessions yet.
LEMMA CreatedEffect ==
    ASSUME NEW s, Safe(s), NEW p \in DOMAIN s.connected, s.connected[p] = NoRoom,
           NEW r \in RoomId, r \notin DOMAIN s.rooms, NEW mode, NEW close, NEW v,
           NEW t, t = Created(s, p, r, mode, close, v)
    PROVE  Effect(s, t, p, "enter") /\ p \in DOMAIN t.connected /\ t.connected[p] = r
<1> DEFINE room == CreatedRoom(p, mode, close, v)
           a    == RoomAdded(s, p, r, room)
<1>1. t = NotifyInfoChanged(a, r)
  BY DEF Created, CreatedRoom
<1>2. DOMAIN room.users = {p} /\ room.sessions = {}
  BY DEF CreatedRoom, NewRoom, Put, Empty
<1>3. DOMAIN s.connected \subseteq Client /\ IsState(s)
  BY DEF Safe, StateType, ConnectedType, IsMap
<1> HIDE DEF room
<1>4. AddsRoom(s, a, p, r, room)
  BY <1>3, RoomAddedEffect
<1> HIDE DEF a
<1>5. Notifies(a, t, r)
  BY <1>1, <1>4, NotifyEffect DEF AddsRoom
<1>6. /\ t.rooms = Put(s.rooms, r, room) /\ a.rooms = Put(s.rooms, r, room)
      /\ t.connected = [s.connected EXCEPT ![p] = r] /\ a.told = s.told
      /\ \A d \in Client \ DOMAIN a.rooms[r].users : t.told[d] = a.told[d]
  BY <1>4, <1>5 DEF AddsRoom, Notifies, Tells
<1>7. DOMAIN a.rooms[r].users = {p}
  BY <1>2, <1>6 DEF Put
<1>8. OpenOf(s) \subseteq OpenOf(t)
  BY <1>6 DEF OpenOf, Put
<1>9. r # NoRoom
  BY RoomIdAssumption
<1>10. \A d \in DOMAIN t.connected : d # p => d \in Client /\ t.told[d] = s.told[d]
  BY <1>3, <1>6, <1>7
<1>11. /\ DOMAIN t.connected = DOMAIN s.connected
       /\ \A d \in DOMAIN s.connected : t.connected[d] = IF d = p THEN r ELSE s.connected[d]
  BY <1>6
<1> HIDE DEF room
<1> QED BY <1>8, <1>9, <1>10, <1>11 DEF Effect

\* t is s with p in room r, before it is shown anything.
PassesIn(s, t, p, r) ==
    /\ Safe(t) /\ Reaches(t, {p}) /\ Passes(s, t, p)
    /\ r \in DOMAIN t.rooms /\ p \in DOMAIN t.connected /\ t.connected[p] = r /\ r # NoRoom
    /\ s.connected[p] = NoRoom

\* A newcomer comes in like that.
LEMMA JoinedPasses ==
    ASSUME NEW s, Safe(s), Reaches(s, {}), NEW p \in DOMAIN s.connected,
           s.connected[p] = NoRoom, NEW r \in DOMAIN s.rooms,
           NEW v \in Visitor \cup {Blank},
           NEW name \in NextGuestNames(s.rooms[r].users, NormalizeVisitorID(v, p)),
           NEW t, t = Joined(s, p, r, v, name)
    PROVE  PassesIn(s, t, p, r)
<1>2. /\ Safe(t) /\ Reaches(t, {p}) /\ DOMAIN t.rooms = DOMAIN s.rooms
      /\ t.connected = [s.connected EXCEPT ![p] = r]
  BY JoinedIsSafe
<1> DEFINE user == JoinedUser(s, p, r, v, name)
           a    == UserAdded(s, p, r, user)
<1>3. t = NotifyInfoChanged(a, r)
  BY DEF Joined, JoinedUser
<1> HIDE DEF user
<1>4. IsState(s) /\ DOMAIN s.connected \subseteq Client /\ IsRoom(s.rooms[r]) /\ r # NoRoom
  BY SafeRooms, RoomIdAssumption DEF Safe, StateType, ConnectedType, RoomsType, IsMap
<1>5. AddsUser(s, a, p, r, user)
  BY <1>4, UserAddedEffect
<1> HIDE DEF a
<1>6. Notifies(a, t, r)
  BY <1>3, <1>5, NotifyEffect DEF AddsUser
<1>7. /\ t.rooms = a.rooms /\ a.told = s.told
      /\ a.rooms = [s.rooms EXCEPT ![r] = RoomWith(s.rooms[r], p, user)]
      /\ \A d \in Client \ DOMAIN a.rooms[r].users : t.told[d] = a.told[d]
  BY <1>5, <1>6 DEF AddsUser, Notifies, Tells, RoomWith
<1>8. RoomWith(s.rooms[r], p, user).sessions = s.rooms[r].sessions
  BY <1>4 DEF RoomWith, IsRoom
<1>9. OpenOf(t) = OpenOf(s)
  BY <1>7, <1>8, SameOpen
<1>10. \A d \in DOMAIN s.connected \ {p} :
          t.connected[d] = s.connected[d] /\ (s.connected[d] = NoRoom => t.told[d] = s.told[d])
  <2>1. \A d \in DOMAIN t.rooms[r].users : t.connected[d] = r
    BY <1>2, SafeRooms DEF Matches
  <2> QED BY <1>2, <1>4, <1>7, <2>1
<1> QED BY <1>2, <1>4, <1>9, <1>10 DEF Passes, PassesIn

\* So does one as the outcomes have it.
LEMMA NewcomerPasses ==
    ASSUME NEW s, Safe(s), Reaches(s, {}), NEW p, NEW r, NEW v, NEW name,
           Newcomer(s, p, r, v, name)
    PROVE  PassesIn(s, Joined(s, p, r, v, name), p, r)
<1>1. /\ p \in DOMAIN s.connected /\ s.connected[p] = NoRoom /\ r \in DOMAIN s.rooms
      /\ v \in Visitor \cup {Blank}
      /\ name \in NextGuestNames(s.rooms[r].users, NormalizeVisitorID(v, p))
  BY DEF Newcomer
<1> QED BY <1>1, JoinedPasses

\* A newcomer who is shown the streams of the room.
LEMMA ShownEffect ==
    ASSUME NEW s, NEW j, NEW p, NEW r, PassesIn(s, j, p, r), p \in DOMAIN s.connected,
           NEW n, NEW t, t = ShownTo(j, p, r, n)
    PROVE  Effect(s, t, p, "enter") /\ p \in DOMAIN t.connected /\ t.connected[p] = r
<1> DEFINE new == SessionsBetween(Streamers(j.rooms[r].users) \ {p}, {p}, n)
<1>1. t = OpenSessions(j, r, new)
  BY DEF ShownTo
<1>2. /\ Safe(j) /\ Passes(s, j, p) /\ r \in DOMAIN j.rooms /\ IsRoom(j.rooms[r])
      /\ p \in DOMAIN j.connected /\ j.connected[p] = r /\ r # NoRoom
  BY SafeRooms DEF PassesIn
<1> HIDE DEF new
<1>3. RoomBecomes(j, t, r, RoomShowing(j.rooms[r], new))
  BY <1>1, <1>2, ShowingShape DEF Safe, StateType
<1>4. RoomShowing(j.rooms[r], new).sessions = j.rooms[r].sessions \cup new
  BY <1>2 DEF RoomShowing, IsRoom
<1>5. t.connected = j.connected /\ OpenOf(j) \subseteq OpenOf(t)
  <2> DEFINE room == RoomShowing(j.rooms[r], new)
  <2>1. t.rooms = [j.rooms EXCEPT ![r] = room] /\ t.connected = j.connected
    BY <1>3 DEF RoomBecomes
  <2>2. j.rooms[r].sessions \subseteq room.sessions
    BY <1>4
  <2> HIDE DEF room
  <2> QED BY <1>2, <2>1, <2>2, SameOpen
<1>6. \A d \in Client : t.told[d].info = j.told[d].info
  BY <1>1, <1>2, OpenInfo
<1>7. DOMAIN j.connected \subseteq Client
  BY <1>2 DEF Safe, StateType, ConnectedType, IsMap
<1>8. \A d \in DOMAIN t.connected :
        /\ d # p => t.connected[d] = s.connected[d]
        /\ t.connected[d] = NoRoom => t.told[d].info = s.told[d].info
  BY <1>2, <1>5, <1>6, <1>7 DEF Passes
<1> QED BY <1>2, <1>5, <1>8 DEF Effect, Passes

Replaces(s, t, r, room) == r \in DOMAIN s.rooms /\ t.rooms = [s.rooms EXCEPT ![r] = room]

LEMMA SameSessions ==
    ASSUME NEW s, NEW t, NEW r, NEW room, Replaces(s, t, r, room),
           room.sessions = s.rooms[r].sessions
    PROVE  OpenOf(t) = OpenOf(s)
BY SameOpen DEF Replaces

\* m is s with a member who streams, before anybody is shown.
StreamsIn(s, m, p, r) ==
    /\ Safe(m) /\ Reaches(m, {p}) /\ Passes(s, m, p)
    /\ m.connected = s.connected /\ m.told = s.told
    /\ r \in DOMAIN m.rooms /\ DOMAIN m.rooms[r].users = DOMAIN s.rooms[r].users

\* It sends and ends nothing.
LEMMA StreamingPasses ==
    ASSUME NEW s, Safe(s), Reaches(s, {}), NEW r \in DOMAIN s.rooms,
           NEW p \in DOMAIN s.rooms[r].users, NEW m, m = Streaming(s, p, r, TRUE)
    PROVE  StreamsIn(s, m, p, r)
<1> DEFINE room == RoomStreaming(s.rooms[r], p, TRUE)
<1>1. Safe(m) /\ Reaches(m, {p})
  BY StreamingOnIsSafe
<1>2. RoomBecomes(s, m, r, room) /\ SetsStreaming(s, m, p, r, TRUE)
  BY StreamingShape, StreamingEffect DEF Safe, StateType
<1>3. IsRoom(s.rooms[r])
  BY SafeRooms
<1>4. room.sessions = s.rooms[r].sessions /\ DOMAIN room.users = DOMAIN s.rooms[r].users
  BY <1>3 DEF IsRoom, RoomStreaming
<1> HIDE DEF room
<1>5. /\ m.rooms = [s.rooms EXCEPT ![r] = room]
      /\ m.connected = s.connected /\ m.told = s.told
  BY <1>2 DEF RoomBecomes, SetsStreaming
<1>6. OpenOf(m) = OpenOf(s)
  <2>1. m.rooms = [s.rooms EXCEPT ![r] = room]
    BY <1>5
  <2>2. room.sessions = s.rooms[r].sessions
    BY <1>4
  <2>3. Replaces(s, m, r, room)
    BY <2>1 DEF Replaces
  <2> QED BY <2>2, <2>3, SameSessions
<1>7. r \in DOMAIN m.rooms /\ m.rooms[r] = room
  BY <1>5
<1> QED BY <1>1, <1>4, <1>5, <1>6, <1>7 DEF Passes, StreamsIn

\* A share that succeeds.
LEMMA ShareEffect ==
    ASSUME NEW s, Safe(s), Reaches(s, {}), NEW r \in DOMAIN s.rooms,
           NEW p \in DOMAIN s.rooms[r].users, NEW n \in Serial,
           NEW t, t = NotifyInfoChanged(Shared(s, p, r, n), r)
    PROVE  Effect(s, t, p, "share") /\ t.connected = s.connected
<1> DEFINE on    == Streaming(s, p, r, TRUE)
           new   == SessionsBetween({p}, DOMAIN on.rooms[r].users \ {p}, n)
           shown == Shared(s, p, r, n)
<1>1. shown = OpenSessions(on, r, new)
  BY DEF Shared, Shown
<1>2. SharedSafely(s, shown)
  BY ShownIsSafe
<1>30. StreamsIn(s, on, p, r)
  BY StreamingPasses
<1> HIDE DEF on, new
<1>3. /\ Safe(on) /\ Passes(s, on, p) /\ on.connected = s.connected /\ on.told = s.told
      /\ r \in DOMAIN on.rooms
  BY <1>30 DEF StreamsIn
<1>4. IsRoom(on.rooms[r])
  BY <1>3, SafeRooms
<1>5. RoomBecomes(on, shown, r, RoomShowing(on.rooms[r], new))
  BY <1>1, <1>3, ShowingShape DEF Safe, StateType
<1>6. RoomShowing(on.rooms[r], new).sessions = on.rooms[r].sessions \cup new
  BY <1>4 DEF RoomShowing, IsRoom
<1> HIDE DEF shown
<1>7. shown.connected = on.connected /\ OpenOf(on) \subseteq OpenOf(shown)
  <2> DEFINE room == RoomShowing(on.rooms[r], new)
  <2>1. shown.rooms = [on.rooms EXCEPT ![r] = room] /\ shown.connected = on.connected
    BY <1>5 DEF RoomBecomes
  <2>2. on.rooms[r].sessions \subseteq room.sessions
    BY <1>6
  <2> HIDE DEF room
  <2> QED BY <1>3, <2>1, <2>2, SameOpen
<1>8. \A d \in Client : shown.told[d].info = s.told[d].info
  BY <1>1, <1>3, OpenInfo DEF shown
<1>9. Safe(shown) /\ r \in DOMAIN shown.rooms
  BY <1>2 DEF SharedSafely
<1>10. t.rooms = shown.rooms /\ t.connected = shown.connected
  <2>1. t = NotifyInfoChanged(shown, r)
    BY DEF shown
  <2> QED BY <1>9, <2>1, NotifyShape DEF Safe, StateType
<1>11. \A d \in Client \ DOMAIN shown.rooms[r].users : t.told[d] = shown.told[d]
  BY <1>9, NotifyInfo DEF shown
<1>12. OpenOf(t) = OpenOf(shown)
  BY <1>10 DEF OpenOf
<1>13. \A d \in DOMAIN shown.rooms[r].users : shown.connected[d] # NoRoom
  <2>1. r # NoRoom
    BY RoomIdAssumption DEF Safe, StateType, RoomsType
  <2> QED BY <1>9, <2>1, SafeRooms DEF Matches
<1>14. DOMAIN s.connected \subseteq Client
  BY DEF Safe, StateType, ConnectedType, IsMap
<1>15. \A d \in DOMAIN t.connected : t.connected[d] = NoRoom => t.told[d].info = s.told[d].info
  BY <1>3, <1>7, <1>8, <1>10, <1>11, <1>13, <1>14
<1>16. OpenOf(s) \subseteq OpenOf(t)
  BY <1>3, <1>7, <1>12 DEF Passes
<1>17. t.connected = s.connected
  BY <1>3, <1>7, <1>10
<1> HIDE DEF shown
<1> QED BY <1>15, <1>16, <1>17 DEF Effect

\* A stream that stops, with all of its sessions.
LEMMA StopEffect ==
    ASSUME NEW s, Safe(s), NEW r \in DOMAIN s.rooms,
           NEW p \in DOMAIN s.rooms[r].users, p \in DOMAIN s.connected, s.connected[p] = r,
           NEW t, t = Stopped(s, p, r)
    PROVE  Effect(s, t, p, "stopshare") /\ t.connected = s.connected
<1> DEFINE old   == HostedBy(s.rooms[r].sessions, p)
           off   == Streaming(s, p, r, FALSE)
           heard == EndShare(off, DOMAIN s.rooms[r].users, old)
           m     == CloseSessions(heard, r, old)
           room  == RoomStopped(s.rooms[r], p)
<1>1. t = NotifyInfoChanged(m, r)
  BY DEF Stopped
<1> HIDE DEF m, heard, off
<1>2. RoomBecomes(s, t, r, room)
  BY SafeRooms, StoppedShape
<1>3. SetsStreaming(s, off, p, r, FALSE)
  BY StreamingEffect DEF Safe, StateType, off
<1>4. EndsForOthers(off, heard, DOMAIN s.rooms[r].users, old)
  BY <1>3, EndShareEffect DEF SetsStreaming, heard
<1>5. ClosesSessions(heard, m, r, old)
  BY <1>4, CloseSessionsEffect DEF EndsForOthers, Tells, m
<1>6. Notifies(m, t, r)
  BY <1>1, <1>5, NotifyEffect DEF ClosesSessions
<1>7. IsRoom(s.rooms[r]) /\ r # NoRoom /\ DOMAIN s.connected \subseteq Client
  BY SafeRooms, RoomIdAssumption DEF Safe, StateType, RoomsType, ConnectedType, IsMap
<1>8. room.sessions = s.rooms[r].sessions \ old /\ DOMAIN room.users = DOMAIN s.rooms[r].users
  BY <1>7 DEF RoomStopped, IsRoom
<1> HIDE DEF old, room
<1>9. t.rooms = [s.rooms EXCEPT ![r] = room] /\ t.connected = s.connected /\ t.rooms = m.rooms
  BY <1>2, <1>6 DEF RoomBecomes, Notifies, Tells
<1>10. t.rooms[r] = room /\ DOMAIN m.rooms[r].users = DOMAIN s.rooms[r].users
  BY <1>8, <1>9
<1>11. \A d \in Client \ DOMAIN s.rooms[r].users : t.told[d] = s.told[d]
  BY <1>3, <1>4, <1>5, <1>6, <1>10 DEF SetsStreaming, EndsForOthers, ClosesSessions, Notifies
<1>12. \A d \in DOMAIN s.rooms[r].users : s.connected[d] = r
  BY SafeRooms DEF Matches
<1>13. \A x \in OpenOf(s) \ OpenOf(t) : x.host = p
  <2>0. t.rooms = [s.rooms EXCEPT ![r] = room]
    BY <1>9
  <2>1. \A x \in OpenOf(s) \ OpenOf(t) : x \in s.rooms[r].sessions \ room.sessions
    BY <2>0, SameOpen
  <2> QED BY <1>8, <2>1 DEF HostedBy, old
<1>14. \A x \in OpenOf(t) : x.host # p
  <2> SUFFICES ASSUME NEW x \in OpenOf(t), x.host = p PROVE FALSE
    OBVIOUS
  <2>1. PICK q \in DOMAIN t.rooms : x \in t.rooms[q].sessions
    BY DEF OpenOf
  <2>2. CASE q = r
    BY <1>8, <1>10, <2>1, <2>2 DEF HostedBy, old
  <2>3. CASE q # r
    <3>1. q \in DOMAIN s.rooms /\ x \in s.rooms[q].sessions
      BY <1>9, <2>1, <2>3
    <3> QED BY <2>3, <3>1, EndsConnected
  <2> QED BY <2>2, <2>3
<1> QED BY <1>7, <1>9, <1>11, <1>12, <1>13, <1>14 DEF Effect

-----------------------------------------------------------------------------
\* A message as the loop handles it

\* What a step does to those who share: p alone starts to, with a share message, and
\* ceases to with a stopshare.
Shrinks(s, t, p, type) ==
    /\ \A d \in SharingOf(t) : d \in SharingOf(s) \/ (type = "share" /\ d = p)
    /\ type = "stopshare" => p \notin SharingOf(t)

\* Who is dropped no longer shares.
LEMMA DropShrinks ==
    ASSUME NEW s, Safe(s), NEW p \in DOMAIN s.connected, NEW type, NEW t, t = Dropped(s, p)
    PROVE  Shrinks(s, t, p, type) /\ p \notin SharingOf(t)
<1>1. Ends(s, t, p)
  BY DroppedEnds
<1>2. CASE s.connected[p] = NoRoom /\ Stays(s, t)
  <2>1. p \notin SharingOf(s)
    BY <1>2, OutsiderNowhere, SharersOf
  <2> QED BY <1>2, <2>1 DEF Stays, Shrinks
<1>3. CASE Departs(s, t, {p})
  BY <1>3 DEF Departs, Shrinks
<1>4. CASE \E r \in RoomId : p \in InsideOf(s, r) /\ Departs(s, t, InsideOf(s, r))
  BY <1>4 DEF Departs, Shrinks
<1> QED BY <1>1, <1>2, <1>3, <1>4 DEF Ends

\* Nor who is dropped after a beginning.
LEMMA FailedShrinks ==
    ASSUME NEW s, NEW m, Safe(m), NEW p \in DOMAIN m.connected,
           \A d \in SharingOf(m) : d \in SharingOf(s) \/ d = p,
           NEW type, NEW t, t = Dropped(m, p)
    PROVE  Shrinks(s, t, p, type)
<1>1. Shrinks(m, t, p, "enter") /\ p \notin SharingOf(t)
  BY DropShrinks
<1> QED BY <1>1 DEF Shrinks

\* Opening sessions and telling the members changes nobody's sharing.
LEMMA TellingShrinks ==
    ASSUME NEW s, Safe(s), NEW r \in DOMAIN s.rooms, NEW new
    PROVE  /\ SharingOf(OpenSessions(s, r, new)) = SharingOf(s)
           /\ SharingOf(NotifyInfoChanged(s, r)) = SharingOf(s)
BY OpenSameUsers, NotifySameUsers, SameUsersKept

\* A newcomer does not share.
LEMMA ShownShrinks ==
    ASSUME NEW s, Safe(s), NEW p, NEW r, NEW v, NEW name, Newcomer(s, p, r, v, name),
           NEW j, j = Joined(s, p, r, v, name), PassesIn(s, j, p, r)
    PROVE  /\ SharingOf(j) = SharingOf(s)
           /\ \A n : Shrinks(s, ShownTo(j, p, r, n), p, "enter")
           /\ Shrinks(s, Dropped(j, p), p, "enter")
<1>1. SharingOf(j) = SharingOf(s)
  BY NewcomerSteps DEF Enters
<1>2. Safe(j) /\ r \in DOMAIN j.rooms /\ p \in DOMAIN j.connected
  BY DEF PassesIn
<1>3. \A n : SharingOf(ShownTo(j, p, r, n)) = SharingOf(j)
  BY <1>2, TellingShrinks DEF ShownTo
<1>4. \A n : Shrinks(s, ShownTo(j, p, r, n), p, "enter")
  BY <1>1, <1>3 DEF Shrinks
<1>5. Shrinks(s, Dropped(j, p), p, "enter")
  BY <1>1, <1>2, FailedShrinks
<1> QED BY <1>1, <1>4, <1>5

\* To share is to share oneself,
LEMMA ShareShrinks ==
    ASSUME NEW s, Safe(s), Reaches(s, {}), NEW r \in DOMAIN s.rooms,
           NEW p \in DOMAIN s.rooms[r].users, NEW on, on = Streaming(s, p, r, TRUE),
           StreamsIn(s, on, p, r), p \in DOMAIN s.connected
    PROVE  /\ \A n \in Serial : Shrinks(s, NotifyInfoChanged(Shared(s, p, r, n), r), p, "share")
           /\ Shrinks(s, Dropped(on, p), p, "share")
<1>1. SharingOf(on) = SharingOf(s) \cup {p}
  BY StreamingSteps DEF Shares
<1>2. Safe(on) /\ r \in DOMAIN on.rooms /\ p \in DOMAIN on.connected
  BY DEF StreamsIn
<1>3. ASSUME NEW n \in Serial
      PROVE  Shrinks(s, NotifyInfoChanged(Shared(s, p, r, n), r), p, "share")
  <2> DEFINE m == Shared(s, p, r, n)
  <2>1. SameUsers(on, m)
    BY <1>2, OpenSameUsers DEF Shared, Shown
  <2>2. SharingOf(m) = SharingOf(on)
    BY <2>1, SameUsersKept
  <2>3. NotifyInfoChanged(m, r).rooms = m.rooms
    BY DEF NotifyInfoChanged
  <2>4. SharingOf(NotifyInfoChanged(m, r)) = SharingOf(m)
    BY <2>3 DEF SharingOf
  <2> QED BY <1>1, <2>2, <2>4 DEF Shrinks
<1>4. Shrinks(s, Dropped(on, p), p, "share")
  BY <1>1, <1>2, FailedShrinks
<1> QED BY <1>3, <1>4

\* to stop is to stop oneself, and to create a room is neither.
LEMMA StopShrinks ==
    ASSUME NEW s, Safe(s), NEW r \in DOMAIN s.rooms, NEW p \in DOMAIN s.rooms[r].users
    PROVE  Shrinks(s, Stopped(s, p, r), p, "stopshare")
BY StoppedSteps DEF Unshares, Shrinks

LEMMA CreateShrinks ==
    ASSUME NEW s, Safe(s), NEW p \in DOMAIN s.connected, s.connected[p] = NoRoom,
           NEW r \in RoomId, r \notin DOMAIN s.rooms, NEW mode, NEW close, NEW v
    PROVE  Shrinks(s, Created(s, p, r, mode, close, v), p, "enter")
BY CreatedSteps DEF Enters, Shrinks

\* What the handlers make of p's message of that type; relays only when they are refused.
Outcomes(t, p, type) ==
    /\ Effect(Now, t, p, type)
    /\ Shrinks(Now, t, p, type)
    /\ type = "enter" /\ p \in DOMAIN t.connected =>
            connected[p] = NoRoom /\ t.connected[p] # NoRoom
    /\ type \in {"disconnected", "hostoffer", "clientanswer"} => p \notin DOMAIN t.connected

Handled(p, type) == \E t : Become(t) /\ Outcomes(t, p, type)

\* An error.
LEMMA RefusedHandled ==
    ASSUME LInv, NEW p \in DOMAIN connected, NEW type, Refused(p)
    PROVE  Handled(p, type)
<1> DEFINE t == Dropped(Now, p)
<1>1. Become(t)
  BY DEF Refused
<1>2. Safe(Now) /\ Reaches(Now, {p}) /\ p \in DOMAIN Now.connected
  BY IInvOfNow, NowFields DEF LInv, Reaches, ReachesBut
<1> HIDE DEF t
<1>3. Effect(Now, t, p, type) /\ p \notin DOMAIN t.connected
  BY <1>2, DropEffect DEF t
<1>4. Shrinks(Now, t, p, type)
  BY <1>2, DropShrinks DEF t
<1> QED BY <1>1, <1>3, <1>4 DEF Handled, Outcomes

\* Entering a room there is.
LEMMA JoinRoomHandled ==
    ASSUME LInv, NEW p \in DOMAIN connected, connected[p] = NoRoom,
           NEW r \in DOMAIN rooms, JoinRoom(p, r)
    PROVE  Handled(p, "enter")
<1>1. PICK v \in Visitor \cup {Blank} :
        \E name \in NextGuestNames(rooms[r].users, NormalizeVisitorID(v, p)) :
            \/ \E n \in Serial : Become(ShownTo(Joined(Now, p, r, v, name), p, r, n))
            \/ Become(Dropped(Joined(Now, p, r, v, name), p))
  BY DEF JoinRoom
<1>2. PICK name \in NextGuestNames(rooms[r].users, NormalizeVisitorID(v, p)) :
            \/ \E n \in Serial : Become(ShownTo(Joined(Now, p, r, v, name), p, r, n))
            \/ Become(Dropped(Joined(Now, p, r, v, name), p))
  BY <1>1
<1> DEFINE j == Joined(Now, p, r, v, name)
<1>3. Newcomer(Now, p, r, v, name)
  BY NowFields DEF Newcomer
<1>4. Safe(Now) /\ Reaches(Now, {})
  BY IInvOfNow DEF LInv
<1>5. PassesIn(Now, j, p, r)
  BY <1>3, <1>4, NewcomerPasses
<1>6. p \in DOMAIN Now.connected
  BY NowFields
<1>7. (\E n \in Serial : Become(ShownTo(j, p, r, n))) \/ Become(Dropped(j, p))
  BY <1>2
<1>11. /\ \A n : Shrinks(Now, ShownTo(j, p, r, n), p, "enter")
       /\ Shrinks(Now, Dropped(j, p), p, "enter")
  BY <1>3, <1>4, <1>5, ShownShrinks
<1> HIDE DEF j
<1>8. Safe(j) /\ p \in DOMAIN j.connected /\ Reaches(j, {p}) /\ Passes(Now, j, p) /\ r # NoRoom
  BY <1>5 DEF PassesIn
<1>9. ASSUME NEW n \in Serial, NEW t, t = ShownTo(j, p, r, n), Become(t)
      PROVE  Handled(p, "enter")
  <2>1. Effect(Now, t, p, "enter") /\ p \in DOMAIN t.connected /\ t.connected[p] = r
    BY <1>5, <1>6, <1>9, ShownEffect
  <2>2. Shrinks(Now, t, p, "enter")
    BY <1>9, <1>11
  <2> QED BY <1>8, <1>9, <2>1, <2>2 DEF Handled, Outcomes
<1>10. ASSUME NEW t, t = Dropped(j, p), Become(t) PROVE Handled(p, "enter")
  <2>1. Effect(Now, t, p, "enter") /\ p \notin DOMAIN t.connected
    BY <1>8, <1>10, FailedEffect
  <2>2. Shrinks(Now, t, p, "enter")
    BY <1>10, <1>11
  <2> QED BY <1>10, <2>1, <2>2 DEF Handled, Outcomes
<1> QED BY <1>7, <1>9, <1>10

\* Create
LEMMA CreateHandled ==
    ASSUME LInv, NEW p \in DOMAIN connected, Create(p)
    PROVE  Handled(p, "enter")
<1>1. PICK id \in RoomId \cup {ShortId}, joinIfExist \in BOOLEAN :
        IF connected[p] # NoRoom \/ id = ShortId
        THEN Refused(p)
        ELSE IF id \notin DOMAIN rooms
        THEN CreateRoom(p, id)
        ELSE IF joinIfExist
        THEN JoinRoom(p, id)
        ELSE Refused(p)
  BY DEF Create
<1>2. CASE Refused(p)
  BY <1>2, RefusedHandled
<1>3. CASE connected[p] = NoRoom /\ id \in RoomId /\ id \notin DOMAIN rooms /\ CreateRoom(p, id)
  <2>1. PICK mode \in Mode, close \in BOOLEAN, v \in Visitor \cup {Blank} :
          IF MayCreate(p, mode)
          THEN Become(Created(Now, p, id, mode, close, v)) ELSE Refused(p)
    BY <1>3 DEF CreateRoom
  <2>2. ASSUME NEW t, t = Created(Now, p, id, mode, close, v), Become(t)
        PROVE  Handled(p, "enter")
    <3>1. Safe(Now)
      BY IInvOfNow DEF LInv
    <3>2. p \in DOMAIN Now.connected /\ Now.connected[p] = NoRoom /\ id \notin DOMAIN Now.rooms
      BY <1>3, NowFields
    <3>3. Effect(Now, t, p, "enter") /\ p \in DOMAIN t.connected /\ t.connected[p] = id
      BY <1>3, <2>2, <3>1, <3>2, CreatedEffect
    <3>4. id # NoRoom
      BY <1>3, RoomIdAssumption
    <3>5. Shrinks(Now, t, p, "enter")
      BY <1>3, <2>2, <3>1, <3>2, CreateShrinks
    <3> QED BY <1>3, <2>2, <3>3, <3>4, <3>5 DEF Handled, Outcomes
  <2> QED BY <2>1, <2>2, RefusedHandled
<1>4. CASE connected[p] = NoRoom /\ id \in DOMAIN rooms /\ JoinRoom(p, id)
  BY <1>4, JoinRoomHandled
<1> QED BY <1>1, <1>2, <1>3, <1>4

\* StartShare
LEMMA StartShareHandled ==
    ASSUME LInv, NEW p \in DOMAIN connected, StartShare(p)
    PROVE  Handled(p, "share")
<1> DEFINE r  == connected[p]
           on == Streaming(Now, p, r, TRUE)
<1>1. CASE NotInRoom(p)
  BY <1>1, RefusedHandled DEF NotInRoom
<1>2. CASE InRoom(p)
  <2>1. Member(Now, p, r)
    BY <1>2, InRoomIsMember DEF LInv
  <2>2. /\ Safe(Now) /\ Reaches(Now, {}) /\ r \in DOMAIN Now.rooms
        /\ p \in DOMAIN Now.rooms[r].users
    BY <2>1, IInvOfNow DEF LInv, Member
  <2>3. \/ Become(Dropped(on, p))
        \/ \E n \in Serial : Become(NotifyInfoChanged(Shared(Now, p, r, n), r))
    BY <1>2 DEF StartShare, NotInRoom, Shared
  <2>4. StreamsIn(Now, on, p, r)
    BY <2>2, StreamingPasses
  <2>8. /\ \A n \in Serial : Shrinks(Now, NotifyInfoChanged(Shared(Now, p, r, n), r), p, "share")
        /\ Shrinks(Now, Dropped(on, p), p, "share")
    BY <2>2, <2>4, NowFields, ShareShrinks
  <2>5. ASSUME NEW n \in Serial, NEW t, t = NotifyInfoChanged(Shared(Now, p, r, n), r), Become(t)
        PROVE  Handled(p, "share")
    <3>1. Effect(Now, t, p, "share")
      BY <2>2, <2>5, ShareEffect
    <3>2. Shrinks(Now, t, p, "share")
      BY <2>5, <2>8
    <3> QED BY <2>5, <3>1, <3>2 DEF Handled, Outcomes
  <2> HIDE DEF on, r
  <2>6. Safe(on) /\ p \in DOMAIN on.connected /\ Reaches(on, {p}) /\ Passes(Now, on, p)
    BY <2>4, NowFields DEF StreamsIn
  <2>7. ASSUME NEW t, t = Dropped(on, p), Become(t) PROVE Handled(p, "share")
    <3>1. Effect(Now, t, p, "share") /\ p \notin DOMAIN t.connected
      BY <2>6, <2>7, FailedEffect
    <3>2. Shrinks(Now, t, p, "share")
      BY <2>7, <2>8
    <3> QED BY <2>7, <3>1, <3>2 DEF Handled, Outcomes
  <2> QED BY <2>3, <2>5, <2>7
<1> QED BY <1>1, <1>2 DEF StartShare

\* StopShare
LEMMA StopShareHandled ==
    ASSUME LInv, NEW p \in DOMAIN connected, StopShare(p)
    PROVE  Handled(p, "stopshare")
<1>1. CASE NotInRoom(p)
  BY <1>1, RefusedHandled DEF NotInRoom
<1>2. CASE InRoom(p) /\ Become(Stopped(Now, p, connected[p]))
  <2> DEFINE r == connected[p]
  <2>1. Member(Now, p, r)
    BY <1>2, InRoomIsMember DEF LInv
  <2>2. /\ Safe(Now) /\ r \in DOMAIN Now.rooms /\ p \in DOMAIN Now.rooms[r].users
        /\ p \in DOMAIN Now.connected /\ Now.connected[p] = r
    BY <2>1, IInvOfNow DEF LInv, Member
  <2> HIDE DEF r
  <2>3. ASSUME NEW t, t = Stopped(Now, p, r), Become(t) PROVE Handled(p, "stopshare")
    <3>1. Effect(Now, t, p, "stopshare")
      BY <2>2, <2>3, StopEffect
    <3>2. Shrinks(Now, t, p, "stopshare")
      BY <2>2, <2>3, StopShrinks
    <3> QED BY <2>3, <3>1, <3>2 DEF Handled, Outcomes
  <2> QED BY <1>2, <2>3 DEF r
<1>3. NotInRoom(p) \/ (InRoom(p) /\ Become(Stopped(Now, p, connected[p])))
  BY DEF StopShare
<1> QED BY <1>1, <1>2, <1>3

\* A message that is handed on: the loop writes it to the other end.
Passed(p, m) ==
    /\ m.sid \in Open
    /\ UNCHANGED vars
    /\ \E side, other \in Side :
        /\ m.type = "hostoffer" => side = "host" /\ other = "client"
        /\ m.type = "clientanswer" => side = "client" /\ other = "host"
        /\ m.sid[side] = p
        /\ toPage' = [toPage EXCEPT ![m.sid[other]] = Delivered(m.sid[other], <<m>>)]

\* One that is dropped; an offer or answer is not p's own for a session that is open.
Ignored(p, m) ==
    /\ UNCHANGED <<vars, toPage>>
    /\ m.type = "hostoffer" /\ m.sid.host = p => m.sid \notin Open
    /\ m.type = "clientanswer" /\ m.sid.client = p => m.sid \notin Open

\* A relay hands on, drops or refuses.
LEMMA RelayHandled ==
    ASSUME LInv, NEW p \in DOMAIN connected, NEW m, NEW side \in Side, NEW other \in Side,
           m.type = "hostoffer" => side = "host" /\ other = "client",
           m.type = "clientanswer" => side = "client" /\ other = "host",
           m.type \in {"hostoffer", "clientanswer"}, Relay(p, m, side, other)
    PROVE  \/ Handled(p, m.type) /\ Writes(p)
           \/ Passed(p, m)
           \/ Ignored(p, m)
<1>1. CASE NotInRoom(p) /\ Writes(p)
  BY <1>1, RefusedHandled DEF NotInRoom
<1>2. CASE /\ InRoom(p) /\ m.sid \in rooms[connected[p]].sessions /\ m.sid[side] = p
           /\ UNCHANGED vars
           /\ toPage' = [toPage EXCEPT ![m.sid[other]] = Delivered(m.sid[other], <<m>>)]
  <2>1. m.sid \in Open
    BY <1>2 DEF InRoom, Open
  <2> QED BY <1>2, <2>1 DEF Passed
<1>3. CASE Refused(p) /\ Writes(p)
  BY <1>3, RefusedHandled
<1>4. CASE InRoom(p) /\ m.sid \notin rooms[connected[p]].sessions /\ UNCHANGED <<vars, toPage>>
  <2>1. ASSUME m.sid \in Open, m.sid.host = p \/ m.sid.client = p PROVE FALSE
    <3>1. PICK r \in DOMAIN rooms : m.sid \in rooms[r].sessions
      BY <2>1 DEF Open
    <3>2. r = connected[p]
      BY <2>1, <3>1, IInvOfNow, NowFields, EndsConnected DEF LInv
    <3> QED BY <1>4, <3>1, <3>2
  <2> QED BY <1>4, <2>1 DEF Ignored
<1> QED BY <1>1, <1>2, <1>3, <1>4 DEF Relay

\* What the loop does with a message of a connection it knows.
LEMMA ExecutesOutcome ==
    ASSUME LInv, NEW p \in DOMAIN connected, NEW m, Executes(p, m)
    PROVE  \/ Handled(p, m.type) /\ Writes(p) /\ m.type # "enter"
           \/ Handled(p, "enter") /\ WritesOnEntering(p) /\ m.type = "enter"
           \/ Passed(p, m) /\ m.type \in {"hostoffer", "clientanswer"}
           \/ Ignored(p, m) /\ m.type \in {"hostoffer", "clientanswer"}
<1>1. CASE m.type = "enter" /\ (Create(p) \/ Join(p)) /\ WritesOnEntering(p)
  <2>1. CASE Create(p)
    BY <1>1, <2>1, CreateHandled
  <2>2. CASE Join(p)
    <3>1. PICK id \in RoomId \cup {ShortId} :
            IF connected[p] = NoRoom /\ id \in DOMAIN rooms
            THEN JoinRoom(p, id) ELSE Refused(p)
      BY <2>2 DEF Join
    <3> QED BY <1>1, <3>1, RefusedHandled, JoinRoomHandled
  <2> QED BY <1>1, <2>1, <2>2
<1>2. CASE m.type = "share" /\ StartShare(p) /\ Writes(p)
  BY <1>2, StartShareHandled
<1>3. CASE m.type = "stopshare" /\ StopShare(p) /\ Writes(p)
  BY <1>3, StopShareHandled
<1>4. CASE m.type = "disconnected" /\ Disconnected(p) /\ Writes(p)
  <2>1. Refused(p)
    BY <1>4 DEF Disconnected, Refused
  <2>2. Handled(p, m.type)
    BY <2>1, RefusedHandled
  <2> QED BY <1>4, <2>2
<1>5. CASE m.type = "hostoffer" /\ Relay(p, m, "host", "client")
  BY <1>5, RelayHandled DEF Side
<1>6. CASE m.type = "clientanswer" /\ Relay(p, m, "client", "host")
  BY <1>6, RelayHandled DEF Side
<1> QED BY <1>1, <1>2, <1>3, <1>4, <1>5, <1>6 DEF Executes

-----------------------------------------------------------------------------
\* The loop among the pages

\* A relay is one of the loop's, or hands on and leaves the loop alone.
LEMMA RelayIsRelayed ==
    ASSUME NEW p, NEW m, NEW side, NEW other, Relay(p, m, side, other)
    PROVE  Relayed(p, side) \/ UNCHANGED vars
<1>1. CASE NotInRoom(p)
  BY <1>1 DEF Relayed
<1>2. CASE /\ InRoom(p) /\ m.sid \in rooms[connected[p]].sessions
           /\ m.sid[side] # p /\ Refused(p)
  BY <1>2 DEF Relayed
<1> QED BY <1>1, <1>2 DEF Relay

\* What the pages see the loop do is a step of the loop.
LEMMA PagesStepIsStep == [PagesNext]_allVars => [Next]_vars
<1> SUFFICES ASSUME [PagesNext]_allVars PROVE [Next]_vars
  OBVIOUS
<1>1. ASSUME NEW p \in Client, Serve(p) PROVE [Next]_vars
  <2>1. CASE p \notin DOMAIN connected
    BY <1>1, <2>1 DEF Serve
  <2>2. CASE p \in DOMAIN connected
    <3> DEFINE m == Head(toServer[p])
    <3>1. Executes(p, m)
      BY <1>1, <2>2 DEF Serve
    <3> HIDE DEF m
    <3>2. Message(p) \/ UNCHANGED vars
      BY <2>2, <3>1, RelayIsRelayed DEF Executes, Message, HostOffer, ClientAnswer
    <3> QED BY <3>2 DEF Next
  <2> QED BY <2>1, <2>2
<1>2. ASSUME NEW p \in Client, PageNext(p) PROVE [Next]_vars
  <2>1. CASE Enter(p)
    BY <2>1 DEF Enter, Next
  <2>2. CASE Lose(p) \/ Quit(p) \/ LeaveRoom(p)
    BY <2>2 DEF Lose, Quit, LeaveRoom
  <2>3. CASE Receive(p)
    BY <2>3 DEF Receive, OnRoom, OnClose, OnHostSession, OnClientSession, OnHostOffer,
                OnClientAnswer, OnEndShare
  <2>4. CASE Offer(p) \/ Answer(p)
    BY <2>4 DEF Offer, Answer
  <2>5. CASE Share(p) \/ EndsShare(p) \/ HostFails(p) \/ ClientFails(p)
    BY <2>5 DEF Share, EndsShare, StopIsPressed, HostFails, ClientFails, LosesPeer
  <2> QED BY <1>2, <2>1, <2>2, <2>3, <2>4, <2>5 DEF PageNext
<1>3. CASE UNCHANGED allVars
  BY <1>3 DEF allVars, vars
<1> QED BY <1>1, <1>2, <1>3 DEF PagesNext

\* Whatever the pages do, in whatever order they are heard and however their websockets are
\* lost, the loop runs as Rooms.tla has it: all that is proved of the loop holds among them.
THEOREM PagesFollowTheLoop == PagesSpec => Spec
<1>1. PagesInit => Init
  BY DEF PagesInit
<1> QED BY <1>1, PagesStepIsStep, PTL DEF PagesSpec, Spec

\* What a room promises is kept among the pages (ScreenShare.tla).
THEOREM PagesImplementScreenShare == PagesSpec => ImplementsScreenShare
BY PagesFollowTheLoop, ServerImplementsScreenShare, PTL

\* So the ledger is right.
LEMMA PagesLedger == PagesSpec => []LInv
BY PagesFollowTheLoop, LedgerInvariant, PTL

-----------------------------------------------------------------------------
\* What is on the way

HS(s) == About("hostsession", s)
CS(s) == About("clientsession", s)
HO(s) == About("hostoffer", s)
CA(s) == About("clientanswer", s)
ES(s) == About("endshare", s)

Proper == {s \in Session : s.host # s.client}

Plain == {"enter", "share", "stopshare", "disconnected", "room", "closewriter"}
OfSessions == {"hostsession", "clientsession", "hostoffer", "clientanswer", "endshare"}
Wire == {Msg(type) : type \in Plain} \cup {About(type, s) : type \in OfSessions, s \in Proper}

\* Messages are told apart by type and session.
LEMMA Words ==
    /\ \A type : Msg(type).type = type
    /\ \A type, s : About(type, s).type = type /\ About(type, s).sid = s
    /\ \A type \in Plain : Msg(type) \in Wire
    /\ \A s \in Proper : {HS(s), CS(s), HO(s), CA(s), ES(s)} \subseteq Wire
    /\ \A s : /\ HS(s).type = "hostsession" /\ HS(s).sid = s
              /\ CS(s).type = "clientsession" /\ CS(s).sid = s
              /\ HO(s).type = "hostoffer" /\ HO(s).sid = s
              /\ CA(s).type = "clientanswer" /\ CA(s).sid = s
              /\ ES(s).type = "endshare" /\ ES(s).sid = s
<1>1. \A type : Msg(type).type = type
  BY DEF Msg
<1>2. \A type, s : About(type, s).type = type /\ About(type, s).sid = s
  BY DEF About
<1>3. \A type \in Plain : Msg(type) \in Wire
  BY DEF Wire
<1>4. \A s \in Proper : {HS(s), CS(s), HO(s), CA(s), ES(s)} \subseteq Wire
  BY DEF Wire, OfSessions, HS, CS, HO, CA, ES
<1>5. \A s : /\ HS(s).type = "hostsession" /\ HS(s).sid = s
             /\ CS(s).type = "clientsession" /\ CS(s).sid = s
             /\ HO(s).type = "hostoffer" /\ HO(s).sid = s
             /\ CA(s).type = "clientanswer" /\ CA(s).sid = s
             /\ ES(s).type = "endshare" /\ ES(s).sid = s
  BY <1>2 DEF HS, CS, HO, CA, ES
<1> QED BY <1>1, <1>2, <1>3, <1>4, <1>5

\* A message is known by its type and session.
LEMMA Spelled ==
    ASSUME NEW m \in Wire
    PROVE  /\ m.type \in Plain => m = Msg(m.type)
           /\ m.type \in OfSessions => m.sid \in Proper
           /\ m.type = "hostsession" => m = HS(m.sid)
           /\ m.type = "clientsession" => m = CS(m.sid)
           /\ m.type = "hostoffer" => m = HO(m.sid)
           /\ m.type = "clientanswer" => m = CA(m.sid)
           /\ m.type = "endshare" => m = ES(m.sid)
<1>1. CASE \E type \in Plain : m = Msg(type)
  BY <1>1, Words DEF Plain, OfSessions
<1>2. CASE \E type \in OfSessions, s \in Proper : m = About(type, s)
  BY <1>2, Words DEF Plain, OfSessions, HS, CS, HO, CA, ES
<1> QED BY <1>1, <1>2 DEF Wire

\* What the loop holds of its connections and sessions.
Loop ==
    /\ DOMAIN connected \subseteq Client
    /\ \A x \in Open : /\ x \in Proper /\ {x.host, x.client} \subseteq DOMAIN connected
                       /\ connected[x.host] # NoRoom /\ connected[x.client] # NoRoom
    /\ \A d \in Client :
        /\ told[d].open = SessionsOf(Open, d)
        /\ d \in DOMAIN connected => told[d].closes = 0
        /\ d \notin DOMAIN connected => told[d] = Gone
        /\ d \in DOMAIN connected /\ connected[d] # NoRoom => told[d].info # Empty

LEMMA LoopHolds == LInv => Loop
<1> SUFFICES ASSUME LInv PROVE Loop
  OBVIOUS
<1>1. Safe(Now) /\ Known(Now) /\ Informed(Now, {}) /\ OpenOf(Now) = Open
  BY IInvOfNow, NowFields DEF LInv, Ledger, OpenOf, Open
<1>2. DOMAIN connected \subseteq Client
  BY <1>1, NowFields DEF Safe, StateType, ConnectedType, IsMap
<1>3. \A x \in Open : /\ x \in Proper /\ {x.host, x.client} \subseteq DOMAIN connected
                      /\ connected[x.host] # NoRoom /\ connected[x.client] # NoRoom
  BY <1>1, OpenEnds, NowFields DEF Proper
<1>4. ASSUME NEW d \in Client
      PROVE  /\ told[d].open = SessionsOf(Open, d)
             /\ d \in DOMAIN connected => told[d].closes = 0
             /\ d \notin DOMAIN connected => told[d] = Gone
             /\ d \in DOMAIN connected /\ connected[d] # NoRoom => told[d].info # Empty
  <2>1. CASE d \notin DOMAIN connected
    <3>1. told[d] = Gone
      BY <1>1, <2>1, NowFields DEF Known
    <3>2. SessionsOf(Open, d) = {}
      BY <1>3, <2>1 DEF SessionsOf
    <3> QED BY <2>1, <3>1, <3>2 DEF Gone
  <2>2. CASE d \in DOMAIN connected /\ connected[d] = NoRoom
    <3>1. told[d].closes = 0 /\ told[d].open = {}
      BY <1>1, <2>2, NowFields DEF Known
    <3>2. SessionsOf(Open, d) = {}
      BY <1>3, <2>2 DEF SessionsOf
    <3> QED BY <2>2, <3>1, <3>2
  <2>3. CASE d \in DOMAIN connected /\ connected[d] # NoRoom
    <3> DEFINE r == connected[d]
    <3>1. told[d].closes = 0 /\ told[d].open = SessionsOf(rooms[r].sessions, d)
      BY <1>1, <2>3, NowFields DEF Known
    <3>2. r \in DOMAIN rooms /\ d \in DOMAIN rooms[r].users
      BY <1>1, <2>3, NowFields DEF Safe, Matches
    <3>3. told[d].info = rooms[r].users
      BY <1>1, <3>2, NowFields DEF Informed
    <3>4. told[d].info # Empty
      BY <3>2, <3>3 DEF Empty
    <3>5. \A q \in DOMAIN rooms : \A x \in rooms[q].sessions : d \in {x.host, x.client} => q = r
      BY <1>1, EndsConnected, NowFields
    <3>6. SessionsOf(Open, d) = SessionsOf(rooms[r].sessions, d)
      BY <3>2, <3>5 DEF SessionsOf, Open
    <3> QED BY <2>3, <3>1, <3>4, <3>6
  <2> QED BY <2>1, <2>2, <2>3
<1> QED BY <1>2, <1>3, <1>4 DEF Loop

-----------------------------------------------------------------------------
\* What the loop writes about a message

\* The messages about a set of sessions, one each.
LEMMA SessionQueue ==
    ASSUME NEW E \in SUBSET Proper, NEW f \in [E -> Wire],
           NEW M, \A m : m \in M <=> \E s \in E : m = f[s]
    PROVE  /\ SetToSeq(M) \in Seq(Wire)
           /\ \A m : Holds(SetToSeq(M), m) <=> \E s \in E : m = f[s]
           /\ \A m : Once(SetToSeq(M), m)
           /\ E = {} => SetToSeq(M) = <<>>
<1>1. IsFiniteSet(E)
  BY SessionIsFinite, FS_Subset DEF Proper
<1>2. IsFiniteSet(M)
  <2>1. f \in Surjection(E, M)
    BY DEF Surjection
  <2> QED BY <1>1, <2>1, FS_Surjection
<1>3. /\ SetToSeq(M) \in Seq(M)
      /\ \A m : Holds(SetToSeq(M), m) <=> m \in M
      /\ \A m : Once(SetToSeq(M), m)
  BY <1>2, SetQueue
<1>4. SetToSeq(M) \in Seq(Wire)
  <2> DEFINE q == SetToSeq(M)
  <2>1. q \in Seq(M) /\ M \subseteq Wire
    BY <1>3
  <2> HIDE DEF q
  <2>2. /\ Len(q) \in Nat /\ q \in [1..Len(q) -> M]
    BY <2>1
  <2>3. q \in [1..Len(q) -> Wire]
    BY <2>1, <2>2
  <2>4. q \in Seq(Wire)
    BY <2>2, <2>3
  <2> QED BY <2>4 DEF q
<1>5. ASSUME E = {} PROVE SetToSeq(M) = <<>>
  <2>1. M = {}
    BY <1>5
  <2> QED BY <1>3, <2>1
<1> QED BY <1>3, <1>4, <1>5

LEMMA EndedQueue ==
    ASSUME NEW E \in SUBSET Proper
    PROVE  /\ Ended(E) \in Seq(Wire)
           /\ \A m : Holds(Ended(E), m) <=> \E s \in E : m = ES(s)
           /\ E = {} => Ended(E) = <<>>
<1> DEFINE f == [s \in E |-> ES(s)]
           M == {About("endshare", s) : s \in E}
<1>1. Ended(E) = SetToSeq(M)
  BY DEF Ended
<1>2. \A m : m \in M <=> \E s \in E : m = f[s]
  BY DEF ES
<1>3. f \in [E -> Wire]
  BY Words
<1>4. \A s \in E : f[s] = ES(s)
  OBVIOUS
<1> HIDE DEF f, M
<1>5. /\ SetToSeq(M) \in Seq(Wire)
      /\ \A m : Holds(SetToSeq(M), m) <=> \E s \in E : m = f[s]
      /\ \A m : Once(SetToSeq(M), m)
      /\ E = {} => SetToSeq(M) = <<>>
  BY <1>2, <1>3, SessionQueue
<1> QED BY <1>1, <1>4, <1>5

LEMMA AnnouncedQueue ==
    ASSUME NEW A \in SUBSET Proper, NEW d, \A s \in A : d \in {s.host, s.client}
    PROVE  /\ Announced(d, A) \in Seq(Wire)
           /\ \A m : Holds(Announced(d, A), m) <=>
                \E s \in A : (s.host = d /\ m = HS(s)) \/ (s.client = d /\ m = CS(s))
           /\ \A m : Once(Announced(d, A), m)
           /\ A = {} => Announced(d, A) = <<>>
<1> DEFINE f == [s \in A |-> IF s.host = d THEN HS(s) ELSE CS(s)]
           M == {About(IF s.host = d THEN "hostsession" ELSE "clientsession", s) : s \in A}
<1>1. Announced(d, A) = SetToSeq(M)
  BY DEF Announced
<1>2. \A m : m \in M <=> \E s \in A : m = f[s]
  BY DEF HS, CS
<1>3. f \in [A -> Wire]
  BY Words
<1>4. \A s \in A : /\ s.host = d => s.client # d /\ f[s] = HS(s)
                   /\ s.host # d => s.client = d /\ f[s] = CS(s)
  BY DEF Proper
<1> HIDE DEF f, M
<1>5. /\ SetToSeq(M) \in Seq(Wire)
      /\ \A m : Holds(SetToSeq(M), m) <=> \E s \in A : m = f[s]
      /\ \A m : Once(SetToSeq(M), m)
      /\ A = {} => SetToSeq(M) = <<>>
  BY <1>2, <1>3, SessionQueue
<1> QED BY <1>1, <1>4, <1>5

\* The handling of a message, as the loop's variables show it.
Turns(p, type) ==
    /\ DOMAIN connected' \subseteq DOMAIN connected
    /\ \A d \in DOMAIN connected' : d # p \/ type # "enter" => connected'[d] = connected[d]
    /\ \A d \in DOMAIN connected :
            d # p /\ connected[d] = NoRoom => d \in DOMAIN connected'
    /\ \A d \in DOMAIN connected' :
            connected'[d] = NoRoom => told'[d].info = told[d].info
    /\ \A x \in Open \ Open' : \A d \in {x.host, x.client} \cap DOMAIN connected' :
            /\ p \in {x.host, x.client}
            /\ p \notin DOMAIN connected' \/ (type = "stopshare" /\ x.host = p)
    /\ type = "stopshare" => \A x \in Open' : x.host # p
    /\ type = "enter" /\ p \in DOMAIN connected' =>
            connected[p] = NoRoom /\ connected'[p] # NoRoom
    /\ type \in {"disconnected", "hostoffer", "clientanswer"} => p \notin DOMAIN connected'
    /\ \A d \in Sharing' : d \in Sharing \/ (type = "share" /\ d = p)
    /\ type = "stopshare" => p \notin Sharing'

LEMMA HandledTurns ==
    ASSUME NEW p, NEW type, Handled(p, type)
    PROVE  Turns(p, type)
<1>1. PICK t : Become(t) /\ Outcomes(t, p, type)
  BY DEF Handled
<1>2. /\ rooms' = t.rooms /\ connected' = t.connected /\ told' = t.told
      /\ Now.connected = connected /\ Now.told = told
  BY <1>1, NowFields DEF Become
<1>3. OpenOf(Now) = Open /\ OpenOf(t) = Open'
  BY <1>2, NowFields DEF OpenOf, Open
<1>7. Sharing = SharingOf(Now) /\ Sharing' = SharingOf(t)
  BY <1>2, NowFields DEF Sharing, SharingOf
<1>8. /\ \A d \in Sharing' : d \in Sharing \/ (type = "share" /\ d = p)
      /\ type = "stopshare" => p \notin Sharing'
  BY <1>1, <1>7 DEF Outcomes, Shrinks
<1>4. /\ Effect(Now, t, p, type)
      /\ type = "enter" /\ p \in DOMAIN connected' =>
              connected[p] = NoRoom /\ connected'[p] # NoRoom
      /\ type \in {"disconnected", "hostoffer", "clientanswer"} => p \notin DOMAIN connected'
  BY <1>1, <1>2 DEF Outcomes
<1>5. /\ DOMAIN connected' \subseteq DOMAIN connected
      /\ \A d \in DOMAIN connected' : d # p \/ type # "enter" => connected'[d] = connected[d]
      /\ \A d \in DOMAIN connected : d # p /\ connected[d] = NoRoom => d \in DOMAIN connected'
      /\ \A d \in DOMAIN connected' :
              connected'[d] = NoRoom => told'[d].info = told[d].info
  BY <1>2, <1>4 DEF Effect
<1>6. /\ \A x \in Open \ Open' : \A d \in {x.host, x.client} \cap DOMAIN connected' :
            /\ p \in {x.host, x.client}
            /\ p \notin DOMAIN connected' \/ (type = "stopshare" /\ x.host = p)
      /\ type = "stopshare" => \A x \in Open' : x.host # p
  BY <1>2, <1>3, <1>4 DEF Effect
<1> QED BY <1>4, <1>5, <1>6, <1>8 DEF Turns

\* What the loop writes to d when it handles p's message: n.
Tidings(p, type, d, n) ==
    /\ n \in Seq(Wire)
    /\ d \notin DOMAIN connected => n = <<>>
    /\ d \in DOMAIN connected /\ connected[d] = NoRoom =>
        /\ n # <<>> => Head(n) \in {Msg("room"), Msg("closewriter")}
        /\ d \in DOMAIN connected' /\ connected'[d] # NoRoom => n # <<>>
    /\ Final(n, Msg("closewriter"))
    /\ Holds(n, Msg("closewriter")) <=> d \in DOMAIN connected \ DOMAIN connected'
    /\ \A m : Holds(n, m) =>
        \/ m \in {Msg("room"), Msg("closewriter")}
        \/ \E s \in Open \ Open' : m = ES(s)
        \/ \E s \in Open' \ Open : (s.host = d /\ m = HS(s)) \/ (s.client = d /\ m = CS(s))
    /\ \A s \in Open' \ Open :
        /\ Once(n, HS(s)) /\ (s.host = d => Holds(n, HS(s)))
        /\ Once(n, CS(s)) /\ (s.client = d => Holds(n, CS(s)))
    /\ \A s \in Open \ Open' :
        /\ s.host = d => Holds(n, ES(s)) \/ Holds(n, Msg("closewriter"))
                            \/ (d = p /\ type = "stopshare")
        /\ s.client = d => Holds(n, ES(s)) \/ Holds(n, Msg("closewriter"))

\* The room message of a newcomer or a change, or none.
LEMMA RoomQueue ==
    ASSUME NEW q \in {<<>>, <<Msg("room")>>}
    PROVE  /\ q \in Seq(Wire)
           /\ \A m : Holds(q, m) <=> q # <<>> /\ m = Msg("room")
           /\ \A m : Once(q, m)
<1>1. CASE q = <<>>
  BY <1>1, EmptyQueue
<1>2. CASE q = <<Msg("room")>>
  <2>1. Msg("room") \in Wire
    BY Words DEF Plain
  <2> QED BY <1>2, <2>1, SingleQueue
<1> QED BY <1>1, <1>2

\* Those who are disconnected,
LEMMA TidingsOfTheEnd ==
    ASSUME Loop, Loop', NEW p, NEW type, Turns(p, type),
           NEW d \in Client, d \in DOMAIN connected, d \notin DOMAIN connected',
           NEW n, n = News(p, d) \/ n = NewsOnEntering(p, d)
    PROVE  Tidings(p, type, d, n)
<1> DEFINE E == IF d = p THEN {} ELSE SessionsOf(told[d].open \ told'[d].open, p)
           w == <<Msg("closewriter")>>
<1>1. told'[d].closes > told[d].closes
  BY DEF Loop, Gone
<1>2. n = (IF d = p THEN <<>> ELSE Ended(E)) \o w
  BY <1>1 DEF News, NewsOnEntering
<1>3. E \in SUBSET Proper /\ \A s \in E : s \in Open \ Open'
  <2>1. \A s \in told[d].open : s \in Open /\ s \in Proper /\ d \in {s.host, s.client}
    BY DEF Loop, SessionsOf
  <2>2. \A s \in Open' : s.host \in DOMAIN connected' /\ s.client \in DOMAIN connected'
    BY DEF Loop
  <2>3. \A s \in told[d].open : s \notin Open'
    BY <2>1, <2>2
  <2> QED BY <2>1, <2>3 DEF SessionsOf
<1> HIDE DEF E
<1>4. /\ Ended(E) \in Seq(Wire)
      /\ \A m : Holds(Ended(E), m) <=> \E s \in E : m = ES(s)
  BY <1>3, EndedQueue
<1>5. Msg("closewriter") \in Wire /\ w \in Seq(Wire)
  BY Words DEF Plain
<1> DEFINE e == IF d = p THEN <<>> ELSE Ended(E)
<1>6. e \in Seq(Wire) /\ \A m : Holds(e, m) => \E s \in E : m = ES(s)
  BY <1>4, EmptyQueue
<1>7. \A m : Holds(w, m) <=> m = Msg("closewriter")
  BY SingleQueue
<1>8. Final(w, Msg("closewriter")) /\ \A m : Once(w, m)
  BY SingleQueue
<1>9. d = p \/ e = Ended(E)
  OBVIOUS
<1>10. n = e \o w
  BY <1>2
<1>11. w # <<>> /\ Head(w) = Msg("closewriter")
  OBVIOUS
<1> HIDE DEF e, w
<1>12. /\ n \in Seq(Wire) /\ \A m : Holds(n, m) <=> Holds(e, m) \/ Holds(w, m)
       /\ ~Holds(e, Msg("closewriter")) => Final(n, Msg("closewriter"))
       /\ e = <<>> => n = w
  BY <1>5, <1>6, <1>8, <1>10, JoinedQueue
<1>13. ~Holds(e, Msg("closewriter"))
  BY <1>6, Words
<1>14. \A m : Holds(n, m) => m = Msg("closewriter") \/ \E s \in Open \ Open' : m = ES(s)
  BY <1>3, <1>6, <1>7, <1>12
<1>15. Holds(n, Msg("closewriter"))
  BY <1>7, <1>12
<1>16. ASSUME connected[d] = NoRoom PROVE n = w
  <2>1. told[d].open = {}
    BY <1>16 DEF Loop, SessionsOf
  <2>2. E = {}
    BY <2>1 DEF E, SessionsOf
  <2>3. e = <<>>
    BY <2>2, EndedQueue DEF e
  <2> QED BY <1>12, <2>3
<1>17. \A s \in Open' \ Open : ~Holds(n, HS(s)) /\ ~Holds(n, CS(s)) /\ s.client # d /\ s.host # d
  BY <1>14, Words DEF Loop
<1>18. \A s \in Open' \ Open : Once(n, HS(s)) /\ Once(n, CS(s))
  BY <1>17 DEF Once, Holds
<1> QED BY <1>11, <1>12, <1>13, <1>14, <1>15, <1>16, <1>17, <1>18 DEF Tidings

\* those the loop does not know,
LEMMA TidingsOfStrangers ==
    ASSUME Loop, Loop', NEW p, NEW type, Turns(p, type),
           NEW d \in Client, d \notin DOMAIN connected,
           NEW n, n = News(p, d) \/ n = NewsOnEntering(p, d)
    PROVE  Tidings(p, type, d, n)
<1>1. d \notin DOMAIN connected' /\ told'[d] = Gone /\ told[d] = Gone
  BY DEF Turns, Loop
<1>2. n = <<>>
  <2>1. Ended({}) = <<>> /\ Announced(d, {}) = <<>>
    BY EndedQueue, AnnouncedQueue
  <2>2. SessionsOf(told[d].open \ told'[d].open, p) = {} /\ told'[d].open \ told[d].open = {}
    BY <1>1 DEF Gone, SessionsOf
  <2>3. ~(told'[d].closes > told[d].closes)
    BY <1>1 DEF Gone
  <2>4. <<>> \o <<>> \o <<>> = <<>> /\ <<>> \o <<>> = <<>>
    OBVIOUS
  <2> QED BY <1>1, <2>1, <2>2, <2>3, <2>4 DEF News, NewsOnEntering
<1>3. \A s \in Open \cup Open' : s.host # d /\ s.client # d
  BY <1>1 DEF Loop
<1>4. n \in Seq(Wire) /\ \A m : ~Holds(n, m) /\ Once(n, m) /\ Final(n, m)
  BY <1>2, EmptyQueue
<1> QED BY <1>1, <1>2, <1>3, <1>4 DEF Tidings

\* and those who stay.
LEMMA TidingsOfThoseWhoStay ==
    ASSUME Loop, Loop', NEW p, NEW type, Turns(p, type),
           type = "enter" /\ p \in DOMAIN connected => connected[p] = NoRoom,
           NEW d \in Client, d \in DOMAIN connected, d \in DOMAIN connected',
           connected[d] = NoRoom => told[d].info = Empty,
           p \in DOMAIN connected,
           NEW n, \/ type # "enter" /\ n = News(p, d)
                  \/ type = "enter" /\ n = NewsOnEntering(p, d)
    PROVE  Tidings(p, type, d, n)
<1> DEFINE old == told[d].open \ told'[d].open
           E  == IF d = p THEN {} ELSE SessionsOf(old, p)
           A  == told'[d].open \ told[d].open
           e  == IF d = p THEN <<>> ELSE Ended(SessionsOf(old, p))
           a  == Announced(d, A)
           rm == IF told'[d].info = told[d].info THEN <<>> ELSE <<Msg("room")>>
<1>1. ~(told'[d].closes > told[d].closes)
  BY DEF Loop
<1>2. type # "enter" => n = e \o a \o rm
  BY <1>1 DEF News
<1>3. type = "enter" => n = rm \o a
  BY <1>1 DEF NewsOnEntering
<1>4. \A s : s \in E => s \in Open \ Open' /\ s \in Proper
  BY DEF Loop, SessionsOf
<1>5. \A s : s \in A <=> s \in Open' \ Open /\ d \in {s.host, s.client}
  BY DEF Loop, SessionsOf
<1>6. A \in SUBSET Proper /\ \A s \in A : d \in {s.host, s.client}
  BY <1>5 DEF Loop
<1>7. rm \in Seq(Wire) /\ \A m : Holds(rm, m) <=> rm # <<>> /\ m = Msg("room")
  BY RoomQueue
<1>8. /\ a \in Seq(Wire) /\ \A m : Once(a, m)
      /\ \A m : Holds(a, m) <=>
            \E s \in A : (s.host = d /\ m = HS(s)) \/ (s.client = d /\ m = CS(s))
      /\ A = {} => a = <<>>
  BY <1>6, AnnouncedQueue
<1>9. /\ e \in Seq(Wire) /\ \A m : Holds(e, m) <=> \E s \in E : m = ES(s)
      /\ E = {} => e = <<>>
  <2>1. CASE d = p
    BY <2>1, EmptyQueue
  <2>2. CASE d # p
    <3>1. E \in SUBSET Proper /\ E = SessionsOf(old, p)
      BY <1>4, <2>2
    <3> HIDE DEF old, E
    <3> QED BY <2>2, <3>1, EndedQueue
  <2> QED BY <2>1, <2>2
<1>10. \A s \in Open \ Open' : s.host = d => s \in E \/ (d = p /\ type = "stopshare")
  BY DEF Loop, Turns, SessionsOf
<1>25. \A s \in Open \ Open' : s.client = d => s \in E
  BY DEF Loop, Turns, SessionsOf, Proper
<1>11. \A s \in Open \ Open' : s.host = d \/ s.client = d => type # "enter"
  BY DEF Loop, Turns
<1>12. ASSUME connected[d] = NoRoom
       PROVE  /\ E = {}
              /\ connected'[d] = NoRoom => A = {} /\ rm = <<>>
              /\ connected'[d] # NoRoom => rm = <<Msg("room")>> /\ type = "enter"
  <2>1. told[d].open = {}
    BY <1>12 DEF Loop, SessionsOf
  <2>2. E = {}
    BY <2>1 DEF SessionsOf
  <2>3. ASSUME connected'[d] = NoRoom PROVE A = {} /\ rm = <<>>
    <3>1. told'[d].open = {}
      BY <2>3 DEF Loop, SessionsOf
    <3> QED BY <2>3, <3>1 DEF Turns
  <2>4. ASSUME connected'[d] # NoRoom PROVE rm = <<Msg("room")>> /\ type = "enter"
    BY <1>12, <2>4 DEF Loop, Turns
  <2> QED BY <2>2, <2>3, <2>4
<1> HIDE DEF old, E, A, e, a, rm
<1>13. /\ e \o a \in Seq(Wire) /\ \A m : Holds(e \o a, m) <=> Holds(e, m) \/ Holds(a, m)
       /\ \A m : Once(a, m) /\ Once(e, m) /\ ~(Holds(e, m) /\ Holds(a, m)) => Once(e \o a, m)
       /\ e = <<>> => e \o a = a
  BY <1>8, <1>9, JoinedQueue
<1>14. /\ e \o a \o rm \in Seq(Wire)
       /\ \A m : Holds(e \o a \o rm, m) <=> Holds(e, m) \/ Holds(a, m) \/ Holds(rm, m)
       /\ \A m : Once(e \o a, m) /\ Once(rm, m) /\ ~(Holds(e \o a, m) /\ Holds(rm, m))
                    => Once(e \o a \o rm, m)
       /\ rm = <<>> => e \o a \o rm = e \o a
  <2> DEFINE q == e \o a
  <2>1. q \in Seq(Wire) /\ rm \in Seq(Wire) /\ \A m : Holds(q, m) <=> Holds(e, m) \/ Holds(a, m)
    BY <1>7, <1>13
  <2> HIDE DEF q
  <2>2. /\ q \o rm \in Seq(Wire)
        /\ \A m : Holds(q \o rm, m) <=> Holds(q, m) \/ Holds(rm, m)
        /\ \A m : Once(q, m) /\ Once(rm, m) /\ ~(Holds(q, m) /\ Holds(rm, m)) => Once(q \o rm, m)
        /\ rm = <<>> => q \o rm = q
    BY <2>1, JoinedQueue
  <2> QED BY <2>1, <2>2 DEF q
<1>15. /\ rm \o a \in Seq(Wire)
       /\ \A m : Holds(rm \o a, m) <=> Holds(rm, m) \/ Holds(a, m)
       /\ \A m : Once(a, m) /\ Once(rm, m) /\ ~(Holds(rm, m) /\ Holds(a, m)) => Once(rm \o a, m)
       /\ rm # <<>> => rm \o a # <<>> /\ Head(rm \o a) = Head(rm)
       /\ rm = <<>> => rm \o a = a
  BY <1>7, <1>8, JoinedQueue
<1>16. /\ n \in Seq(Wire)
       /\ \A m : Holds(n, m) => Holds(e, m) \/ Holds(a, m) \/ Holds(rm, m)
       /\ \A m : Holds(a, m) => Holds(n, m)
       /\ \A m : type # "enter" /\ Holds(e, m) => Holds(n, m)
  BY <1>2, <1>3, <1>14, <1>15
<1>17. \A m : Holds(n, m) =>
           \/ m = Msg("room")
           \/ \E s \in Open \ Open' : m = ES(s)
           \/ \E s \in Open' \ Open : (s.host = d /\ m = HS(s)) \/ (s.client = d /\ m = CS(s))
  BY <1>4, <1>5, <1>7, <1>8, <1>9, <1>16
<1>18. ~Holds(n, Msg("closewriter")) /\ Final(n, Msg("closewriter"))
  <2>1. ~Holds(n, Msg("closewriter"))
    BY <1>17, Words
  <2> QED BY <2>1 DEF Final, Holds
<1>19. \A s : \A m \in {HS(s), CS(s)} : ~Holds(e, m) /\ ~Holds(rm, m)
  BY <1>7, <1>9, Words
<1>20. \A s : \A m \in {HS(s), CS(s)} : Once(e, m) /\ Once(rm, m)
  BY <1>19 DEF Holds, Once
<1>21. \A s : Once(n, HS(s)) /\ Once(n, CS(s))
  <2> SUFFICES ASSUME NEW s, NEW m \in {HS(s), CS(s)} PROVE Once(n, m)
    OBVIOUS
  <2>1. Once(e \o a, m)
    BY <1>8, <1>13, <1>19, <1>20
  <2>2. Once(e \o a \o rm, m)
    BY <1>14, <1>19, <1>20, <2>1
  <2>3. Once(rm \o a, m)
    BY <1>8, <1>15, <1>19, <1>20
  <2> QED BY <1>2, <1>3, <2>2, <2>3
<1>22. \A s \in Open' \ Open : (s.host = d => Holds(n, HS(s))) /\ (s.client = d => Holds(n, CS(s)))
  BY <1>5, <1>8, <1>16
<1>23. \A s \in Open \ Open' :
          /\ s.host = d => Holds(n, ES(s)) \/ (d = p /\ type = "stopshare")
          /\ s.client = d => Holds(n, ES(s))
  BY <1>9, <1>10, <1>11, <1>16, <1>25
<1>24. ASSUME connected[d] = NoRoom
       PROVE  /\ n # <<>> => Head(n) \in {Msg("room"), Msg("closewriter")}
              /\ connected'[d] # NoRoom => n # <<>>
  <2>1. e = <<>>
    BY <1>9, <1>12, <1>24
  <2>2. CASE connected'[d] = NoRoom
    <3>1. a = <<>> /\ rm = <<>>
      BY <1>8, <1>12, <1>24, <2>2
    <3> QED BY <1>2, <1>3, <1>13, <1>14, <1>15, <2>1, <2>2, <3>1
  <2>3. CASE connected'[d] # NoRoom
    <3>1. rm = <<Msg("room")>> /\ n = rm \o a
      BY <1>3, <1>12, <1>24, <2>3
    <3>2. rm # <<>> /\ Head(rm) = Msg("room")
      BY <3>1
    <3> QED BY <1>15, <3>1, <3>2
  <2> QED BY <2>2, <2>3
<1> QED BY <1>16, <1>17, <1>18, <1>21, <1>22, <1>23, <1>24 DEF Tidings

-----------------------------------------------------------------------------
\* The story of a session

\* Of the two ends of session s: H is the host's page, a what it has written and i what it
\* has yet to read; C, b and j are the client's.  O are the sessions that are open.

EndIn(i, s) == Holds(i, ES(s)) \/ Holds(i, Msg("closewriter"))

Hosts(H, s) == s \in DOMAIN H.hosts \cup H.offering
Streams(H, s) == s \in DOMAIN H.hosts /\ H.hosts[s] = "connected"
Waits(C, s) == s \in DOMAIN C.clients /\ C.clients[s] = "new"
Answered(C, s) == s \in DOMAIN C.clients /\ C.clients[s] = "answered"
Shut(C, s) == s \in DOMAIN C.clients /\ C.clients[s] = "closed"

\* A session is announced to its host once, and neither offered nor answered until the host
\* has made its offer.
Unoffered(s, H, a, i, C, b, j) ==
    /\ s \notin DOMAIN H.hosts
    /\ ~Holds(a, HO(s)) /\ ~Holds(j, HO(s))
    /\ s \notin C.answering /\ ~Answered(C, s)
    /\ ~Holds(b, CA(s)) /\ ~Holds(i, CA(s))

OneSession(s, H, a, i, C, b, j) ==
    /\ Once(i, HS(s))
    /\ Holds(i, HS(s)) => s \notin H.offering
    /\ Holds(i, HS(s)) \/ s \in H.offering => Unoffered(s, H, a, i, C, b, j)

\* It is offered once, and not answered until the offer has come.
OneOffer(s, a, C, j) ==
    /\ Once(a, HO(s)) /\ Once(j, HO(s))
    /\ ~(Holds(a, HO(s)) /\ Holds(j, HO(s)))
    /\ Holds(a, HO(s)) \/ Holds(j, HO(s)) => s \notin C.answering /\ ~Answered(C, s)

\* Its client waits for the offer or is told to first, and is not told of the end before.
Awaited(s, O, H, a, i, C, j) ==
    /\ s \in O => ~Holds(j, ES(s)) /\ ~Shut(C, s)
    /\ C.phase # "shut" =>
        /\ s \in O /\ (Holds(i, HS(s)) \/ s \in H.offering \/ Holds(a, HO(s))) =>
                Waits(C, s) \/ Holds(j, CS(s))
        /\ Waits(C, s) \/ Led(j, HO(s), CS(s))
        /\ Free(j, HO(s), ES(s))

\* Nothing that is on the way makes the host send to the client: an offer that is yet to come
\* to the loop comes after the end of the share.
Barred(s, O, H, a, i, C, b, j) ==
    /\ ~Holds(j, HO(s)) /\ s \notin C.answering
    /\ ~Holds(b, CA(s)) /\ ~Holds(i, CA(s))
    /\ ~Streams(H, s)
    /\ s \notin O \/ Shields(a, Msg("stopshare"), HO(s))

Stopping(s, O, H, a, i, C, b, j) ==
    H.phase = "in" /\ Hosts(H, s) =>
        /\ ~H.stream => Barred(s, O, H, a, i, C, b, j)
        /\ s \in O /\ Holds(a, Msg("stopshare")) => Barred(s, O, H, a, i, C, b, j)

\* A host that sends, or is about to, does so over an open session or is told of its end.
Sending(s, O, H, i) ==
    H.phase = "in" /\ Live(H.hosts, s) /\ (Streams(H, s) \/ Holds(i, CA(s))) =>
        s \in O \/ EndIn(i, s)

Story(s, O, H, a, i, C, b, j) ==
    /\ OneSession(s, H, a, i, C, b, j)
    /\ OneOffer(s, a, C, j)
    /\ Awaited(s, O, H, a, i, C, j)
    /\ Stopping(s, O, H, a, i, C, b, j)
    /\ Sending(s, O, H, i)

\* The host's side becomes G, d and k: nothing more of s is there, and a stop, an end or a
\* shield that was there still is.
HostKeeps(s, O, H, a, i, G, d, k) ==
    /\ Holds(k, HS(s)) => Holds(i, HS(s))
    /\ Once(i, HS(s)) => Once(k, HS(s))
    /\ s \in G.offering => s \in H.offering
    /\ s \in DOMAIN G.hosts => s \in DOMAIN H.hosts /\ G.hosts[s] \in {H.hosts[s], "closed"}
    /\ Holds(d, HO(s)) => Holds(a, HO(s))
    /\ Once(a, HO(s)) => Once(d, HO(s))
    /\ Holds(k, CA(s)) => Holds(i, CA(s))
    /\ G.phase = "in" /\ Hosts(G, s) =>
        /\ H.phase = "in"
        /\ G.stream \/ ~H.stream
        /\ s \in O /\ Holds(d, Msg("stopshare")) => Holds(a, Msg("stopshare"))
        /\ s \in O /\ Shields(a, Msg("stopshare"), HO(s)) => Shields(d, Msg("stopshare"), HO(s))
        /\ EndIn(i, s) => EndIn(k, s) \/ ~Live(G.hosts, s)

LEMMA HostKeepsStory ==
    ASSUME NEW s, NEW O, NEW H, NEW a, NEW i, NEW C, NEW b, NEW j,
           NEW G, NEW d, NEW k, HostKeeps(s, O, H, a, i, G, d, k),
           Story(s, O, H, a, i, C, b, j)
    PROVE  Story(s, O, G, d, k, C, b, j)
<1>1. OneSession(s, G, d, k, C, b, j)
  BY DEF HostKeeps, Story, OneSession, Unoffered
<1>2. OneOffer(s, d, C, j)
  BY DEF HostKeeps, Story, OneOffer
<1>3. Awaited(s, O, G, d, k, C, j)
  BY DEF HostKeeps, Story, Awaited
<1>4. Hosts(G, s) => Hosts(H, s)
  BY DEF HostKeeps, Hosts
<1>5. (Streams(G, s) => Streams(H, s)) /\ (Live(G.hosts, s) => Live(H.hosts, s))
  BY DEF HostKeeps, Streams, Live
<1>6. ASSUME G.phase = "in", Hosts(G, s), Barred(s, O, H, a, i, C, b, j)
      PROVE  Barred(s, O, G, d, k, C, b, j)
  BY <1>5, <1>6 DEF HostKeeps, Barred
<1>7. Stopping(s, O, G, d, k, C, b, j)
  BY <1>4, <1>6 DEF HostKeeps, Story, Stopping
<1>8. Live(G.hosts, s) => Hosts(G, s)
  BY DEF Live, Hosts
<1>9. Sending(s, O, G, k)
  BY <1>5, <1>8 DEF HostKeeps, Story, Sending
<1> QED BY <1>1, <1>2, <1>3, <1>7, <1>9 DEF Story

\* The same of the client's side.
ClientKeeps(s, O, C, b, j, D, e, l) ==
    /\ Holds(l, HO(s)) => Holds(j, HO(s))
    /\ Once(j, HO(s)) => Once(l, HO(s))
    /\ s \in D.answering => s \in C.answering
    /\ Answered(D, s) => Answered(C, s)
    /\ Holds(e, CA(s)) => Holds(b, CA(s))
    /\ s \in O /\ Shut(D, s) => Shut(C, s)
    /\ s \in O /\ Holds(l, ES(s)) => Holds(j, ES(s))
    /\ D.phase # "shut" =>
        /\ C.phase # "shut"
        /\ s \in O /\ (Waits(C, s) \/ Holds(j, CS(s))) => Waits(D, s) \/ Holds(l, CS(s))
        /\ Waits(C, s) \/ Led(j, HO(s), CS(s)) => Waits(D, s) \/ Led(l, HO(s), CS(s))
        /\ Free(j, HO(s), ES(s)) => Free(l, HO(s), ES(s))

LEMMA ClientKeepsStory ==
    ASSUME NEW s, NEW O, NEW H, NEW a, NEW i, NEW C, NEW b, NEW j,
           NEW D, NEW e, NEW l, ClientKeeps(s, O, C, b, j, D, e, l),
           Story(s, O, H, a, i, C, b, j)
    PROVE  Story(s, O, H, a, i, D, e, l)
<1>1. OneSession(s, H, a, i, D, e, l)
  BY DEF ClientKeeps, Story, OneSession, Unoffered
<1>2. OneOffer(s, a, D, l)
  BY DEF ClientKeeps, Story, OneOffer
<1>3. Awaited(s, O, H, a, i, D, l)
  BY DEF ClientKeeps, Story, Awaited
<1>4. Barred(s, O, H, a, i, C, b, j) => Barred(s, O, H, a, i, D, e, l)
  BY DEF ClientKeeps, Barred
<1>5. Stopping(s, O, H, a, i, D, e, l)
  BY <1>4 DEF Story, Stopping
<1> QED BY <1>1, <1>2, <1>3, <1>5 DEF Story

\* Of the sessions that are open only s itself matters; when it ends, a host that sends must
\* be told of it.
LEMMA StoryOfTheSame ==
    ASSUME NEW s, NEW O, NEW P, (s \in O) <=> (s \in P),
           NEW H, NEW a, NEW i, NEW C, NEW b, NEW j, Story(s, O, H, a, i, C, b, j)
    PROVE  Story(s, P, H, a, i, C, b, j)
BY DEF Story, Awaited, Stopping, Barred, Sending

LEMMA StoryOfTheEnded ==
    ASSUME NEW s, NEW O, NEW P, s \notin P,
           NEW H, NEW a, NEW i, NEW C, NEW b, NEW j, Story(s, O, H, a, i, C, b, j),
           H.phase = "in" /\ Live(H.hosts, s) /\ (Streams(H, s) \/ Holds(i, CA(s))) => EndIn(i, s)
    PROVE  Story(s, P, H, a, i, C, b, j)
BY DEF Story, Awaited, Stopping, Barred, Sending

\* The story of a session nobody has heard of.
LEMMA StoryOfTheNew ==
    ASSUME NEW s, NEW O, NEW H, NEW a, NEW i, NEW C, NEW b, NEW j,
           ~Hosts(H, s), ~Holds(a, HO(s)), ~Holds(j, HO(s)), s \notin C.answering,
           s \notin DOMAIN C.clients, ~Holds(b, CA(s)), ~Holds(i, CA(s)), ~Holds(j, ES(s)),
           Once(i, HS(s)),
           C.phase # "shut" => Holds(j, CS(s)) \/ ~Holds(i, HS(s))
    PROVE  Story(s, O, H, a, i, C, b, j)
<1>1. s \notin DOMAIN H.hosts /\ s \notin H.offering
  BY DEF Hosts
<1>2. ~Waits(C, s) /\ ~Answered(C, s) /\ ~Shut(C, s)
  BY DEF Waits, Answered, Shut
<1>3. Once(a, HO(s)) /\ Once(j, HO(s)) /\ Led(j, HO(s), CS(s)) /\ Free(j, HO(s), ES(s))
  BY DEF Holds, Once, Led, Free
<1>4. OneSession(s, H, a, i, C, b, j)
  BY <1>1, <1>2 DEF OneSession, Unoffered
<1>5. OneOffer(s, a, C, j)
  BY <1>3 DEF OneOffer
<1>6. Awaited(s, O, H, a, i, C, j)
  BY <1>1, <1>2, <1>3 DEF Awaited
<1>7. Stopping(s, O, H, a, i, C, b, j)
  BY DEF Stopping
<1>8. Sending(s, O, H, i)
  BY <1>1 DEF Sending, Live
<1> QED BY <1>4, <1>5, <1>6, <1>7, <1>8 DEF Story

-----------------------------------------------------------------------------
\* The invariant

\* A page's websocket and what the loop has of it: K is connected, T told.  A page connects
\* once, comes into a room with a message on its way to it, and hears nothing after the end.
InPhase(p, K, T, g, a, i) ==
    /\ g.phase = "away" => p \notin DOMAIN K /\ a = <<>> /\ i = <<>>
    /\ g.phase \in {"away", "opening"} => g = [Away EXCEPT !.phase = g.phase]
    /\ g.phase = "shut" => i = <<>>
    /\ Final(i, Msg("closewriter")) /\ (Holds(i, Msg("closewriter")) => p \notin DOMAIN K)
    /\ g.phase = "opening" /\ p \in DOMAIN K => K[p] = NoRoom \/ i # <<>>
    /\ g.phase = "opening" /\ i # <<>> => Head(i).type \in {"room", "closewriter"}
    /\ Once(a, Msg("enter")) /\ (Holds(a, Msg("enter")) /\ p \in DOMAIN K => K[p] = NoRoom)
    /\ p \in DOMAIN K /\ K[p] = NoRoom => T[p].info = Empty

\* What a page has of its own sessions is where it belongs.
Placed(p, g, i) ==
    /\ \A s \in g.offering \cup DOMAIN g.hosts : s \in Proper /\ s.host = p
    /\ \A s : Holds(i, HS(s)) => s.host = p
    /\ \A s : Holds(i, HO(s)) => s.client = p
    /\ g.answering \subseteq Proper

Silent(g) == ~g.stream => \A s \in DOMAIN g.hosts : g.hosts[s] # "connected"

PagesType ==
    /\ shares \in 0..MaxShares
    /\ page = [p \in Client |-> page[p]]
    /\ \A p \in Client : IsPage(page[p])
    /\ toServer \in [Client -> Seq(Wire)]
    /\ toPage \in [Client -> Seq(Wire)]

StoryOf(s) ==
    Story(s, Open, page[s.host], toServer[s.host], toPage[s.host],
          page[s.client], toServer[s.client], toPage[s.client])

PagesInv ==
    /\ PagesType
    /\ \A p \in Client :
        /\ InPhase(p, connected, told, page[p], toServer[p], toPage[p])
        /\ Placed(p, page[p], toPage[p])
        /\ Silent(page[p])
    /\ \A s \in Proper : StoryOf(s)

\* p's page becomes g, what it has written a, and what it has yet to read i; nobody else does.
PageBecomes(p, g, a, i) ==
    /\ page' = [page EXCEPT ![p] = g]
    /\ toServer' = [toServer EXCEPT ![p] = a]
    /\ toPage' = [toPage EXCEPT ![p] = i]

\* Which is as it should be.
Fits(p, g, a, i) ==
    /\ IsPage(g) /\ a \in Seq(Wire) /\ i \in Seq(Wire)
    /\ Placed(p, g, i) /\ Silent(g)
    /\ \A s \in Proper : s.host = p =>
        \A C, b, j : Story(s, Open, page[p], toServer[p], toPage[p], C, b, j)
                        => Story(s, Open, g, a, i, C, b, j)
    /\ \A s \in Proper : s.client = p =>
        \A H, d, k : Story(s, Open, H, d, k, page[p], toServer[p], toPage[p])
                        => Story(s, Open, H, d, k, g, a, i)

\* A step of p's page keeps the invariant.
LEMMA PageStep ==
    ASSUME PagesInv, NEW p \in Client, NEW g, NEW a, NEW i,
           PageBecomes(p, g, a, i), Fits(p, g, a, i), InPhase(p, connected', told', g, a, i),
           \A d \in Client \ {p} :
                /\ d \in DOMAIN connected' <=> d \in DOMAIN connected
                /\ d \in DOMAIN connected => connected'[d] = connected[d]
                /\ told'[d] = told[d],
           Open' = Open, shares' \in 0..MaxShares
    PROVE  PagesInv'
<1>1. /\ page = [d \in Client |-> page[d]] /\ toServer \in [Client -> Seq(Wire)]
      /\ toPage \in [Client -> Seq(Wire)] /\ \A d \in Client : IsPage(page[d])
  BY DEF PagesInv, PagesType
<1>2. /\ page'[p] = g /\ toServer'[p] = a /\ toPage'[p] = i
      /\ \A d \in Client \ {p} :
            page'[d] = page[d] /\ toServer'[d] = toServer[d] /\ toPage'[d] = toPage[d]
  BY <1>1 DEF PageBecomes
<1>3. PagesType'
  <2>1. page' = [d \in Client |-> page'[d]]
    BY <1>1 DEF PageBecomes
  <2>2. \A d \in Client : IsPage(page'[d])
    BY <1>1, <1>2 DEF Fits
  <2>3. toServer' \in [Client -> Seq(Wire)] /\ toPage' \in [Client -> Seq(Wire)]
    BY <1>1 DEF PageBecomes, Fits
  <2> QED BY <2>1, <2>2, <2>3 DEF PagesType
<1>4. ASSUME NEW d \in Client
      PROVE  /\ InPhase(d, connected', told', page'[d], toServer'[d], toPage'[d])
             /\ Placed(d, page'[d], toPage'[d]) /\ Silent(page'[d])
  <2>1. CASE d = p
    BY <1>2, <2>1 DEF Fits
  <2>2. CASE d # p
    <3>1. /\ InPhase(d, connected, told, page[d], toServer[d], toPage[d])
          /\ Placed(d, page[d], toPage[d]) /\ Silent(page[d])
      BY DEF PagesInv
    <3>2. InPhase(d, connected', told', page[d], toServer[d], toPage[d])
      BY <2>2, <3>1 DEF InPhase
    <3> QED BY <1>2, <2>2, <3>1, <3>2
  <2> QED BY <2>1, <2>2
<1>5. ASSUME NEW s \in Proper
      PROVE  Story(s, Open, page'[s.host], toServer'[s.host], toPage'[s.host],
                   page'[s.client], toServer'[s.client], toPage'[s.client])
  <2>1. /\ s.host \in Client /\ s.client \in Client /\ s.host # s.client
        /\ Story(s, Open, page[s.host], toServer[s.host], toPage[s.host],
                 page[s.client], toServer[s.client], toPage[s.client])
    BY DEF Proper, Session, PagesInv, StoryOf
  <2>2. CASE s.host = p
    <3>1. Story(s, Open, g, a, i, page[s.client], toServer[s.client], toPage[s.client])
      BY <2>1, <2>2 DEF Fits
    <3> QED BY <1>2, <2>1, <2>2, <3>1
  <2>3. CASE s.client = p
    <3>1. Story(s, Open, page[s.host], toServer[s.host], toPage[s.host], g, a, i)
      BY <2>1, <2>3 DEF Fits
    <3> QED BY <1>2, <2>1, <2>3, <3>1
  <2>4. CASE s.host # p /\ s.client # p
    BY <1>2, <2>1, <2>4
  <2> QED BY <2>2, <2>3, <2>4
<1>6. ASSUME NEW s \in Proper PROVE StoryOf(s)'
  BY <1>5 DEF StoryOf
<1> QED BY <1>3, <1>4, <1>6 DEF PagesInv

\* In particular one that leaves the loop alone.
LEMMA QuietPageStep ==
    ASSUME PagesInv, NEW p \in Client, NEW g, NEW a, NEW i,
           PageBecomes(p, g, a, i), Fits(p, g, a, i), InPhase(p, connected, told, g, a, i),
           UNCHANGED <<vars, shares>>
    PROVE  PagesInv'
<1>1. connected' = connected /\ told' = told /\ rooms' = rooms /\ shares' = shares
  BY DEF vars
<1>2. Open' = Open
  BY <1>1 DEF Open
<1>3. shares' \in 0..MaxShares
  BY <1>1 DEF PagesInv, PagesType
<1> QED BY <1>1, <1>2, <1>3, PageStep

-----------------------------------------------------------------------------
\* Reading, writing and neither

\* A host's page has no more of s than before, a client's neither, and waits as it did.
HostLess(s, H, G) ==
    /\ s \in G.offering => s \in H.offering
    /\ s \in DOMAIN G.hosts => s \in DOMAIN H.hosts /\ G.hosts[s] \in {H.hosts[s], "closed"}
    /\ G.phase = "in" /\ Hosts(G, s) => H.phase = "in" /\ (G.stream \/ ~H.stream)

ClientLess(s, C, D) ==
    /\ s \in D.answering => s \in C.answering
    /\ Answered(D, s) => Answered(C, s)
    /\ Shut(D, s) => Shut(C, s)
    /\ D.phase # "shut" => C.phase # "shut" /\ (Waits(C, s) => Waits(D, s))

LEMMA SameLess == \A s, H : HostLess(s, H, H) /\ ClientLess(s, H, H)
BY DEF HostLess, ClientLess

LEMMA HostStill ==
    ASSUME NEW s, NEW O, NEW H, NEW a, NEW i, NEW G, HostLess(s, H, G)
    PROVE  HostKeeps(s, O, H, a, i, G, a, i)
BY DEF HostLess, HostKeeps

LEMMA ClientStill ==
    ASSUME NEW s, NEW O, NEW C, NEW b, NEW j, NEW D, ClientLess(s, C, D)
    PROVE  ClientKeeps(s, O, C, b, j, D, b, j)
BY DEF ClientLess, ClientKeeps

\* The first message is read.
LEMMA HostReads ==
    ASSUME NEW s, NEW O, NEW H, NEW a, NEW i \in Seq(Wire), i # <<>>, NEW G, HostLess(s, H, G),
           Head(i) \in {ES(s), Msg("closewriter")} => G.phase # "in" \/ ~Live(G.hosts, s)
    PROVE  HostKeeps(s, O, H, a, i, G, a, Tail(i))
<1>1. /\ \A m : Holds(Tail(i), m) => Holds(i, m)
      /\ \A m : Holds(i, m) => m = Head(i) \/ Holds(Tail(i), m)
      /\ \A m : Once(i, m) => Once(Tail(i), m)
  BY TailQueue
<1>2. G.phase = "in" /\ EndIn(i, s) => EndIn(Tail(i), s) \/ ~Live(G.hosts, s)
  BY <1>1 DEF EndIn
<1> QED BY <1>1, <1>2 DEF HostLess, HostKeeps

LEMMA ClientReads ==
    ASSUME NEW s, NEW O, NEW C, NEW b, NEW j \in Seq(Wire), j # <<>>, NEW D, ClientLess(s, C, D),
           Head(j) # CS(s)
    PROVE  ClientKeeps(s, O, C, b, j, D, b, Tail(j))
<1>1. /\ \A m : Holds(Tail(j), m) => Holds(j, m)
      /\ \A m : Holds(j, m) => m = Head(j) \/ Holds(Tail(j), m)
      /\ \A m : Once(j, m) => Once(Tail(j), m)
  BY TailQueue
<1>2. Led(j, HO(s), CS(s)) => Led(Tail(j), HO(s), CS(s))
  BY TailOrder
<1>3. Free(j, HO(s), ES(s)) => Free(Tail(j), HO(s), ES(s))
  BY TailOrder
<1> QED BY <1>1, <1>2, <1>3 DEF ClientLess, ClientKeeps

\* Nothing more is read.
LEMMA HostGone ==
    ASSUME NEW s, NEW O, NEW H, NEW a, NEW i, NEW G, HostLess(s, H, G), G.phase # "in",
           NEW d, Holds(d, HO(s)) => Holds(a, HO(s)), Once(a, HO(s)) => Once(d, HO(s))
    PROVE  HostKeeps(s, O, H, a, i, G, d, <<>>)
BY EmptyQueue DEF HostLess, HostKeeps

LEMMA ClientGone ==
    ASSUME NEW s, NEW O, NEW C, NEW b, NEW j, NEW D, ClientLess(s, C, D), D.phase = "shut",
           NEW e, Holds(e, CA(s)) => Holds(b, CA(s))
    PROVE  ClientKeeps(s, O, C, b, j, D, e, <<>>)
BY EmptyQueue DEF ClientLess, ClientKeeps

\* Something else is written.
LEMMA HostWrites ==
    ASSUME NEW s, NEW O, NEW H, NEW a \in Seq(Wire), NEW i, NEW G, HostLess(s, H, G),
           NEW m \in Wire, m # HO(s), m # Msg("stopshare"), NEW d, d = a \/ d = Append(a, m)
    PROVE  HostKeeps(s, O, H, a, i, G, d, i)
<1>1. CASE d = a
  BY <1>1, HostStill
<1>2. CASE d = Append(a, m)
  <2>1. d = a \o <<m>> /\ <<m>> \in Seq(Wire)
    BY <1>2, AppendedQueue
  <2>2. \A n : Holds(<<m>>, n) <=> n = m
    BY SingleQueue
  <2>3. \A n : Once(<<m>>, n)
    BY SingleQueue
  <2>4. /\ \A n : Holds(d, n) <=> Holds(a, n) \/ Holds(<<m>>, n)
        /\ \A n : Once(a, n) /\ Once(<<m>>, n) /\ ~(Holds(a, n) /\ Holds(<<m>>, n)) => Once(d, n)
    BY <2>1, JoinedQueue
  <2>5. Shields(a, Msg("stopshare"), HO(s)) => Shields(d, Msg("stopshare"), HO(s))
    BY <2>1, JoinedOrder
  <2>6. Once(a, HO(s)) => Once(d, HO(s))
    BY <2>2, <2>3, <2>4
  <2>7. Holds(d, HO(s)) => Holds(a, HO(s))
    BY <2>2, <2>4
  <2>8. Holds(d, Msg("stopshare")) => Holds(a, Msg("stopshare"))
    BY <2>2, <2>4
  <2> QED BY <2>5, <2>6, <2>7, <2>8 DEF HostLess, HostKeeps
<1> QED BY <1>1, <1>2

LEMMA ClientWrites ==
    ASSUME NEW s, NEW O, NEW C, NEW b \in Seq(Wire), NEW j, NEW D, ClientLess(s, C, D),
           NEW m \in Wire, m # CA(s), NEW e, e = b \/ e = Append(b, m)
    PROVE  ClientKeeps(s, O, C, b, j, D, e, j)
<1>1. CASE e = b
  BY <1>1, ClientStill
<1>2. CASE e = Append(b, m)
  <2>1. e = b \o <<m>> /\ <<m>> \in Seq(Wire)
    BY <1>2, AppendedQueue
  <2>2. \A n : Holds(<<m>>, n) <=> n = m
    BY SingleQueue
  <2>3. \A n : Holds(e, n) <=> Holds(b, n) \/ Holds(<<m>>, n)
    BY <2>1, JoinedQueue
  <2> QED BY <2>2, <2>3 DEF ClientLess, ClientKeeps
<1> QED BY <1>1, <1>2

\* What fits, of what keeps.
LEMMA KeepsFits ==
    ASSUME NEW p, NEW g, NEW a, NEW i,
           IsPage(g), a \in Seq(Wire), i \in Seq(Wire), Placed(p, g, i), Silent(g),
           \A s \in Proper : s.host = p =>
                HostKeeps(s, Open, page[p], toServer[p], toPage[p], g, a, i),
           \A s \in Proper : s.client = p =>
                ClientKeeps(s, Open, page[p], toServer[p], toPage[p], g, a, i)
    PROVE  Fits(p, g, a, i)
<1>1. ASSUME NEW s \in Proper, s.host = p, NEW C, NEW b, NEW j,
             Story(s, Open, page[p], toServer[p], toPage[p], C, b, j)
      PROVE  Story(s, Open, g, a, i, C, b, j)
  BY <1>1, HostKeepsStory
<1>2. ASSUME NEW s \in Proper, s.client = p, NEW H, NEW d, NEW k,
             Story(s, Open, H, d, k, page[p], toServer[p], toPage[p])
      PROVE  Story(s, Open, H, d, k, g, a, i)
  BY <1>2, ClientKeepsStory
<1> QED BY <1>1, <1>2 DEF Fits

\* What there is of a page.
LEMMA PageFacts ==
    ASSUME PagesInv, NEW p \in Client
    PROVE  /\ IsPage(page[p]) /\ toServer[p] \in Seq(Wire) /\ toPage[p] \in Seq(Wire)
           /\ InPhase(p, connected, told, page[p], toServer[p], toPage[p])
           /\ Placed(p, page[p], toPage[p]) /\ Silent(page[p])
BY DEF PagesInv, PagesType

-----------------------------------------------------------------------------
\* The websocket of a page

\* A page whose websocket goes or gets its first message.
LEMMA PhaseTurned ==
    ASSUME NEW G, IsPage(G), NEW x \in Phase, NEW g, g = [G EXCEPT !.phase = x]
    PROVE  /\ IsPage(g) /\ g.phase = x /\ g.stream = G.stream
           /\ g.hosts = G.hosts /\ g.clients = G.clients
           /\ g.offering = G.offering /\ g.answering = G.answering
BY DEF IsPage

LEMMA AwayFields ==
    ASSUME NEW x \in Phase, NEW g, g = [Away EXCEPT !.phase = x]
    PROVE  /\ IsPage(g) /\ g.phase = x /\ ~g.stream
           /\ g.hosts = Empty /\ g.clients = Empty /\ g.offering = {} /\ g.answering = {}
           /\ DOMAIN Empty = {}
<1>1. DOMAIN Empty = {} /\ IsMap(Empty, Session, HostPeer) /\ IsMap(Empty, Session, ClientPeer)
  BY DEF Empty, IsMap
<1> QED BY <1>1 DEF Away, IsPage

\* What is left of what a page has written when its websocket goes.
Hung(q, a) ==
    /\ a \in Seq(Wire)
    /\ \A m : Holds(a, m) => Holds(q, m) \/ m = Msg("disconnected")
    /\ \A m : Once(q, m) /\ m # Msg("disconnected") => Once(a, m)

LEMMA HungQueue ==
    ASSUME NEW q \in Seq(Wire), NEW n \in 0..Len(q),
           NEW a, a = Append(SubSeq(q, 1, n), Msg("disconnected"))
    PROVE  Hung(q, a)
<1> DEFINE c == SubSeq(q, 1, n)
           w == <<Msg("disconnected")>>
<1>1. Msg("disconnected") \in Wire
  BY Words DEF Plain
<1>2. /\ c \in Seq(Wire) /\ \A m : Holds(c, m) => Holds(q, m)
      /\ \A m : Once(q, m) => Once(c, m)
  BY CutQueue
<1> HIDE DEF c
<1>3. a = c \o w /\ w \in Seq(Wire)
  BY <1>1, <1>2, AppendedQueue DEF c
<1>4. /\ \A m : Holds(w, m) <=> m = Msg("disconnected")
      /\ \A m : Once(w, m)
  BY SingleQueue
<1> HIDE DEF w
<1>5. /\ c \o w \in Seq(Wire) /\ \A m : Holds(c \o w, m) <=> Holds(c, m) \/ Holds(w, m)
      /\ \A m : Once(c, m) /\ Once(w, m) /\ ~(Holds(c, m) /\ Holds(w, m)) => Once(c \o w, m)
  <2>1. c \in Seq(Wire) /\ w \in Seq(Wire)
    BY <1>2, <1>3
  <2> QED BY <2>1, JoinedQueue
<1>6. a = c \o w
  BY <1>3
<1> QED BY <1>2, <1>4, <1>5, <1>6 DEF Hung

\* A page that is shut, whatever of its peers is left, fits when it reads nothing more and has
\* written nothing more about its sessions.
LEMMA ShutFits ==
    ASSUME PagesInv, NEW p \in Client, NEW g, IsPage(g), g.phase = "shut", Silent(g),
           g.offering \subseteq page[p].offering, g.answering \subseteq page[p].answering,
           g.hosts \in {page[p].hosts, Empty}, g.clients \in {page[p].clients, Empty},
           NEW a \in Seq(Wire),
           \A s : /\ Holds(a, HO(s)) => Holds(toServer[p], HO(s))
                  /\ Once(toServer[p], HO(s)) => Once(a, HO(s))
                  /\ Holds(a, CA(s)) => Holds(toServer[p], CA(s))
    PROVE  Fits(p, g, a, <<>>)
<1>1. DOMAIN Empty = {}
  BY DEF Empty
<1>2. Placed(p, page[p], toPage[p])
  BY PageFacts
<1>3. Placed(p, g, <<>>)
  BY <1>1, <1>2, EmptyQueue DEF Placed
<1>4. ASSUME NEW s PROVE HostLess(s, page[p], g) /\ ClientLess(s, page[p], g)
  BY <1>1 DEF HostLess, ClientLess, Answered, Shut
<1>5. ASSUME NEW s PROVE HostKeeps(s, Open, page[p], toServer[p], toPage[p], g, a, <<>>)
  BY <1>4, HostGone
<1>6. ASSUME NEW s PROVE ClientKeeps(s, Open, page[p], toServer[p], toPage[p], g, a, <<>>)
  BY <1>4, ClientGone
<1>7. <<>> \in Seq(Wire)
  OBVIOUS
<1> QED BY <1>3, <1>5, <1>6, <1>7, KeepsFits

\* It is in its phase.
LEMMA ShutInPhase ==
    ASSUME PagesInv, NEW p \in Client, NEW g, g.phase = "shut",
           NEW a, Once(toServer[p], Msg("enter")) => Once(a, Msg("enter")),
           Holds(a, Msg("enter")) => Holds(toServer[p], Msg("enter"))
    PROVE  InPhase(p, connected, told, g, a, <<>>)
<1>1. InPhase(p, connected, told, page[p], toServer[p], toPage[p])
  BY PageFacts
<1> QED BY <1>1, EmptyQueue DEF InPhase

\* The network goes.
LEMMA LoseKeeps == ASSUME PagesInv, NEW p \in Client, Lose(p) PROVE PagesInv'
<1>1. IsPage(page[p]) /\ toServer[p] \in Seq(Wire) /\ Silent(page[p])
  BY PageFacts
<1>2. PICK n \in 0..Len(toServer[p]) :
        toServer' = [toServer EXCEPT ![p] = Append(SubSeq(@, 1, n), Msg("disconnected"))]
  BY DEF Lose, Hangs
<1>3. PICK g : g = [page[p] EXCEPT !.phase = "shut"]
  OBVIOUS
<1>4. PICK a : a = Append(SubSeq(toServer[p], 1, n), Msg("disconnected"))
  OBVIOUS
<1>5. PageBecomes(p, g, a, <<>>) /\ UNCHANGED <<vars, shares>>
  BY <1>2, <1>3, <1>4 DEF Lose, Hangs, PageBecomes
<1>6. /\ IsPage(g) /\ g.phase = "shut" /\ g.stream = page[p].stream
      /\ g.hosts = page[p].hosts /\ g.clients = page[p].clients
      /\ g.offering = page[p].offering /\ g.answering = page[p].answering
  BY <1>1, <1>3, PhaseTurned DEF Phase
<1>7. Hung(toServer[p], a)
  BY <1>1, <1>2, <1>4, HungQueue
<1>8. \A s : HO(s) # Msg("disconnected") /\ CA(s) # Msg("disconnected")
  BY Words
<1>9. Msg("enter") # Msg("disconnected")
  BY Words
<1>10. Fits(p, g, a, <<>>)
  BY <1>1, <1>6, <1>7, <1>8, ShutFits DEF Silent, Hung
<1>11. InPhase(p, connected, told, g, a, <<>>)
  BY <1>6, <1>7, <1>9, ShutInPhase DEF Hung
<1> QED BY <1>5, <1>10, <1>11, QuietPageStep

\* The tab goes.
LEMMA QuitKeeps == ASSUME PagesInv, NEW p \in Client, Quit(p) PROVE PagesInv'
<1>1. toServer[p] \in Seq(Wire)
  BY PageFacts
<1>2. PICK n \in 0..Len(toServer[p]) :
        toServer' = [toServer EXCEPT ![p] = Append(SubSeq(@, 1, n), Msg("disconnected"))]
  BY DEF Quit, Hangs
<1>3. PICK g : g = [Away EXCEPT !.phase = "shut"]
  OBVIOUS
<1>4. PICK a : a = Append(SubSeq(toServer[p], 1, n), Msg("disconnected"))
  OBVIOUS
<1>5. PageBecomes(p, g, a, <<>>) /\ UNCHANGED <<vars, shares>>
  BY <1>2, <1>3, <1>4 DEF Quit, Hangs, PageBecomes
<1>6. /\ IsPage(g) /\ g.phase = "shut" /\ g.hosts = Empty /\ g.clients = Empty
      /\ g.offering = {} /\ g.answering = {} /\ DOMAIN Empty = {}
  BY <1>3, AwayFields DEF Phase
<1>7. Hung(toServer[p], a)
  BY <1>1, <1>2, <1>4, HungQueue
<1>8. \A s : HO(s) # Msg("disconnected") /\ CA(s) # Msg("disconnected")
  BY Words
<1>9. Msg("enter") # Msg("disconnected")
  BY Words
<1>10. Silent(g)
  BY <1>6 DEF Silent
<1>11. Fits(p, g, a, <<>>)
  BY <1>6, <1>7, <1>8, <1>10, ShutFits DEF Hung
<1>12. InPhase(p, connected, told, g, a, <<>>)
  BY <1>6, <1>7, <1>9, ShutInPhase DEF Hung
<1> QED BY <1>5, <1>11, <1>12, QuietPageStep

\* The user leaves.
LEMMA LeaveRoomKeeps == ASSUME PagesInv, NEW p \in Client, LeaveRoom(p) PROVE PagesInv'
<1> DEFINE w == <<Msg("stopshare"), Msg("disconnected")>>
<1>1. IsPage(page[p]) /\ toServer[p] \in Seq(Wire)
  BY PageFacts
<1>2. PICK g : g = [Stop(page[p]) EXCEPT !.phase = "shut"]
  OBVIOUS
<1>3. PICK a : a = toServer[p] \o w
  OBVIOUS
<1>4. PageBecomes(p, g, a, <<>>) /\ UNCHANGED <<vars, shares>>
  BY <1>2, <1>3 DEF LeaveRoom, PageBecomes
<1>5. /\ IsPage(g) /\ g.phase = "shut" /\ g.hosts = Empty /\ g.clients = page[p].clients
      /\ g.offering = page[p].offering /\ g.answering = page[p].answering
  <2>1. IsMap(Empty, Session, HostPeer)
    BY DEF Empty, IsMap
  <2> QED BY <1>1, <1>2, <2>1 DEF Stop, IsPage, Phase
<1>6. w \in Seq(Wire) /\ \A m : Holds(w, m) => m \in {Msg("stopshare"), Msg("disconnected")}
  BY Words DEF Plain, Holds
<1> HIDE DEF w
<1>7. /\ a \in Seq(Wire) /\ \A m : Holds(a, m) <=> Holds(toServer[p], m) \/ Holds(w, m)
      /\ \A m : Once(toServer[p], m) /\ Once(w, m) /\ ~(Holds(toServer[p], m) /\ Holds(w, m))
                    => Once(a, m)
  BY <1>1, <1>3, <1>6, JoinedQueue
<1>8. \A m : ~Holds(w, m) => Once(w, m)
  BY DEF Holds, Once
<1>9. /\ \A s : ~Holds(w, HO(s)) /\ ~Holds(w, CA(s))
      /\ ~Holds(w, Msg("enter"))
  BY <1>6, Words
<1>10. /\ \A s : /\ Holds(a, HO(s)) => Holds(toServer[p], HO(s))
                 /\ Once(toServer[p], HO(s)) => Once(a, HO(s))
                 /\ Holds(a, CA(s)) => Holds(toServer[p], CA(s))
       /\ Once(toServer[p], Msg("enter")) => Once(a, Msg("enter"))
       /\ Holds(a, Msg("enter")) => Holds(toServer[p], Msg("enter"))
  BY <1>7, <1>8, <1>9
<1>11. Silent(g)
  BY <1>5 DEF Silent, Empty
<1>12. Fits(p, g, a, <<>>)
  BY <1>5, <1>7, <1>10, <1>11, ShutFits
<1>13. InPhase(p, connected, told, g, a, <<>>)
  BY <1>5, <1>10, ShutInPhase
<1> QED BY <1>4, <1>12, <1>13, QuietPageStep

\* The page connects.
LEMMA EnterKeeps == ASSUME LInv, PagesInv, NEW p \in Client, Enter(p) PROVE PagesInv'
<1>1. /\ IsPage(page[p]) /\ toServer[p] \in Seq(Wire) /\ toPage[p] \in Seq(Wire)
      /\ InPhase(p, connected, told, page[p], toServer[p], toPage[p])
  BY PageFacts
<1>2. /\ page[p] = [Away EXCEPT !.phase = "away"] /\ toServer[p] = <<>> /\ toPage[p] = <<>>
      /\ p \notin DOMAIN connected
  BY <1>1 DEF Enter, InPhase
<1>3. PICK g : g = [page[p] EXCEPT !.phase = "opening"]
  OBVIOUS
<1>4. PICK a : a = <<Msg("enter")>>
  OBVIOUS
<1>5. PageBecomes(p, g, a, <<>>)
  BY <1>2, <1>3, <1>4 DEF Enter, PageBecomes, PagesInv, PagesType
<1>6. g = [Away EXCEPT !.phase = "opening"]
  BY <1>2, <1>3 DEF Away
<1>7. /\ IsPage(g) /\ g.phase = "opening" /\ ~g.stream /\ g.hosts = Empty /\ g.clients = Empty
      /\ g.offering = {} /\ g.answering = {} /\ DOMAIN Empty = {}
  BY <1>6, AwayFields DEF Phase
<1>8. page[p].phase = "away" /\ page[p].clients = Empty
  BY <1>2, AwayFields DEF Phase
<1>9. Msg("enter") \in Wire /\ a = Append(<<>>, Msg("enter")) /\ <<>> \in Seq(Wire)
  BY <1>4, Words DEF Plain
<1>10. a \in Seq(Wire) /\ Once(a, Msg("enter"))
  BY <1>4, <1>9, SingleQueue
<1>11. ASSUME NEW s PROVE HostLess(s, page[p], g) /\ ClientLess(s, page[p], g)
  BY <1>7, <1>8 DEF HostLess, ClientLess, Answered, Shut, Waits
<1>12. ASSUME NEW s
       PROVE  /\ HostKeeps(s, Open, page[p], toServer[p], toPage[p], g, a, <<>>)
              /\ ClientKeeps(s, Open, page[p], toServer[p], toPage[p], g, a, <<>>)
  <2>1. Msg("enter") # HO(s) /\ Msg("enter") # CA(s) /\ Msg("enter") # Msg("stopshare")
    BY Words
  <2>2. HostKeeps(s, Open, page[p], <<>>, <<>>, g, a, <<>>)
    BY <1>9, <1>11, <2>1, HostWrites
  <2>3. ClientKeeps(s, Open, page[p], <<>>, <<>>, g, a, <<>>)
    BY <1>9, <1>11, <2>1, ClientWrites
  <2> QED BY <1>2, <2>2, <2>3
<1>13. Placed(p, g, <<>>) /\ Silent(g)
  BY <1>7, EmptyQueue DEF Placed, Silent
<1>14. Fits(p, g, a, <<>>)
  BY <1>7, <1>9, <1>10, <1>12, <1>13, KeepsFits
<1>15. /\ connected' = Put(connected, p, NoRoom) /\ told' = [told EXCEPT ![p] = Fresh]
       /\ rooms' = rooms /\ shares' = shares
  BY DEF Enter, Connect
<1>16. told = [d \in Client |-> told[d]]
  BY DEF LInv, IInv, TypeOK
<1>17. /\ p \in DOMAIN connected' /\ connected'[p] = NoRoom /\ told'[p] = Fresh
       /\ \A d \in Client \ {p} :
            /\ d \in DOMAIN connected' <=> d \in DOMAIN connected
            /\ d \in DOMAIN connected => connected'[d] = connected[d]
            /\ told'[d] = told[d]
  BY <1>15, <1>16 DEF Put
<1>18. InPhase(p, connected', told', g, a, <<>>)
  BY <1>6, <1>7, <1>10, <1>17, EmptyQueue DEF InPhase, Fresh
<1>19. Open' = Open /\ shares' \in 0..MaxShares
  BY <1>15 DEF Open, PagesInv, PagesType
<1> QED BY <1>5, <1>14, <1>17, <1>18, <1>19, PageStep

-----------------------------------------------------------------------------
\* What a page hears

\* A page that takes the first message, and is in the room then.
LEMMA HeardInPhase ==
    ASSUME PagesInv, NEW p \in Client, toPage[p] # <<>>, NEW g, g.phase = "in"
    PROVE  InPhase(p, connected, told, g, toServer[p], Tail(toPage[p]))
<1>1. InPhase(p, connected, told, page[p], toServer[p], toPage[p]) /\ toPage[p] \in Seq(Wire)
  BY PageFacts
<1>2. /\ \A m : Holds(Tail(toPage[p]), m) => Holds(toPage[p], m)
      /\ \A m : Final(toPage[p], m) => Final(Tail(toPage[p]), m)
  BY <1>1, TailQueue
<1> QED BY <1>1, <1>2 DEF InPhase

\* What it has yet to hear is still placed.
LEMMA HeardPlaced ==
    ASSUME PagesInv, NEW p \in Client, toPage[p] # <<>>, NEW g,
           g.answering \subseteq page[p].answering \cup Proper,
           \A s \in g.offering \cup DOMAIN g.hosts :
                s \in page[p].offering \cup DOMAIN page[p].hosts \/ (s \in Proper /\ s.host = p)
    PROVE  Placed(p, g, Tail(toPage[p]))
<1>1. Placed(p, page[p], toPage[p]) /\ toPage[p] \in Seq(Wire)
  BY PageFacts
<1>2. \A m : Holds(Tail(toPage[p]), m) => Holds(toPage[p], m)
  BY <1>1, TailQueue
<1> QED BY <1>1, <1>2 DEF Placed

\* The message it takes.
LEMMA HeardMessage ==
    ASSUME PagesInv, NEW p \in Client, NEW type, Hears(p, type)
    PROVE  /\ toPage[p] # <<>> /\ Head(toPage[p]) \in Wire /\ Head(toPage[p]).type = type
           /\ Holds(toPage[p], Head(toPage[p]))
           /\ page[p].phase \in {"opening", "in"}
           /\ Tail(toPage[p]) \in Seq(Wire)
           /\ toPage' = [toPage EXCEPT ![p] = Tail(toPage[p])]
<1>1. /\ toPage[p] \in Seq(Wire) /\ IsPage(page[p])
      /\ InPhase(p, connected, told, page[p], toServer[p], toPage[p])
  BY PageFacts
<1>2. toPage[p] # <<>> /\ Head(toPage[p]).type = type
  BY DEF Hears
<1>3. Head(toPage[p]) \in Wire /\ Tail(toPage[p]) \in Seq(Wire) /\ Holds(toPage[p], Head(toPage[p]))
  BY <1>1, <1>2, TailQueue
<1>4. page[p].phase \in {"opening", "in"}
  BY <1>1, <1>2 DEF InPhase, IsPage, Phase
<1> QED BY <1>2, <1>3, <1>4 DEF Hears

\* Nothing else of a page changes.
LEMMA OnlyHears ==
    ASSUME PagesInv, NEW p \in Client, NEW type, Hears(p, type), NEW g,
           page' = [page EXCEPT ![p] = g], UNCHANGED toServer
    PROVE  PageBecomes(p, g, toServer[p], Tail(toPage[p]))
BY DEF PageBecomes, Hears, PagesInv, PagesType

\* A Room message.
LEMMA OnRoomKeeps == ASSUME PagesInv, NEW p \in Client, OnRoom(p) PROVE PagesInv'
<1>1. /\ IsPage(page[p]) /\ toServer[p] \in Seq(Wire) /\ toPage[p] \in Seq(Wire) /\ Silent(page[p])
      /\ InPhase(p, connected, told, page[p], toServer[p], toPage[p])
  BY PageFacts
<1>2. /\ toPage[p] # <<>> /\ Head(toPage[p]).type = "room"
      /\ page[p].phase \in {"opening", "in"} /\ Tail(toPage[p]) \in Seq(Wire)
  BY HeardMessage DEF OnRoom
<1>3. PICK g : g = [page[p] EXCEPT !.phase = "in"]
  OBVIOUS
<1>4. PageBecomes(p, g, toServer[p], Tail(toPage[p]))
  <2>1. page' = [page EXCEPT ![p] = g]
    BY <1>3 DEF OnRoom
  <2> QED BY <2>1, OnlyHears DEF OnRoom
<1>5. /\ IsPage(g) /\ g.phase = "in" /\ g.stream = page[p].stream
      /\ g.hosts = page[p].hosts /\ g.clients = page[p].clients
      /\ g.offering = page[p].offering /\ g.answering = page[p].answering
  BY <1>1, <1>3, PhaseTurned DEF Phase
<1>6. page[p].phase = "opening" => page[p].hosts = Empty /\ page[p].offering = {}
  BY <1>1, AwayFields DEF InPhase, Phase
<1>7. ASSUME NEW s PROVE HostLess(s, page[p], g) /\ ClientLess(s, page[p], g)
  BY <1>2, <1>5, <1>6 DEF HostLess, ClientLess, Hosts, Answered, Shut, Waits, Empty
<1>8. ASSUME NEW s
      PROVE  /\ HostKeeps(s, Open, page[p], toServer[p], toPage[p], g, toServer[p], Tail(toPage[p]))
             /\ ClientKeeps(s, Open, page[p], toServer[p], toPage[p], g, toServer[p], Tail(toPage[p]))
  <2>1. Head(toPage[p]) \notin {ES(s), CS(s), Msg("closewriter")}
    BY <1>2, Words
  <2> QED BY <1>1, <1>2, <1>7, <2>1, HostReads, ClientReads
<1>9. Placed(p, g, Tail(toPage[p]))
  BY <1>2, <1>5, HeardPlaced
<1>10. Silent(g)
  BY <1>1, <1>5 DEF Silent
<1>11. Fits(p, g, toServer[p], Tail(toPage[p]))
  BY <1>1, <1>2, <1>5, <1>8, <1>9, <1>10, KeepsFits
<1>12. InPhase(p, connected, told, g, toServer[p], Tail(toPage[p]))
  BY <1>2, <1>5, HeardInPhase
<1>13. UNCHANGED <<vars, shares>>
  BY DEF OnRoom
<1> QED BY <1>4, <1>11, <1>12, <1>13, QuietPageStep

\* The end.
LEMMA OnCloseKeeps == ASSUME PagesInv, NEW p \in Client, OnClose(p) PROVE PagesInv'
<1>1. /\ IsPage(page[p]) /\ toServer[p] \in Seq(Wire) /\ toPage[p] \in Seq(Wire) /\ Silent(page[p])
      /\ InPhase(p, connected, told, page[p], toServer[p], toPage[p])
  BY PageFacts
<1>2. /\ toPage[p] # <<>> /\ Head(toPage[p]) \in Wire /\ Head(toPage[p]).type = "closewriter"
  BY HeardMessage DEF OnClose
<1>3. Head(toPage[p]) = Msg("closewriter")
  BY <1>2, Spelled DEF Plain
<1>4. Tail(toPage[p]) = <<>>
  BY <1>1, <1>2, <1>3, TailQueue DEF InPhase
<1>5. PICK g : g = [page[p] EXCEPT !.phase = "shut"]
  OBVIOUS
<1>6. PageBecomes(p, g, toServer[p], <<>>)
  <2>1. page' = [page EXCEPT ![p] = g]
    BY <1>5 DEF OnClose
  <2>2. PageBecomes(p, g, toServer[p], Tail(toPage[p]))
    BY <2>1, OnlyHears DEF OnClose
  <2> QED BY <1>4, <2>2
<1>7. /\ IsPage(g) /\ g.phase = "shut" /\ g.stream = page[p].stream
      /\ g.hosts = page[p].hosts /\ g.clients = page[p].clients
      /\ g.offering = page[p].offering /\ g.answering = page[p].answering
  BY <1>1, <1>5, PhaseTurned DEF Phase
<1>8. Silent(g)
  BY <1>1, <1>7 DEF Silent
<1>9. Fits(p, g, toServer[p], <<>>)
  BY <1>1, <1>7, <1>8, ShutFits
<1>10. InPhase(p, connected, told, g, toServer[p], <<>>)
  BY <1>7, ShutInPhase
<1>11. UNCHANGED <<vars, shares>>
  BY DEF OnClose
<1> QED BY <1>6, <1>9, <1>10, <1>11, QuietPageStep

\* What there is to show of a page in the room that takes a message.
LEMMA ReadStep ==
    ASSUME PagesInv, NEW p \in Client, NEW type, Hears(p, type), page[p].phase = "in",
           NEW g, IsPage(g), g.phase = "in", page' = [page EXCEPT ![p] = g], Silent(g),
           UNCHANGED <<vars, shares, toServer>>,
           g.answering \subseteq page[p].answering \cup Proper,
           \A s \in g.offering \cup DOMAIN g.hosts :
                s \in page[p].offering \cup DOMAIN page[p].hosts \/ (s \in Proper /\ s.host = p),
           \A s \in Proper : s.host = p =>
                \A C, b, j : Story(s, Open, page[p], toServer[p], toPage[p], C, b, j)
                                => Story(s, Open, g, toServer[p], Tail(toPage[p]), C, b, j),
           \A s \in Proper : s.client = p =>
                \A H, d, k : Story(s, Open, H, d, k, page[p], toServer[p], toPage[p])
                                => Story(s, Open, H, d, k, g, toServer[p], Tail(toPage[p]))
    PROVE  PagesInv'
<1>1. toServer[p] \in Seq(Wire) /\ toPage[p] # <<>> /\ Tail(toPage[p]) \in Seq(Wire)
  BY PageFacts, HeardMessage
<1>2. PageBecomes(p, g, toServer[p], Tail(toPage[p]))
  BY OnlyHears
<1>3. Placed(p, g, Tail(toPage[p]))
  BY <1>1, HeardPlaced
<1>4. Fits(p, g, toServer[p], Tail(toPage[p]))
  BY <1>1, <1>3 DEF Fits
<1>5. InPhase(p, connected, told, g, toServer[p], Tail(toPage[p]))
  BY <1>1, HeardInPhase
<1> QED BY <1>2, <1>4, <1>5, QuietPageStep

\* A page one of whose watching peers has changed.
LEMMA ClientPut ==
    ASSUME NEW G, IsPage(G), NEW x \in Session, NEW v \in ClientPeer,
           NEW g, g = [G EXCEPT !.clients = Put(@, x, v)]
    PROVE  /\ IsPage(g) /\ g.phase = G.phase /\ g.stream = G.stream
           /\ g.hosts = G.hosts /\ g.offering = G.offering /\ g.answering = G.answering
           /\ x \in DOMAIN g.clients /\ g.clients[x] = v
           /\ \A s : s # x => /\ Waits(g, s) <=> Waits(G, s)
                              /\ Answered(g, s) <=> Answered(G, s)
                              /\ Shut(g, s) <=> Shut(G, s)
<1>1. IsMap(Put(G.clients, x, v), Session, ClientPeer)
  BY PutType DEF IsPage
<1>2. /\ IsPage(g) /\ g.phase = G.phase /\ g.stream = G.stream
      /\ g.hosts = G.hosts /\ g.offering = G.offering /\ g.answering = G.answering
      /\ g.clients = Put(G.clients, x, v)
  BY <1>1 DEF IsPage
<1>3. /\ DOMAIN g.clients = DOMAIN G.clients \cup {x} /\ g.clients[x] = v
      /\ \A s \in DOMAIN G.clients : s # x => g.clients[s] = G.clients[s]
  BY <1>2 DEF Put
<1> QED BY <1>2, <1>3 DEF Waits, Answered, Shut

\* A ClientSession message: the client waits for the offer.
LEMMA OnClientSessionKeeps ==
    ASSUME PagesInv, NEW p \in Client, OnClientSession(p) PROVE PagesInv'
<1>1. /\ IsPage(page[p]) /\ toPage[p] \in Seq(Wire) /\ Silent(page[p])
      /\ page[p].phase = "in" /\ Hears(p, "clientsession")
  BY PageFacts DEF OnClientSession
<1>2. toPage[p] # <<>> /\ Head(toPage[p]) \in Wire /\ Head(toPage[p]).type = "clientsession"
  BY <1>1, HeardMessage
<1>3. PICK x : x = Head(toPage[p]).sid
  OBVIOUS
<1>4. x \in Proper /\ Head(toPage[p]) = CS(x)
  BY <1>2, <1>3, Spelled DEF OfSessions
<1>5. PICK g : g = [page[p] EXCEPT !.clients = Put(@, x, "new")]
  OBVIOUS
<1>6. page' = [page EXCEPT ![p] = g] /\ UNCHANGED <<vars, shares, toServer>>
  BY <1>3, <1>5 DEF OnClientSession
<1>7. /\ IsPage(g) /\ g.phase = "in" /\ g.stream = page[p].stream
      /\ g.hosts = page[p].hosts /\ g.offering = page[p].offering
      /\ g.answering = page[p].answering
      /\ x \in DOMAIN g.clients /\ g.clients[x] = "new"
      /\ \A s : s # x => /\ Waits(g, s) <=> Waits(page[p], s)
                         /\ Answered(g, s) <=> Answered(page[p], s)
                         /\ Shut(g, s) <=> Shut(page[p], s)
  BY <1>1, <1>4, <1>5, ClientPut DEF Proper, ClientPeer
<1>8. Silent(g)
  BY <1>1, <1>7 DEF Silent
<1>9. ASSUME NEW s
      PROVE  HostKeeps(s, Open, page[p], toServer[p], toPage[p], g, toServer[p], Tail(toPage[p]))
  <2>1. HostLess(s, page[p], g)
    BY <1>1, <1>7 DEF HostLess, Hosts
  <2>2. Head(toPage[p]) \notin {ES(s), Msg("closewriter")}
    BY <1>2, Words
  <2> QED BY <1>1, <1>2, <2>1, <2>2, HostReads
<1>10. ASSUME NEW s
       PROVE  ClientKeeps(s, Open, page[p], toServer[p], toPage[p], g, toServer[p], Tail(toPage[p]))
  <2>1. CASE s # x
    <3>1. ClientLess(s, page[p], g)
      BY <1>1, <1>7, <2>1 DEF ClientLess
    <3>2. Head(toPage[p]) # CS(s)
      BY <1>4, <2>1, Words
    <3> QED BY <1>1, <1>2, <3>1, <3>2, ClientReads
  <2>2. CASE s = x
    <3>1. Waits(g, s) /\ ~Answered(g, s) /\ ~Shut(g, s)
      BY <1>7, <2>2 DEF Waits, Answered, Shut
    <3>2. /\ \A m : Holds(Tail(toPage[p]), m) => Holds(toPage[p], m)
          /\ \A m : Once(toPage[p], m) => Once(Tail(toPage[p]), m)
      BY <1>1, <1>2, TailQueue
    <3>3. Free(toPage[p], HO(s), ES(s)) => Free(Tail(toPage[p]), HO(s), ES(s))
      BY <1>1, <1>2, TailOrder
    <3> QED BY <1>1, <1>7, <3>1, <3>2, <3>3 DEF ClientKeeps
  <2> QED BY <2>1, <2>2
<1>11. ASSUME NEW s \in Proper, s.host = p, NEW C, NEW b, NEW j,
              Story(s, Open, page[p], toServer[p], toPage[p], C, b, j)
       PROVE  Story(s, Open, g, toServer[p], Tail(toPage[p]), C, b, j)
  BY <1>9, <1>11, HostKeepsStory
<1>12. ASSUME NEW s \in Proper, s.client = p, NEW H, NEW d, NEW k,
              Story(s, Open, H, d, k, page[p], toServer[p], toPage[p])
       PROVE  Story(s, Open, H, d, k, g, toServer[p], Tail(toPage[p]))
  BY <1>10, <1>12, ClientKeepsStory
<1> QED BY <1>1, <1>6, <1>7, <1>8, <1>11, <1>12, ReadStep

\* The end of a session: what there is of it is closed.
LEMMA ClosedPeers ==
    ASSUME NEW f, NEW K, NEW V, IsMap(f, K, V), "closed" \in V, NEW x, NEW h, h = Closed(f, x)
    PROVE  /\ IsMap(h, K, V) /\ DOMAIN h = DOMAIN f
           /\ x \in DOMAIN h => h[x] = "closed"
           /\ \A s \in DOMAIN f : s # x => h[s] = f[s]
<1>1. CASE x \notin DOMAIN f
  BY <1>1 DEF Closed
<1>2. CASE x \in DOMAIN f
  <2>1. h = Put(f, x, "closed") /\ x \in K
    BY <1>2 DEF Closed, IsMap
  <2>2. IsMap(h, K, V)
    BY <2>1, PutType
  <2>3. DOMAIN h = DOMAIN f \cup {x} /\ h[x] = "closed" /\ \A s \in DOMAIN f : s # x => h[s] = f[s]
    BY <2>1 DEF Put
  <2> QED BY <1>2, <2>2, <2>3
<1> QED BY <1>1, <1>2

\* The story of a session whose client is told of its end.  No offer can be behind.
LEMMA ClientHearsTheEnd ==
    ASSUME NEW s, NEW O, NEW H, NEW a, NEW i, NEW C, NEW b, NEW j \in Seq(Wire), j # <<>>,
           Story(s, O, H, a, i, C, b, j), C.phase = "in", Head(j) = ES(s),
           NEW D, D.phase = "in", D.answering = C.answering,
           Answered(D, s) => Answered(C, s), s \in DOMAIN D.clients => D.clients[s] = "closed"
    PROVE  Story(s, O, H, a, i, D, b, Tail(j))
<1>1. /\ Holds(j, ES(s)) /\ \A m : Holds(Tail(j), m) => Holds(j, m)
      /\ \A m : Once(j, m) => Once(Tail(j), m)
  BY TailQueue
<1>2. s \notin O
  BY <1>1 DEF Story, Awaited
<1>3. Free(j, HO(s), ES(s)) /\ HO(s) # ES(s)
  BY Words DEF Story, Awaited
<1>4. ~Holds(j, HO(s))
  BY <1>3, TailOrder
<1>5. ~Holds(Tail(j), HO(s))
  BY <1>1, <1>4
<1>6. Led(Tail(j), HO(s), CS(s)) /\ Free(Tail(j), HO(s), ES(s))
  BY <1>5 DEF Led, Free, Holds
<1>7. ClientKeeps(s, O, C, b, j, D, b, Tail(j))
  BY <1>1, <1>2, <1>5, <1>6 DEF ClientKeeps
<1> QED BY <1>7, ClientKeepsStory

\* An EndShare message closes what there is.
LEMMA OnEndShareKeeps == ASSUME PagesInv, NEW p \in Client, OnEndShare(p) PROVE PagesInv'
<1>1. /\ IsPage(page[p]) /\ toPage[p] \in Seq(Wire) /\ Silent(page[p])
      /\ page[p].phase = "in" /\ Hears(p, "endshare")
  BY PageFacts DEF OnEndShare
<1>2. toPage[p] # <<>> /\ Head(toPage[p]) \in Wire /\ Head(toPage[p]).type = "endshare"
  BY <1>1, HeardMessage
<1>3. PICK x : x = Head(toPage[p]).sid
  OBVIOUS
<1>4. x \in Proper /\ Head(toPage[p]) = ES(x)
  BY <1>2, <1>3, Spelled DEF OfSessions
<1>5. PICK g : g = [page[p] EXCEPT !.clients = Closed(@, x), !.hosts = Closed(@, x)]
  OBVIOUS
<1>6. page' = [page EXCEPT ![p] = g] /\ UNCHANGED <<vars, shares, toServer>>
  <2>1. page' = [page EXCEPT ![p].clients = Closed(@, x), ![p].hosts = Closed(@, x)]
    BY <1>3 DEF OnEndShare
  <2> QED BY <1>5, <2>1 DEF OnEndShare
<1>7. /\ IsMap(Closed(page[p].hosts, x), Session, HostPeer)
      /\ IsMap(Closed(page[p].clients, x), Session, ClientPeer)
  BY <1>1, ClosedPeers DEF IsPage, HostPeer, ClientPeer
<1>8. /\ IsPage(g) /\ g.phase = "in" /\ g.stream = page[p].stream
      /\ g.offering = page[p].offering /\ g.answering = page[p].answering
      /\ g.hosts = Closed(page[p].hosts, x) /\ g.clients = Closed(page[p].clients, x)
  BY <1>1, <1>5, <1>7 DEF IsPage
<1>9. /\ DOMAIN g.hosts = DOMAIN page[p].hosts
      /\ x \in DOMAIN g.hosts => g.hosts[x] = "closed"
      /\ \A s \in DOMAIN page[p].hosts : s # x => g.hosts[s] = page[p].hosts[s]
  BY <1>1, <1>8, ClosedPeers DEF IsPage, HostPeer
<1>10. /\ DOMAIN g.clients = DOMAIN page[p].clients
       /\ x \in DOMAIN g.clients => g.clients[x] = "closed"
       /\ \A s \in DOMAIN page[p].clients : s # x => g.clients[s] = page[p].clients[s]
  BY <1>1, <1>8, ClosedPeers DEF IsPage, ClientPeer
<1>11. Silent(g)
  BY <1>1, <1>8, <1>9 DEF Silent
<1>12. ASSUME NEW s
       PROVE  HostKeeps(s, Open, page[p], toServer[p], toPage[p], g, toServer[p], Tail(toPage[p]))
  <2>1. HostLess(s, page[p], g)
    BY <1>1, <1>8, <1>9 DEF HostLess, Hosts
  <2>2. Head(toPage[p]) # Msg("closewriter") /\ (Head(toPage[p]) = ES(s) => s = x)
    BY <1>4, Words
  <2>3. ~Live(g.hosts, x)
    BY <1>9 DEF Live
  <2> QED BY <1>1, <1>2, <2>1, <2>2, <2>3, HostReads
<1>13. ASSUME NEW s \in Proper, s.host = p, NEW C, NEW b, NEW j,
              Story(s, Open, page[p], toServer[p], toPage[p], C, b, j)
       PROVE  Story(s, Open, g, toServer[p], Tail(toPage[p]), C, b, j)
  BY <1>12, <1>13, HostKeepsStory
<1>14. ASSUME NEW s \in Proper, s.client = p, NEW H, NEW d, NEW k,
              Story(s, Open, H, d, k, page[p], toServer[p], toPage[p])
       PROVE  Story(s, Open, H, d, k, g, toServer[p], Tail(toPage[p]))
  <2>1. CASE s = x
    <3>1. ~Answered(g, s) /\ (s \in DOMAIN g.clients => g.clients[s] = "closed")
      BY <1>10, <2>1 DEF Answered
    <3> QED BY <1>1, <1>2, <1>4, <1>8, <1>14, <2>1, <3>1, ClientHearsTheEnd
  <2>2. CASE s # x
    <3>1. ClientLess(s, page[p], g)
      BY <1>1, <1>8, <1>10, <2>2 DEF ClientLess, Waits, Answered, Shut
    <3>2. Head(toPage[p]) # CS(s)
      BY <1>2, Words
    <3>3. ClientKeeps(s, Open, page[p], toServer[p], toPage[p], g, toServer[p], Tail(toPage[p]))
      BY <1>1, <1>2, <3>1, <3>2, ClientReads
    <3> QED BY <1>14, <3>3, ClientKeepsStory
  <2> QED BY <2>1, <2>2
<1> QED BY <1>1, <1>6, <1>8, <1>9, <1>11, <1>13, <1>14, ReadStep

-----------------------------------------------------------------------------
\* What a page does by itself

\* What a page in the room, or one that is shut, writes.
LEMMA WrittenQueue ==
    ASSUME NEW q \in Seq(Wire), NEW m \in Wire, NEW a, a = q \/ a = Append(q, m)
    PROVE  /\ a \in Seq(Wire)
           /\ \A n : n # m => Holds(a, n) <=> Holds(q, n)
           /\ \A n : (n # m \/ ~Holds(q, n)) /\ Once(q, n) => Once(a, n)
<1>1. CASE a = q
  BY <1>1
<1>2. CASE a = Append(q, m)
  <2> DEFINE w == <<m>>
  <2>1. a = q \o w /\ w \in Seq(Wire)
    BY <1>2, AppendedQueue
  <2>2. \A n : (Holds(w, n) <=> n = m) /\ Once(w, n)
    BY SingleQueue
  <2> HIDE DEF w
  <2>3. /\ q \o w \in Seq(Wire)
        /\ \A n : Holds(q \o w, n) <=> Holds(q, n) \/ Holds(w, n)
        /\ \A n : Once(q, n) /\ Once(w, n) /\ ~(Holds(q, n) /\ Holds(w, n)) => Once(q \o w, n)
    BY <2>1, JoinedQueue
  <2> QED BY <2>1, <2>2, <2>3
<1> QED BY <1>1, <1>2

\* It stays in its phase.
LEMMA WriteStep ==
    ASSUME PagesInv, NEW p \in Client, page[p].phase \notin {"away", "opening"},
           NEW g, g.phase = page[p].phase, NEW m \in Wire, m # Msg("enter"),
           NEW a, a = toServer[p] \/ a = Append(toServer[p], m), Fits(p, g, a, toPage[p]),
           PageBecomes(p, g, a, toPage[p]), UNCHANGED vars, shares' \in 0..MaxShares
    PROVE  PagesInv'
<1>1. /\ toServer[p] \in Seq(Wire)
      /\ InPhase(p, connected, told, page[p], toServer[p], toPage[p])
  BY PageFacts
<1>2. /\ Holds(a, Msg("enter")) => Holds(toServer[p], Msg("enter"))
      /\ Once(toServer[p], Msg("enter")) => Once(a, Msg("enter"))
  BY <1>1, WrittenQueue
<1>3. connected' = connected /\ told' = told /\ rooms' = rooms
  BY DEF vars
<1>4. Open' = Open
  BY <1>3 DEF Open
<1>5. InPhase(p, connected', told', g, a, toPage[p])
  BY <1>1, <1>2, <1>3 DEF InPhase
<1> QED BY <1>3, <1>4, <1>5, PageStep

\* A page that writes nothing, or nothing about its sessions, and has no more of them.
LEMMA IdleStep ==
    ASSUME PagesInv, NEW p \in Client, page[p].phase \notin {"away", "opening"},
           NEW g, IsPage(g), g.phase = page[p].phase, Silent(g),
           NEW m \in Wire, m \notin {Msg("enter"), Msg("stopshare")},
           \A s : m \notin {HO(s), CA(s)},
           NEW a, a = toServer[p] \/ a = Append(toServer[p], m),
           PageBecomes(p, g, a, toPage[p]), UNCHANGED vars, shares' \in 0..MaxShares,
           \A s : HostLess(s, page[p], g) /\ ClientLess(s, page[p], g)
    PROVE  PagesInv'
<1>1. toServer[p] \in Seq(Wire) /\ toPage[p] \in Seq(Wire) /\ Placed(p, page[p], toPage[p])
  BY PageFacts
<1>2. ASSUME NEW s
      PROVE  /\ HostKeeps(s, Open, page[p], toServer[p], toPage[p], g, a, toPage[p])
             /\ ClientKeeps(s, Open, page[p], toServer[p], toPage[p], g, a, toPage[p])
  BY <1>1, HostWrites, ClientWrites
<1>3. Placed(p, g, toPage[p])
  BY <1>1 DEF Placed, HostLess, ClientLess
<1>4. a \in Seq(Wire)
  BY <1>1, WrittenQueue
<1>5. Fits(p, g, a, toPage[p])
  BY <1>1, <1>2, <1>3, <1>4, KeepsFits
<1>6. m # Msg("enter")
  OBVIOUS
<1> QED BY <1>5, <1>6, WriteStep

\* A connection fails at the host,
LEMMA HostFailsKeeps == ASSUME PagesInv, NEW p \in Client, HostFails(p) PROVE PagesInv'
<1>1. /\ IsPage(page[p]) /\ Silent(page[p])
      /\ InPhase(p, connected, told, page[p], toServer[p], toPage[p])
  BY PageFacts
<1>2. PICK x \in DOMAIN page[p].hosts : page' = [page EXCEPT ![p].hosts = Without(@, {x})]
  BY DEF HostFails
<1>3. page[p].phase \notin {"away", "opening"}
  BY <1>1, <1>2, AwayFields DEF InPhase, Phase
<1>4. PICK g : g = [page[p] EXCEPT !.hosts = Without(@, {x})]
  OBVIOUS
<1>5. IsMap(Without(page[p].hosts, {x}), Session, HostPeer)
  BY <1>1, WithoutType DEF IsPage
<1>6. /\ IsPage(g) /\ g.phase = page[p].phase /\ g.stream = page[p].stream
      /\ g.clients = page[p].clients /\ g.offering = page[p].offering
      /\ g.answering = page[p].answering
      /\ DOMAIN g.hosts = DOMAIN page[p].hosts \ {x}
      /\ \A s \in DOMAIN g.hosts : g.hosts[s] = page[p].hosts[s]
  BY <1>1, <1>4, <1>5 DEF IsPage, Without
<1>7. \A s : HostLess(s, page[p], g) /\ ClientLess(s, page[p], g)
  BY <1>6 DEF HostLess, ClientLess, Hosts, Waits, Answered, Shut
<1>8. Silent(g)
  BY <1>1, <1>6 DEF Silent
<1>9. PageBecomes(p, g, toServer[p], toPage[p]) /\ UNCHANGED vars /\ shares' \in 0..MaxShares
  BY <1>2, <1>4 DEF HostFails, PageBecomes, PagesInv, PagesType
<1>10. /\ Msg("share") \in Wire /\ Msg("share") \notin {Msg("enter"), Msg("stopshare")}
       /\ \A s : Msg("share") \notin {HO(s), CA(s)}
  BY Words DEF Plain
<1> QED BY <1>3, <1>6, <1>7, <1>8, <1>9, <1>10, IdleStep

\* or at the client.
LEMMA ClientFailsKeeps == ASSUME PagesInv, NEW p \in Client, ClientFails(p) PROVE PagesInv'
<1>1. /\ IsPage(page[p]) /\ Silent(page[p])
      /\ InPhase(p, connected, told, page[p], toServer[p], toPage[p])
  BY PageFacts
<1>2. PICK x \in DOMAIN page[p].clients :
        page[p].clients[x] = "answered" /\ page' = [page EXCEPT ![p].clients = Without(@, {x})]
  BY DEF ClientFails, LosesPeer
<1>3. page[p].phase \notin {"away", "opening"}
  BY <1>1, <1>2, AwayFields DEF InPhase, Phase
<1>4. PICK g : g = [page[p] EXCEPT !.clients = Without(@, {x})]
  OBVIOUS
<1>5. IsMap(Without(page[p].clients, {x}), Session, ClientPeer)
  BY <1>1, WithoutType DEF IsPage
<1>6. /\ IsPage(g) /\ g.phase = page[p].phase /\ g.stream = page[p].stream
      /\ g.hosts = page[p].hosts /\ g.offering = page[p].offering
      /\ g.answering = page[p].answering
      /\ DOMAIN g.clients = DOMAIN page[p].clients \ {x}
      /\ \A s \in DOMAIN g.clients : g.clients[s] = page[p].clients[s]
  BY <1>1, <1>4, <1>5 DEF IsPage, Without
<1>7. \A s : HostLess(s, page[p], g) /\ ClientLess(s, page[p], g)
  BY <1>2, <1>6 DEF HostLess, ClientLess, Hosts, Waits, Answered, Shut
<1>8. Silent(g)
  BY <1>1, <1>6 DEF Silent
<1>9. PageBecomes(p, g, toServer[p], toPage[p]) /\ UNCHANGED vars /\ shares' \in 0..MaxShares
  BY <1>2, <1>4 DEF ClientFails, LosesPeer, PageBecomes, PagesInv, PagesType
<1>10. /\ Msg("share") \in Wire /\ Msg("share") \notin {Msg("enter"), Msg("stopshare")}
       /\ \A s : Msg("share") \notin {HO(s), CA(s)}
  BY Words DEF Plain
<1> QED BY <1>3, <1>6, <1>7, <1>8, <1>9, <1>10, IdleStep

\* The user shares.
LEMMA ShareKeeps == ASSUME PagesInv, NEW p \in Client, Share(p) PROVE PagesInv'
<1>1. IsPage(page[p]) /\ page[p].phase = "in"
  BY PageFacts DEF Share
<1>2. PICK g : g = [page[p] EXCEPT !.stream = TRUE]
  OBVIOUS
<1>3. /\ IsPage(g) /\ g.phase = "in" /\ g.stream
      /\ g.hosts = page[p].hosts /\ g.clients = page[p].clients
      /\ g.offering = page[p].offering /\ g.answering = page[p].answering
  BY <1>1, <1>2 DEF IsPage
<1>4. \A s : HostLess(s, page[p], g) /\ ClientLess(s, page[p], g)
  BY <1>1, <1>3 DEF HostLess, ClientLess, Waits, Answered, Shut
<1>5. Silent(g)
  BY <1>3 DEF Silent
<1>6. PageBecomes(p, g, Append(toServer[p], Msg("share")), toPage[p]) /\ UNCHANGED vars
  BY <1>1, <1>2 DEF Share, Sends, Sent, PageBecomes, PagesInv, PagesType
<1>7. shares' \in 0..MaxShares
  BY MaxSharesAssumption DEF Share, PagesInv, PagesType
<1>8. /\ Msg("share") \in Wire /\ Msg("share") \notin {Msg("enter"), Msg("stopshare")}
      /\ \A s : Msg("share") \notin {HO(s), CA(s)}
  BY Words DEF Plain
<1> QED BY <1>1, <1>3, <1>4, <1>5, <1>6, <1>7, <1>8, IdleStep

\* The story of a session whose host stops to share: what is being offered then comes to the
\* loop behind the stop.
LEMMA HostStops ==
    ASSUME NEW s, NEW O, NEW H, NEW a \in Seq(Wire), NEW i, NEW C, NEW b, NEW j,
           Story(s, O, H, a, i, C, b, j),
           NEW G, G.phase = "in", G.hosts = Empty, G.offering = H.offering,
           NEW d, d = Append(a, Msg("stopshare"))
    PROVE  Story(s, O, G, d, i, C, b, j)
<1>1. DOMAIN G.hosts = {}
  BY DEF Empty
<1>2. Msg("stopshare") \in Wire /\ HO(s) # Msg("stopshare")
  BY Words DEF Plain
<1>3. d = a \o <<Msg("stopshare")>> /\ <<Msg("stopshare")>> \in Seq(Wire)
  BY <1>2, AppendedQueue
<1>4. Holds(<<Msg("stopshare")>>, Msg("stopshare")) /\ ~Holds(<<Msg("stopshare")>>, HO(s))
      /\ Once(<<Msg("stopshare")>>, HO(s))
  BY <1>2, SingleQueue
<1>5. (Holds(d, HO(s)) <=> Holds(a, HO(s))) /\ (Once(a, HO(s)) => Once(d, HO(s)))
  <2> DEFINE w == <<Msg("stopshare")>>
  <2>1. w \in Seq(Wire) /\ ~Holds(w, HO(s)) /\ Once(w, HO(s)) /\ d = a \o w
    BY <1>3, <1>4
  <2> HIDE DEF w
  <2>2. /\ \A m : Holds(a \o w, m) <=> Holds(a, m) \/ Holds(w, m)
        /\ \A m : Once(a, m) /\ Once(w, m) /\ ~(Holds(a, m) /\ Holds(w, m)) => Once(a \o w, m)
    BY <2>1, JoinedQueue
  <2> QED BY <2>1, <2>2
<1>6. ~Holds(a, HO(s)) => Shields(d, Msg("stopshare"), HO(s))
  BY <1>3, <1>4, JoinedOrder
<1>7. OneSession(s, G, d, i, C, b, j)
  BY <1>1, <1>5 DEF Story, OneSession, Unoffered
<1>8. OneOffer(s, d, C, j)
  BY <1>5 DEF Story, OneOffer
<1>9. Awaited(s, O, G, d, i, C, j)
  BY <1>5 DEF Story, Awaited
<1>10. Hosts(G, s) => Unoffered(s, H, a, i, C, b, j)
  BY <1>1 DEF Hosts, Story, OneSession
<1>11. Hosts(G, s) => Barred(s, O, G, d, i, C, b, j)
  BY <1>1, <1>6, <1>10 DEF Unoffered, Barred, Streams
<1>12. Stopping(s, O, G, d, i, C, b, j)
  BY <1>11 DEF Stopping
<1>13. Sending(s, O, G, i)
  BY <1>1 DEF Sending, Live
<1> QED BY <1>7, <1>8, <1>9, <1>12, <1>13 DEF Story

\* The user ends the share.
LEMMA EndsShareKeeps == ASSUME PagesInv, NEW p \in Client, EndsShare(p) PROVE PagesInv'
<1>1. IsPage(page[p]) /\ page[p].phase = "in" /\ toServer[p] \in Seq(Wire)
  BY PageFacts DEF EndsShare
<1>2. PICK g : g = Stop(page[p])
  OBVIOUS
<1>3. IsMap(Empty, Session, HostPeer) /\ DOMAIN Empty = {}
  BY DEF Empty, IsMap
<1>4. /\ IsPage(g) /\ g.phase = "in" /\ ~g.stream
      /\ g.hosts = Empty /\ g.clients = page[p].clients
      /\ g.offering = page[p].offering /\ g.answering = page[p].answering
  BY <1>1, <1>2, <1>3 DEF Stop, IsPage
<1>5. PICK a : a = Append(toServer[p], Msg("stopshare"))
  OBVIOUS
<1>6. Silent(g)
  BY <1>3, <1>4 DEF Silent
<1>7. PageBecomes(p, g, a, toPage[p]) /\ UNCHANGED vars /\ shares' \in 0..MaxShares
  <2>1. shares' \in 0..MaxShares
    BY MaxSharesAssumption DEF EndsShare, StopIsPressed, PagesInv, PagesType
  <2> QED BY <1>1, <1>2, <1>5, <2>1 DEF EndsShare, Sends, Sent, PageBecomes, PagesInv, PagesType
<1>8. /\ Msg("stopshare") \in Wire /\ Msg("stopshare") # Msg("enter")
      /\ \A s : Msg("stopshare") # CA(s)
  BY Words DEF Plain
<1>9. ASSUME NEW s \in Proper, s.host = p, NEW C, NEW b, NEW j,
             Story(s, Open, page[p], toServer[p], toPage[p], C, b, j)
      PROVE  Story(s, Open, g, a, toPage[p], C, b, j)
  BY <1>1, <1>4, <1>5, <1>9, HostStops
<1>10. ASSUME NEW s \in Proper, s.client = p, NEW H, NEW d, NEW k,
              Story(s, Open, H, d, k, page[p], toServer[p], toPage[p])
       PROVE  Story(s, Open, H, d, k, g, a, toPage[p])
  <2>1. ClientLess(s, page[p], g)
    BY <1>1, <1>4 DEF ClientLess, Waits, Answered, Shut
  <2>2. ClientKeeps(s, Open, page[p], toServer[p], toPage[p], g, a, toPage[p])
    BY <1>1, <1>5, <1>8, <2>1, ClientWrites
  <2> QED BY <1>10, <2>2, ClientKeepsStory
<1>11. /\ toPage[p] \in Seq(Wire) /\ Placed(p, page[p], toPage[p]) /\ a \in Seq(Wire)
       /\ page[p].phase \notin {"away", "opening"} /\ g.phase = page[p].phase
  BY <1>1, <1>4, <1>5, <1>8, PageFacts, WrittenQueue
<1>12. Placed(p, g, toPage[p])
  BY <1>3, <1>4, <1>11 DEF Placed
<1>13. Fits(p, g, a, toPage[p])
  BY <1>4, <1>6, <1>9, <1>10, <1>11, <1>12 DEF Fits
<1> QED BY <1>4, <1>5, <1>7, <1>8, <1>11, <1>13, WriteStep

-----------------------------------------------------------------------------
\* Announcement, offer and answer

\* The story of a session that is announced to its host.
LEMMA HostIsAsked ==
    ASSUME NEW s, NEW O, NEW H, NEW a \in Seq(Wire), NEW i \in Seq(Wire), i # <<>>, NEW C, NEW b, NEW j,
           Story(s, O, H, a, i, C, b, j), Head(i) = HS(s),
           NEW G, G.hosts = H.hosts, s \in G.offering => s \in H.offering \/ G.stream
    PROVE  Story(s, O, G, a, Tail(i), C, b, j)
<1>1. /\ Holds(i, HS(s)) /\ Once(i, HS(s)) /\ s \notin H.offering
      /\ Unoffered(s, H, a, i, C, b, j)
  BY TailQueue DEF Story, OneSession
<1>2. /\ Once(Tail(i), HS(s)) /\ ~Holds(Tail(i), HS(s))
      /\ \A m : Holds(Tail(i), m) => Holds(i, m)
  BY <1>1, TailQueue
<1>3. Unoffered(s, G, a, Tail(i), C, b, j)
  BY <1>1, <1>2 DEF Unoffered
<1>4. OneSession(s, G, a, Tail(i), C, b, j)
  BY <1>2, <1>3 DEF OneSession
<1>5. Awaited(s, O, G, a, Tail(i), C, j)
  BY <1>1 DEF Story, Awaited
<1>6. s \in G.offering => G.stream
  BY <1>1
<1>7. Holds(a, Msg("stopshare")) => Shields(a, Msg("stopshare"), HO(s))
  <2>1. ASSUME Holds(a, Msg("stopshare")) PROVE Shields(a, Msg("stopshare"), HO(s))
    <3>1. PICK n \in DOMAIN a : a[n] = Msg("stopshare")
      BY <2>1 DEF Holds
    <3>2. \A l \in 1..(n - 1) : l \in DOMAIN a
      BY <3>1
    <3>3. \A l \in DOMAIN a : a[l] # HO(s)
      BY <1>1 DEF Unoffered, Holds
    <3> QED BY <3>1, <3>2, <3>3 DEF Shields
  <2> QED BY <2>1
<1>8. Holds(a, Msg("stopshare")) => Barred(s, O, G, a, Tail(i), C, b, j)
  BY <1>3, <1>7 DEF Unoffered, Barred, Streams
<1>9. Stopping(s, O, G, a, Tail(i), C, b, j)
  BY <1>3, <1>6, <1>8 DEF Stopping, Hosts, Unoffered
<1>10. Sending(s, O, G, Tail(i))
  BY <1>3 DEF Sending, Live, Unoffered
<1> QED BY <1>4, <1>5, <1>9, <1>10 DEF Story

\* A HostSession message: the host begins to make an offer.
LEMMA OnHostSessionKeeps == ASSUME PagesInv, NEW p \in Client, OnHostSession(p) PROVE PagesInv'
<1>1. /\ IsPage(page[p]) /\ toPage[p] \in Seq(Wire) /\ toServer[p] \in Seq(Wire) /\ Silent(page[p])
      /\ Placed(p, page[p], toPage[p])
      /\ page[p].phase = "in" /\ Hears(p, "hostsession")
  BY PageFacts DEF OnHostSession
<1>2. /\ toPage[p] # <<>> /\ Head(toPage[p]) \in Wire /\ Head(toPage[p]).type = "hostsession"
      /\ Holds(toPage[p], Head(toPage[p]))
  BY <1>1, HeardMessage
<1>3. PICK x : x = Head(toPage[p]).sid
  OBVIOUS
<1>4. x \in Proper /\ Head(toPage[p]) = HS(x)
  BY <1>2, <1>3, Spelled DEF OfSessions
<1>5. x.host = p
  BY <1>1, <1>2, <1>4 DEF Placed
<1>6. PICK g : g = IF page[p].stream THEN [page[p] EXCEPT !.offering = @ \cup {x}] ELSE page[p]
  OBVIOUS
<1>7. page' = [page EXCEPT ![p] = g] /\ UNCHANGED <<vars, shares, toServer>>
  BY <1>3, <1>6 DEF OnHostSession, PagesInv, PagesType
<1>8. /\ IsPage(g) /\ g.phase = "in" /\ g.stream = page[p].stream
      /\ g.hosts = page[p].hosts /\ g.clients = page[p].clients
      /\ g.answering = page[p].answering
      /\ g.offering \subseteq page[p].offering \cup {x}
      /\ x \in g.offering => x \in page[p].offering \/ g.stream
  BY <1>1, <1>4, <1>6 DEF Proper, IsPage
<1>9. Silent(g)
  BY <1>1, <1>8 DEF Silent
<1>10. ASSUME NEW s \in Proper, s.host = p, NEW C, NEW b, NEW j,
              Story(s, Open, page[p], toServer[p], toPage[p], C, b, j)
       PROVE  Story(s, Open, g, toServer[p], Tail(toPage[p]), C, b, j)
  <2>1. CASE s = x
    BY <1>1, <1>2, <1>4, <1>8, <1>10, <2>1, HostIsAsked
  <2>2. CASE s # x
    <3>1. HostLess(s, page[p], g)
      BY <1>1, <1>8, <2>2 DEF HostLess, Hosts
    <3>2. Head(toPage[p]) \notin {ES(s), Msg("closewriter")}
      BY <1>2, Words
    <3>3. HostKeeps(s, Open, page[p], toServer[p], toPage[p], g, toServer[p], Tail(toPage[p]))
      BY <1>1, <1>2, <3>1, <3>2, HostReads
    <3> QED BY <1>10, <3>3, HostKeepsStory
  <2> QED BY <2>1, <2>2
<1>11. ASSUME NEW s \in Proper, s.client = p, NEW H, NEW d, NEW k,
              Story(s, Open, H, d, k, page[p], toServer[p], toPage[p])
       PROVE  Story(s, Open, H, d, k, g, toServer[p], Tail(toPage[p]))
  <2>1. ClientLess(s, page[p], g)
    BY <1>1, <1>8 DEF ClientLess, Waits, Answered, Shut
  <2>2. Head(toPage[p]) # CS(s)
    BY <1>2, Words
  <2>3. ClientKeeps(s, Open, page[p], toServer[p], toPage[p], g, toServer[p], Tail(toPage[p]))
    BY <1>1, <1>2, <2>1, <2>2, ClientReads
  <2> QED BY <1>11, <2>3, ClientKeepsStory
<1>12. /\ \A s \in g.offering \cup DOMAIN g.hosts :
            s \in page[p].offering \cup DOMAIN page[p].hosts \/ (s \in Proper /\ s.host = p)
       /\ g.answering \subseteq page[p].answering \cup Proper
  BY <1>4, <1>5, <1>8
<1> QED BY <1>1, <1>7, <1>8, <1>9, <1>10, <1>11, <1>12, ReadStep

\* The story of a session that its host offers.
LEMMA HostOffers ==
    ASSUME NEW s, NEW O, NEW H, NEW a \in Seq(Wire), NEW i, NEW C, NEW b, NEW j,
           Story(s, O, H, a, i, C, b, j), s \in H.offering, HO(s) \in Wire,
           NEW G, G.phase = H.phase, G.stream = H.stream, s \notin G.offering,
           s \in DOMAIN G.hosts, G.hosts[s] = "offered",
           NEW d, d = a \/ d = Append(a, HO(s))
    PROVE  Story(s, O, G, d, i, C, b, j)
<1>1. Unoffered(s, H, a, i, C, b, j) /\ ~Holds(i, HS(s)) /\ Once(a, HO(s)) /\ Once(j, HO(s))
  BY DEF Story, OneSession, OneOffer
<1>2. /\ d \in Seq(Wire) /\ Once(d, HO(s))
      /\ Holds(d, Msg("stopshare")) => Holds(a, Msg("stopshare"))
  <2>1. Msg("stopshare") # HO(s)
    BY Words
  <2> QED BY <1>1, <2>1, WrittenQueue DEF Unoffered
<1>3. Shields(a, Msg("stopshare"), HO(s)) => Shields(d, Msg("stopshare"), HO(s))
  <2>1. CASE d = Append(a, HO(s))
    <3>1. d = a \o <<HO(s)>> /\ <<HO(s)>> \in Seq(Wire)
      BY <2>1, AppendedQueue
    <3> QED BY <3>1, JoinedOrder
  <2> QED BY <2>1
<1>4. OneSession(s, G, d, i, C, b, j)
  BY <1>1 DEF OneSession, Once, Holds
<1>5. OneOffer(s, d, C, j)
  BY <1>1, <1>2 DEF OneOffer, Unoffered
<1>6. Awaited(s, O, G, d, i, C, j)
  BY DEF Story, Awaited
<1>7. ~Streams(G, s)
  BY DEF Streams
<1>8. Barred(s, O, H, a, i, C, b, j) => Barred(s, O, G, d, i, C, b, j)
  BY <1>3, <1>7 DEF Barred
<1>9. Stopping(s, O, G, d, i, C, b, j)
  BY <1>2, <1>8 DEF Story, Stopping, Hosts
<1>10. Sending(s, O, G, i)
  BY <1>1, <1>7 DEF Sending, Unoffered
<1> QED BY <1>4, <1>5, <1>6, <1>9, <1>10 DEF Story

\* The offer is made.
LEMMA OfferKeeps == ASSUME PagesInv, NEW p \in Client, Offer(p) PROVE PagesInv'
<1>1. /\ IsPage(page[p]) /\ toServer[p] \in Seq(Wire) /\ toPage[p] \in Seq(Wire)
      /\ Silent(page[p]) /\ Placed(p, page[p], toPage[p])
      /\ InPhase(p, connected, told, page[p], toServer[p], toPage[p])
  BY PageFacts
<1>2. PICK x \in page[p].offering :
        /\ page' = [page EXCEPT ![p].offering = @ \ {x}, ![p].hosts = Put(@, x, "offered")]
        /\ Sends(p, About("hostoffer", x))
        /\ UNCHANGED <<vars, shares, toPage>>
  BY DEF Offer
<1>3. page[p].phase \notin {"away", "opening"}
  BY <1>1, <1>2, AwayFields DEF InPhase, Phase
<1>4. x \in Proper /\ x \in Session /\ x.host = p
  BY <1>1, <1>2 DEF Placed, Proper
<1>5. HO(x) = About("hostoffer", x) /\ HO(x) \in Wire /\ HO(x) # Msg("enter")
      /\ HO(x) # Msg("stopshare") /\ \A s : HO(x) # CA(s) /\ (s # x => HO(x) # HO(s))
  BY <1>4, Words DEF HO
<1>6. PICK f : f = [page[p] EXCEPT !.hosts = Put(@, x, "offered")]
  OBVIOUS
<1>19. "offered" \in HostPeer
  BY DEF HostPeer
<1>7. /\ IsPage(f) /\ f.phase = page[p].phase /\ f.stream = page[p].stream
      /\ f.clients = page[p].clients /\ f.offering = page[p].offering
      /\ f.answering = page[p].answering
      /\ DOMAIN f.hosts = DOMAIN page[p].hosts \cup {x} /\ f.hosts[x] = "offered"
      /\ \A s \in DOMAIN page[p].hosts : s # x => f.hosts[s] = page[p].hosts[s]
  <2>1. IsMap(Put(page[p].hosts, x, "offered"), Session, HostPeer)
    BY <1>1, <1>4, <1>19, PutType DEF IsPage
  <2>2. /\ IsPage(f) /\ f.phase = page[p].phase /\ f.stream = page[p].stream
        /\ f.clients = page[p].clients /\ f.offering = page[p].offering
        /\ f.answering = page[p].answering
        /\ f.hosts = Put(page[p].hosts, x, "offered")
    BY <1>1, <1>6, <2>1 DEF IsPage
  <2> QED BY <2>2 DEF Put
<1>8. PICK g : g = [f EXCEPT !.offering = @ \ {x}]
  OBVIOUS
<1>9. /\ IsPage(g) /\ g.phase = f.phase /\ g.stream = f.stream /\ g.hosts = f.hosts
      /\ g.clients = f.clients /\ g.answering = f.answering /\ g.offering = f.offering \ {x}
  BY <1>7, <1>8 DEF IsPage
<1>10. PICK a : a = Sent(p, HO(x))
  OBVIOUS
<1>11. a = toServer[p] \/ a = Append(toServer[p], HO(x))
  BY <1>10 DEF Sent
<1>12. PageBecomes(p, g, a, toPage[p]) /\ UNCHANGED vars /\ shares' \in 0..MaxShares
  <2>1. page' = [page EXCEPT ![p] = g]
    BY <1>1, <1>2, <1>6, <1>8 DEF IsPage
  <2> QED BY <1>2, <1>5, <1>10, <2>1 DEF Sends, PageBecomes, PagesInv, PagesType
<1>13. Silent(g)
  BY <1>1, <1>7, <1>9 DEF Silent
<1>14. ASSUME NEW s \in Proper, s.host = p, NEW C, NEW b, NEW j,
              Story(s, Open, page[p], toServer[p], toPage[p], C, b, j)
       PROVE  Story(s, Open, g, a, toPage[p], C, b, j)
  <2>1. CASE s = x
    BY <1>1, <1>2, <1>5, <1>7, <1>9, <1>11, <1>14, <2>1, HostOffers
  <2>2. CASE s # x
    <3>1. HostLess(s, page[p], g)
      BY <1>7, <1>9, <2>2 DEF HostLess, Hosts
    <3>2. HostKeeps(s, Open, page[p], toServer[p], toPage[p], g, a, toPage[p])
      BY <1>1, <1>5, <1>11, <2>2, <3>1, HostWrites
    <3> QED BY <1>14, <3>2, HostKeepsStory
  <2> QED BY <2>1, <2>2
<1>15. ASSUME NEW s \in Proper, s.client = p, NEW H, NEW d, NEW k,
              Story(s, Open, H, d, k, page[p], toServer[p], toPage[p])
       PROVE  Story(s, Open, H, d, k, g, a, toPage[p])
  <2>1. ClientLess(s, page[p], g)
    BY <1>7, <1>9 DEF ClientLess, Waits, Answered, Shut
  <2>2. ClientKeeps(s, Open, page[p], toServer[p], toPage[p], g, a, toPage[p])
    BY <1>1, <1>5, <1>11, <2>1, ClientWrites
  <2> QED BY <1>15, <2>2, ClientKeepsStory
<1>16. Placed(p, g, toPage[p])
  BY <1>1, <1>4, <1>7, <1>9 DEF Placed
<1>17. a \in Seq(Wire) /\ g.phase = page[p].phase
  BY <1>1, <1>5, <1>7, <1>9, <1>11, WrittenQueue
<1>18. Fits(p, g, a, toPage[p])
  BY <1>1, <1>9, <1>13, <1>14, <1>15, <1>16, <1>17 DEF Fits
<1> QED BY <1>3, <1>5, <1>11, <1>12, <1>17, <1>18, WriteStep

\* The story of a session whose client gets the offer.
LEMMA ClientIsOffered ==
    ASSUME NEW s, NEW O, NEW H, NEW a, NEW i, NEW C, NEW b, NEW j \in Seq(Wire), j # <<>>,
           Story(s, O, H, a, i, C, b, j), Head(j) = HO(s),
           NEW D, D.clients = C.clients
    PROVE  Story(s, O, H, a, i, D, b, Tail(j))
<1>1. Holds(j, HO(s)) /\ Once(j, HO(s))
  BY TailQueue DEF Story, OneOffer
<1>2. /\ Once(Tail(j), HO(s)) /\ ~Holds(Tail(j), HO(s))
      /\ \A m : Holds(Tail(j), m) => Holds(j, m)
  BY <1>1, TailQueue
<1>3. ~Unoffered(s, H, a, i, C, b, j) /\ ~Barred(s, O, H, a, i, C, b, j)
  BY <1>1 DEF Unoffered, Barred
<1>4. ~Holds(i, HS(s)) /\ s \notin H.offering /\ Once(i, HS(s))
  BY <1>3 DEF Story, OneSession
<1>5. ~Holds(a, HO(s)) /\ Once(a, HO(s))
  BY <1>1 DEF Story, OneOffer
<1>6. OneSession(s, H, a, i, D, b, Tail(j))
  BY <1>4 DEF OneSession
<1>7. OneOffer(s, a, D, Tail(j))
  BY <1>2, <1>5 DEF OneOffer
<1>8. Led(Tail(j), HO(s), CS(s)) /\ Free(Tail(j), HO(s), ES(s))
  BY <1>2 DEF Led, Free, Holds
<1>9. s \in O => ~Holds(j, ES(s)) /\ ~Shut(C, s)
  BY DEF Story, Awaited
<1>10. Awaited(s, O, H, a, i, D, Tail(j))
  BY <1>2, <1>4, <1>5, <1>8, <1>9 DEF Awaited, Shut
<1>11. H.phase = "in" /\ Hosts(H, s) => H.stream /\ ~(s \in O /\ Holds(a, Msg("stopshare")))
  BY <1>3 DEF Story, Stopping
<1>12. Stopping(s, O, H, a, i, D, b, Tail(j))
  BY <1>11 DEF Stopping
<1> QED BY <1>6, <1>7, <1>10, <1>12 DEF Story

\* An offer comes: the client begins to answer.
LEMMA OnHostOfferKeeps == ASSUME PagesInv, NEW p \in Client, OnHostOffer(p) PROVE PagesInv'
<1>1. /\ IsPage(page[p]) /\ toPage[p] \in Seq(Wire) /\ toServer[p] \in Seq(Wire)
      /\ Silent(page[p]) /\ Placed(p, page[p], toPage[p])
      /\ page[p].phase = "in" /\ Hears(p, "hostoffer")
  BY PageFacts DEF OnHostOffer
<1>2. toPage[p] # <<>> /\ Head(toPage[p]) \in Wire /\ Head(toPage[p]).type = "hostoffer"
  BY <1>1, HeardMessage
<1>3. PICK x : x = Head(toPage[p]).sid
  OBVIOUS
<1>4. x \in Proper /\ Head(toPage[p]) = HO(x)
  BY <1>2, <1>3, Spelled DEF OfSessions
<1>5. PICK g : g = IF Live(page[p].clients, x)
                   THEN [page[p] EXCEPT !.answering = @ \cup {x}] ELSE page[p]
  OBVIOUS
<1>6. page' = [page EXCEPT ![p] = g] /\ UNCHANGED <<vars, shares, toServer>>
  BY <1>3, <1>5 DEF OnHostOffer, PagesInv, PagesType
<1>7. /\ IsPage(g) /\ g.phase = "in" /\ g.stream = page[p].stream
      /\ g.hosts = page[p].hosts /\ g.clients = page[p].clients
      /\ g.offering = page[p].offering
      /\ g.answering \subseteq page[p].answering \cup {x}
  BY <1>1, <1>4, <1>5 DEF Proper, IsPage
<1>8. Silent(g)
  BY <1>1, <1>7 DEF Silent
<1>9. ASSUME NEW s \in Proper, s.host = p, NEW C, NEW b, NEW j,
             Story(s, Open, page[p], toServer[p], toPage[p], C, b, j)
      PROVE  Story(s, Open, g, toServer[p], Tail(toPage[p]), C, b, j)
  <2>1. HostLess(s, page[p], g)
    BY <1>1, <1>7 DEF HostLess, Hosts
  <2>2. Head(toPage[p]) \notin {ES(s), Msg("closewriter")}
    BY <1>2, Words
  <2>3. HostKeeps(s, Open, page[p], toServer[p], toPage[p], g, toServer[p], Tail(toPage[p]))
    BY <1>1, <1>2, <2>1, <2>2, HostReads
  <2> QED BY <1>9, <2>3, HostKeepsStory
<1>10. ASSUME NEW s \in Proper, s.client = p, NEW H, NEW d, NEW k,
              Story(s, Open, H, d, k, page[p], toServer[p], toPage[p])
       PROVE  Story(s, Open, H, d, k, g, toServer[p], Tail(toPage[p]))
  <2>1. CASE s = x
    BY <1>1, <1>2, <1>4, <1>7, <1>10, <2>1, ClientIsOffered
  <2>2. CASE s # x
    <3>1. ClientLess(s, page[p], g)
      BY <1>1, <1>7, <2>2 DEF ClientLess, Waits, Answered, Shut
    <3>2. Head(toPage[p]) # CS(s)
      BY <1>2, Words
    <3>3. ClientKeeps(s, Open, page[p], toServer[p], toPage[p], g, toServer[p], Tail(toPage[p]))
      BY <1>1, <1>2, <3>1, <3>2, ClientReads
    <3> QED BY <1>10, <3>3, ClientKeepsStory
  <2> QED BY <2>1, <2>2
<1>11. g.answering \subseteq page[p].answering \cup Proper
  BY <1>4, <1>7
<1> QED BY <1>1, <1>6, <1>7, <1>8, <1>9, <1>10, <1>11, ReadStep

\* The story of a session that its client answers.
LEMMA ClientAnswers ==
    ASSUME NEW s, NEW O, NEW H, NEW a, NEW i, NEW C, NEW b, NEW j,
           Story(s, O, H, a, i, C, b, j), s \in C.answering,
           NEW D, s \in DOMAIN D.clients, D.clients[s] = "answered", NEW e
    PROVE  Story(s, O, H, a, i, D, e, j)
<1>1. ~Unoffered(s, H, a, i, C, b, j) /\ ~Barred(s, O, H, a, i, C, b, j)
  BY DEF Unoffered, Barred
<1>2. /\ ~Holds(i, HS(s)) /\ s \notin H.offering /\ Once(i, HS(s))
      /\ ~Holds(a, HO(s)) /\ Once(a, HO(s)) /\ ~Holds(j, HO(s)) /\ Once(j, HO(s))
  BY <1>1 DEF Story, OneSession, OneOffer
<1>3. Led(j, HO(s), CS(s)) /\ Free(j, HO(s), ES(s)) /\ ~Shut(D, s)
  BY <1>2 DEF Led, Free, Holds, Shut
<1>4. OneSession(s, H, a, i, D, e, j) /\ OneOffer(s, a, D, j)
  BY <1>2 DEF OneSession, OneOffer
<1>5. Awaited(s, O, H, a, i, D, j)
  BY <1>2, <1>3 DEF Story, Awaited
<1>6. H.phase = "in" /\ Hosts(H, s) => H.stream /\ ~(s \in O /\ Holds(a, Msg("stopshare")))
  BY <1>1 DEF Story, Stopping
<1>7. Stopping(s, O, H, a, i, D, e, j)
  BY <1>6 DEF Stopping
<1> QED BY <1>4, <1>5, <1>7 DEF Story

\* The answer is made.
LEMMA AnswerKeeps == ASSUME PagesInv, NEW p \in Client, Answer(p) PROVE PagesInv'
<1>1. /\ IsPage(page[p]) /\ toServer[p] \in Seq(Wire) /\ toPage[p] \in Seq(Wire)
      /\ Silent(page[p]) /\ Placed(p, page[p], toPage[p])
      /\ InPhase(p, connected, told, page[p], toServer[p], toPage[p])
  BY PageFacts
<1>2. PICK x \in page[p].answering :
        /\ page' = [page EXCEPT
                ![p].answering = @ \ {x},
                ![p].clients = IF Live(@, x) THEN Put(@, x, "answered") ELSE @]
        /\ IF Live(page[p].clients, x)
           THEN Sends(p, About("clientanswer", x))
           ELSE UNCHANGED toServer
        /\ UNCHANGED <<vars, shares, toPage>>
  BY DEF Answer
<1>3. page[p].phase \notin {"away", "opening"}
  BY <1>1, <1>2, AwayFields DEF InPhase, Phase
<1>4. x \in Proper /\ x \in Session
  BY <1>1, <1>2 DEF Placed, Proper
<1>5. CA(x) = About("clientanswer", x) /\ CA(x) \in Wire /\ CA(x) # Msg("enter")
      /\ CA(x) # Msg("stopshare") /\ \A s : CA(x) # HO(s) /\ (s # x => CA(x) # CA(s))
  BY <1>4, Words DEF CA
<1>6. PICK C : C = IF Live(page[p].clients, x) THEN Put(page[p].clients, x, "answered")
                   ELSE page[p].clients
  OBVIOUS
<1>7. /\ IsMap(C, Session, ClientPeer)
      /\ Live(page[p].clients, x) => x \in DOMAIN C /\ C[x] = "answered"
      /\ ~Live(page[p].clients, x) => C = page[p].clients
      /\ \A s : s # x => /\ s \in DOMAIN C <=> s \in DOMAIN page[p].clients
                         /\ s \in DOMAIN C => C[s] = page[p].clients[s]
  <2>1. "answered" \in ClientPeer /\ IsMap(page[p].clients, Session, ClientPeer)
    BY <1>1 DEF ClientPeer, IsPage
  <2>2. IsMap(C, Session, ClientPeer)
    BY <1>4, <1>6, <2>1, PutType
  <2> QED BY <1>6, <2>2 DEF Put
<1>8. PICK g : g = [page[p] EXCEPT !.answering = @ \ {x}, !.clients = C]
  OBVIOUS
<1>9. /\ IsPage(g) /\ g.phase = page[p].phase /\ g.stream = page[p].stream
      /\ g.hosts = page[p].hosts /\ g.offering = page[p].offering
      /\ g.clients = C /\ g.answering = page[p].answering \ {x}
  BY <1>1, <1>7, <1>8 DEF IsPage
<1>10. PICK a : a = IF Live(page[p].clients, x) THEN Sent(p, CA(x)) ELSE toServer[p]
  OBVIOUS
<1>11. /\ a = toServer[p] \/ a = Append(toServer[p], CA(x))
       /\ ~Live(page[p].clients, x) => a = toServer[p]
  BY <1>10 DEF Sent
<1>12. PageBecomes(p, g, a, toPage[p]) /\ UNCHANGED vars /\ shares' \in 0..MaxShares
  <2>1. page' = [page EXCEPT ![p] = g]
    BY <1>1, <1>2, <1>6, <1>8 DEF IsPage
  <2>2. toServer' = [toServer EXCEPT ![p] = a]
    BY <1>2, <1>5, <1>10 DEF Sends, PagesInv, PagesType
  <2> QED BY <1>2, <2>1, <2>2 DEF PageBecomes, PagesInv, PagesType
<1>13. Silent(g)
  BY <1>1, <1>9 DEF Silent
<1>14. ASSUME NEW s \in Proper, s.host = p, NEW D, NEW b, NEW j,
              Story(s, Open, page[p], toServer[p], toPage[p], D, b, j)
       PROVE  Story(s, Open, g, a, toPage[p], D, b, j)
  <2>1. HostLess(s, page[p], g)
    BY <1>9 DEF HostLess, Hosts
  <2>2. HostKeeps(s, Open, page[p], toServer[p], toPage[p], g, a, toPage[p])
    BY <1>1, <1>5, <1>11, <2>1, HostWrites
  <2> QED BY <1>14, <2>2, HostKeepsStory
<1>15. ASSUME NEW s \in Proper, s.client = p, NEW H, NEW d, NEW k,
              Story(s, Open, H, d, k, page[p], toServer[p], toPage[p])
       PROVE  Story(s, Open, H, d, k, g, a, toPage[p])
  <2>1. CASE s = x /\ Live(page[p].clients, x)
    BY <1>2, <1>7, <1>9, <1>15, <2>1, ClientAnswers
  <2>2. CASE s # x
    <3>1. ClientLess(s, page[p], g)
      BY <1>7, <1>9, <2>2 DEF ClientLess, Waits, Answered, Shut
    <3>2. ClientKeeps(s, Open, page[p], toServer[p], toPage[p], g, a, toPage[p])
      BY <1>1, <1>5, <1>11, <2>2, <3>1, ClientWrites
    <3> QED BY <1>15, <3>2, ClientKeepsStory
  <2>3. CASE s = x /\ ~Live(page[p].clients, x)
    <3>1. ClientLess(s, page[p], g)
      BY <1>7, <1>9, <2>3 DEF ClientLess, Waits, Answered, Shut
    <3>2. ClientKeeps(s, Open, page[p], toServer[p], toPage[p], g, a, toPage[p])
      BY <1>11, <2>3, <3>1, ClientStill
    <3> QED BY <1>15, <3>2, ClientKeepsStory
  <2> QED BY <2>1, <2>2, <2>3
<1>16. Placed(p, g, toPage[p])
  BY <1>1, <1>9 DEF Placed
<1>17. a \in Seq(Wire)
  BY <1>1, <1>5, <1>11, WrittenQueue
<1>18. Fits(p, g, a, toPage[p])
  BY <1>1, <1>9, <1>13, <1>14, <1>15, <1>16, <1>17 DEF Fits
<1> QED BY <1>3, <1>5, <1>9, <1>11, <1>12, <1>18, WriteStep

\* The story of a session whose host gets the answer: nobody has ended the share meanwhile.
LEMMA HostIsAnswered ==
    ASSUME NEW s, NEW O, NEW H, NEW a, NEW i \in Seq(Wire), i # <<>>, NEW C, NEW b, NEW j,
           Story(s, O, H, a, i, C, b, j), Head(i) = CA(s), H.phase = "in", Live(H.hosts, s),
           NEW G, G.phase = "in", G.stream = H.stream, G.offering = H.offering
    PROVE  /\ H.stream
           /\ Story(s, O, G, a, Tail(i), C, b, j)
<1>1. /\ Holds(i, CA(s)) /\ \A m : Holds(Tail(i), m) => Holds(i, m)
      /\ \A m : Holds(i, m) => m = Head(i) \/ Holds(Tail(i), m)
      /\ \A m : Once(i, m) => Once(Tail(i), m)
  BY TailQueue
<1>2. ~Unoffered(s, H, a, i, C, b, j) /\ ~Barred(s, O, H, a, i, C, b, j)
  BY <1>1 DEF Unoffered, Barred
<1>3. ~Holds(i, HS(s)) /\ s \notin H.offering /\ Once(i, HS(s))
  BY <1>2 DEF Story, OneSession
<1>4. H.stream /\ ~(s \in O /\ Holds(a, Msg("stopshare")))
  BY <1>2 DEF Story, Stopping, Hosts, Live
<1>5. OneSession(s, G, a, Tail(i), C, b, j)
  BY <1>1, <1>3 DEF OneSession
<1>6. Awaited(s, O, G, a, Tail(i), C, j)
  BY <1>1 DEF Story, Awaited
<1>7. Stopping(s, O, G, a, Tail(i), C, b, j)
  BY <1>4 DEF Stopping
<1>8. s \in O \/ EndIn(i, s)
  BY <1>1 DEF Story, Sending
<1>9. CA(s) # ES(s) /\ CA(s) # Msg("closewriter")
  BY Words
<1>10. EndIn(i, s) => EndIn(Tail(i), s)
  BY <1>1, <1>9 DEF EndIn
<1>11. Sending(s, O, G, Tail(i))
  BY <1>8, <1>10 DEF Sending
<1> QED BY <1>4, <1>5, <1>6, <1>7, <1>11 DEF Story

\* An answer comes: the host sends.
LEMMA OnClientAnswerKeeps ==
    ASSUME PagesInv, NEW p \in Client, OnClientAnswer(p) PROVE PagesInv'
<1>1. /\ IsPage(page[p]) /\ toPage[p] \in Seq(Wire) /\ toServer[p] \in Seq(Wire)
      /\ Silent(page[p]) /\ Placed(p, page[p], toPage[p])
      /\ page[p].phase = "in" /\ Hears(p, "clientanswer")
  BY PageFacts DEF OnClientAnswer
<1>2. toPage[p] # <<>> /\ Head(toPage[p]) \in Wire /\ Head(toPage[p]).type = "clientanswer"
  BY <1>1, HeardMessage
<1>3. PICK x : x = Head(toPage[p]).sid
  OBVIOUS
<1>4. x \in Proper /\ Head(toPage[p]) = CA(x)
  BY <1>2, <1>3, Spelled DEF OfSessions
<1>5. PICK g : g = IF Live(page[p].hosts, x)
                   THEN [page[p] EXCEPT !.hosts[x] = "connected"] ELSE page[p]
  OBVIOUS
<1>6. page' = [page EXCEPT ![p] = g] /\ UNCHANGED <<vars, shares, toServer>>
  BY <1>3, <1>5 DEF OnClientAnswer, PagesInv, PagesType
<1>7. /\ IsPage(g) /\ g.phase = "in" /\ g.stream = page[p].stream
      /\ g.clients = page[p].clients /\ g.offering = page[p].offering
      /\ g.answering = page[p].answering
      /\ DOMAIN g.hosts = DOMAIN page[p].hosts
      /\ \A s \in DOMAIN g.hosts : s # x \/ ~Live(page[p].hosts, x) => g.hosts[s] = page[p].hosts[s]
  <2>1. CASE ~Live(page[p].hosts, x)
    BY <1>1, <1>5, <2>1
  <2>2. CASE Live(page[p].hosts, x)
    <3>1. IsMap([page[p].hosts EXCEPT ![x] = "connected"], Session, HostPeer)
      BY <1>1, <2>2 DEF Live, IsPage, IsMap, HostPeer
    <3> QED BY <1>1, <1>5, <2>2, <3>1 DEF IsPage
  <2> QED BY <2>1, <2>2
<1>8. ASSUME NEW s \in Proper, s.host = p, NEW C, NEW b, NEW j,
             Story(s, Open, page[p], toServer[p], toPage[p], C, b, j)
      PROVE  Story(s, Open, g, toServer[p], Tail(toPage[p]), C, b, j)
  <2>1. CASE s = x /\ Live(page[p].hosts, x)
    BY <1>1, <1>2, <1>4, <1>7, <1>8, <2>1, HostIsAnswered
  <2>2. CASE s # x \/ ~Live(page[p].hosts, x)
    <3>1. HostLess(s, page[p], g)
      BY <1>1, <1>7, <2>2 DEF HostLess, Hosts
    <3>2. Head(toPage[p]) \notin {ES(s), Msg("closewriter")}
      BY <1>2, Words
    <3>3. HostKeeps(s, Open, page[p], toServer[p], toPage[p], g, toServer[p], Tail(toPage[p]))
      BY <1>1, <1>2, <3>1, <3>2, HostReads
    <3> QED BY <1>8, <3>3, HostKeepsStory
  <2> QED BY <2>1, <2>2
<1>9. ASSUME NEW s \in Proper, s.client = p, NEW H, NEW d, NEW k,
             Story(s, Open, H, d, k, page[p], toServer[p], toPage[p])
      PROVE  Story(s, Open, H, d, k, g, toServer[p], Tail(toPage[p]))
  <2>1. ClientLess(s, page[p], g)
    BY <1>1, <1>7 DEF ClientLess, Waits, Answered, Shut
  <2>2. Head(toPage[p]) # CS(s)
    BY <1>2, Words
  <2>3. ClientKeeps(s, Open, page[p], toServer[p], toPage[p], g, toServer[p], Tail(toPage[p]))
    BY <1>1, <1>2, <2>1, <2>2, ClientReads
  <2> QED BY <1>9, <2>3, ClientKeepsStory
<1>10. Silent(g)
  <2>1. ASSUME Live(page[p].hosts, x) PROVE page[p].stream
    <3>1. x.host = p
      BY <1>1, <2>1 DEF Live, Placed
    <3>2. Story(x, Open, page[p], toServer[p], toPage[p],
                page[x.client], toServer[x.client], toPage[x.client])
      BY <1>4, <3>1 DEF PagesInv, StoryOf
    <3> QED BY <1>1, <1>2, <1>4, <2>1, <3>2, HostIsAnswered
  <2> QED BY <1>1, <1>7, <2>1 DEF Silent
<1> QED BY <1>1, <1>6, <1>7, <1>8, <1>9, <1>10, ReadStep

-----------------------------------------------------------------------------
\* What the loop's messages do to the story of a session

\* How d comes to be told n: d is known, comes in with a message, and hears of its end last.
Suits(d, n) ==
    /\ n \in Seq(Wire)
    /\ d \notin DOMAIN connected => n = <<>>
    /\ d \in DOMAIN connected /\ connected[d] = NoRoom =>
        /\ n # <<>> => Head(n) \in {Msg("room"), Msg("closewriter")}
        /\ d \in DOMAIN connected' /\ connected'[d] # NoRoom => n # <<>>
    /\ Final(n, Msg("closewriter"))
    /\ Holds(n, Msg("closewriter")) => d \notin DOMAIN connected'

\* What d's connection may become.
Remains(d) ==
    /\ d \in DOMAIN connected' =>
        /\ d \in DOMAIN connected
        /\ connected'[d] = connected[d] \/ (connected[d] = NoRoom /\ connected'[d] # NoRoom)
    /\ d \in DOMAIN connected' /\ connected'[d] = NoRoom => told'[d].info = told[d].info

\* What has been written to d, with n behind it.
LEMMA DeliveredQueue ==
    ASSUME PagesInv, NEW d \in Client, NEW n \in Seq(Wire), NEW k, k = Delivered(d, n)
    PROVE  /\ k \in Seq(Wire)
           /\ page[d].phase = "shut" => k = <<>>
           /\ page[d].phase # "shut" => k = toPage[d] \o n
           /\ n = <<>> => k = toPage[d]
<1>1. toPage[d] \in Seq(Wire) /\ InPhase(d, connected, told, page[d], toServer[d], toPage[d])
  BY PageFacts
<1>2. toPage[d] \o n \in Seq(Wire) /\ (n = <<>> => toPage[d] \o n = toPage[d])
  BY <1>1, JoinedQueue
<1> QED BY <1>1, <1>2 DEF Delivered, InPhase

LEMMA ToldInPhase ==
    ASSUME PagesInv, NEW d \in Client, NEW n, Suits(d, n), Remains(d),
           NEW a, a = toServer[d] \/ (toServer[d] # <<>> /\ a = Tail(toServer[d])),
           Holds(a, Msg("enter")) /\ d \in DOMAIN connected' => connected'[d] = connected[d],
           NEW k, k = Delivered(d, n)
    PROVE  InPhase(d, connected', told', page[d], a, k)
<1> DEFINE g == page[d]
           i == toPage[d]
           q == toServer[d]
<1>1. /\ IsPage(g) /\ q \in Seq(Wire) /\ i \in Seq(Wire) /\ n \in Seq(Wire)
      /\ InPhase(d, connected, told, g, q, i)
  BY PageFacts DEF Suits
<1>2. /\ k \in Seq(Wire) /\ (g.phase = "shut" => k = <<>>)
      /\ (g.phase # "shut" => k = i \o n) /\ (n = <<>> => k = i)
  BY <1>1, DeliveredQueue
<1>3. (Holds(a, Msg("enter")) => Holds(q, Msg("enter")))
      /\ (Once(q, Msg("enter")) => Once(a, Msg("enter")))
  BY <1>1, TailQueue
<1>4. /\ \A m : Holds(i \o n, m) <=> Holds(i, m) \/ Holds(n, m)
      /\ \A m : Final(n, m) /\ ~Holds(i, m) => Final(i \o n, m)
      /\ i # <<>> => i \o n # <<>> /\ Head(i \o n) = Head(i)
      /\ i = <<>> => i \o n = n
  BY <1>1, JoinedQueue
<1> HIDE DEF g, i, q
<1>5. g.phase = "away" => d \notin DOMAIN connected' /\ a = <<>> /\ k = <<>>
  <2> SUFFICES ASSUME g.phase = "away" PROVE d \notin DOMAIN connected' /\ a = <<>> /\ k = <<>>
    OBVIOUS
  <2>1. d \notin DOMAIN connected /\ q = <<>> /\ i = <<>>
    BY <1>1 DEF InPhase
  <2>2. n = <<>> /\ d \notin DOMAIN connected'
    BY <2>1 DEF Suits, Remains
  <2> QED BY <1>2, <2>1, <2>2 DEF q
<1>6. g.phase \in {"away", "opening"} => g = [Away EXCEPT !.phase = g.phase]
  BY <1>1 DEF InPhase
<1>7. g.phase = "shut" => k = <<>>
  BY <1>2
<1>8. Final(k, Msg("closewriter")) /\ (Holds(k, Msg("closewriter")) => d \notin DOMAIN connected')
  <2>1. CASE g.phase = "shut"
    BY <1>2, <2>1, EmptyQueue
  <2>2. CASE g.phase # "shut" /\ Holds(i, Msg("closewriter"))
    <3>1. d \notin DOMAIN connected
      BY <1>1, <2>2 DEF InPhase
    <3>2. n = <<>> /\ d \notin DOMAIN connected'
      BY <3>1 DEF Suits, Remains
    <3> QED BY <1>1, <1>2, <3>2 DEF InPhase
  <2>3. CASE g.phase # "shut" /\ ~Holds(i, Msg("closewriter"))
    BY <1>2, <1>4, <2>3 DEF Suits
  <2> QED BY <2>1, <2>2, <2>3
<1>9. g.phase = "opening" /\ d \in DOMAIN connected' => connected'[d] = NoRoom \/ k # <<>>
  <2> SUFFICES ASSUME g.phase = "opening", d \in DOMAIN connected', connected'[d] # NoRoom
               PROVE  k # <<>>
    OBVIOUS
  <2>1. d \in DOMAIN connected /\ k = i \o n
    BY <1>2 DEF Remains
  <2>2. CASE connected[d] = NoRoom
    <3>1. n # <<>>
      BY <2>1, <2>2 DEF Suits
    <3> QED BY <1>4, <2>1, <3>1
  <2>3. CASE connected[d] # NoRoom
    <3>1. i # <<>>
      BY <1>1, <2>1, <2>3 DEF InPhase
    <3> QED BY <1>4, <2>1, <3>1
  <2> QED BY <2>2, <2>3
<1>10. g.phase = "opening" /\ k # <<>> => Head(k).type \in {"room", "closewriter"}
  <2> SUFFICES ASSUME g.phase = "opening", k # <<>> PROVE Head(k).type \in {"room", "closewriter"}
    OBVIOUS
  <2>1. k = i \o n
    BY <1>2
  <2>2. CASE i # <<>>
    BY <1>1, <1>4, <2>1, <2>2 DEF InPhase
  <2>3. CASE i = <<>>
    <3>1. k = n /\ n # <<>>
      BY <1>4, <2>1, <2>3
    <3>2. d \in DOMAIN connected
      BY <3>1 DEF Suits
    <3>3. connected[d] = NoRoom
      BY <1>1, <2>3, <3>2 DEF InPhase
    <3>4. Head(n) \in {Msg("room"), Msg("closewriter")}
      BY <3>1, <3>2, <3>3 DEF Suits
    <3> QED BY <3>1, <3>4, Words
  <2> QED BY <2>2, <2>3
<1>11. Once(a, Msg("enter")) /\ (Holds(a, Msg("enter")) /\ d \in DOMAIN connected'
            => connected'[d] = NoRoom)
  BY <1>1, <1>3 DEF InPhase, Remains
<1>12. d \in DOMAIN connected' /\ connected'[d] = NoRoom => told'[d].info = Empty
  BY <1>1 DEF InPhase, Remains
<1> QED BY <1>5, <1>6, <1>7, <1>8, <1>9, <1>10, <1>11, <1>12 DEF InPhase, g

\* A host is told n, or the loop takes its first message.
LEMMA HostTold ==
    ASSUME NEW s, NEW O, NEW H, NEW a \in Seq(Wire), NEW i \in Seq(Wire), NEW n \in Seq(Wire),
           ~Holds(n, HS(s)), ~Holds(n, CA(s)),
           NEW d, \/ d = a
                  \/ a # <<>> /\ d = Tail(a) /\ (s \in O => Head(a) # Msg("stopshare")),
           NEW k, H.phase = "shut" => k = <<>>, H.phase # "shut" => k = i \o n
    PROVE  HostKeeps(s, O, H, a, i, H, d, k)
<1>1. /\ \A m : Holds(d, m) => Holds(a, m)
      /\ \A m : Once(a, m) => Once(d, m)
  BY TailQueue
<1>2. s \in O /\ Shields(a, Msg("stopshare"), HO(s)) => Shields(d, Msg("stopshare"), HO(s))
  <2>1. ASSUME a # <<>>, Head(a) # Msg("stopshare"), Shields(a, Msg("stopshare"), HO(s))
        PROVE  Shields(Tail(a), Msg("stopshare"), HO(s))
    BY <2>1, TailOrder
  <2> QED BY <2>1
<1>3. /\ \A m : Holds(k, m) => Holds(i, m) \/ Holds(n, m)
      /\ H.phase = "in" => \A m : Holds(i, m) => Holds(k, m)
      /\ Once(i, HS(s)) => Once(k, HS(s))
  <2>1. CASE H.phase = "shut"
    BY <2>1, EmptyQueue
  <2>2. CASE H.phase # "shut"
    <3>1. /\ \A m : Holds(i \o n, m) <=> Holds(i, m) \/ Holds(n, m)
          /\ \A m : Once(i, m) /\ Once(n, m) /\ ~(Holds(i, m) /\ Holds(n, m)) => Once(i \o n, m)
      BY JoinedQueue
    <3>2. Once(n, HS(s))
      BY DEF Once, Holds
    <3> QED BY <2>2, <3>1, <3>2
  <2> QED BY <2>1, <2>2
<1>4. H.phase = "in" /\ EndIn(i, s) => EndIn(k, s)
  BY <1>3 DEF EndIn
<1> QED BY <1>1, <1>2, <1>3, <1>4 DEF HostKeeps

\* A client.
LEMMA ClientTold ==
    ASSUME NEW s, NEW O, NEW C, NEW b \in Seq(Wire), NEW j \in Seq(Wire), NEW n \in Seq(Wire),
           ~Holds(n, HO(s)), s \in O => ~Holds(n, ES(s)),
           NEW e, e = b \/ (b # <<>> /\ e = Tail(b)),
           NEW l, C.phase = "shut" => l = <<>>, C.phase # "shut" => l = j \o n
    PROVE  ClientKeeps(s, O, C, b, j, C, e, l)
<1>1. Holds(e, CA(s)) => Holds(b, CA(s))
  BY TailQueue
<1>2. CASE C.phase = "shut"
  BY <1>1, <1>2, EmptyQueue DEF ClientKeeps
<1>3. CASE C.phase # "shut"
  <2>1. /\ \A m : Holds(j \o n, m) <=> Holds(j, m) \/ Holds(n, m)
        /\ \A m : Once(j, m) /\ Once(n, m) /\ ~(Holds(j, m) /\ Holds(n, m)) => Once(j \o n, m)
    BY JoinedQueue
  <2>2. Once(n, HO(s)) /\ Free(n, HO(s), ES(s))
    BY DEF Once, Holds, Free
  <2>3. Once(j, HO(s)) => Once(l, HO(s))
    BY <1>3, <2>1, <2>2
  <2>4. /\ Led(j, HO(s), CS(s)) => Led(l, HO(s), CS(s))
        /\ Free(j, HO(s), ES(s)) => Free(l, HO(s), ES(s))
    BY <1>3, <2>2, JoinedOrder
  <2> QED BY <1>1, <1>3, <2>1, <2>3, <2>4 DEF ClientKeeps
<1> QED BY <1>2, <1>3

\* The loop hands on the offer of an open session: its host has not ended the share since.
LEMMA OfferPassed ==
    ASSUME NEW s, NEW O, s \in O, NEW H, NEW a \in Seq(Wire), a # <<>>, NEW i,
           NEW C, NEW b, NEW j \in Seq(Wire), HO(s) \in Wire,
           Story(s, O, H, a, i, C, b, j), Head(a) = HO(s),
           NEW l, C.phase = "shut" => l = <<>>, C.phase # "shut" => l = j \o <<HO(s)>>
    PROVE  Story(s, O, H, Tail(a), i, C, b, l)
<1>1. Holds(a, HO(s)) /\ Once(a, HO(s)) /\ ~Holds(j, HO(s)) /\ s \notin C.answering /\ ~Answered(C, s)
  BY TailQueue DEF Story, OneOffer
<1>2. /\ ~Holds(Tail(a), HO(s)) /\ Once(Tail(a), HO(s))
      /\ \A m : Holds(Tail(a), m) => Holds(a, m)
  BY <1>1, TailQueue
<1>3. ~Unoffered(s, H, a, i, C, b, j)
  BY <1>1 DEF Unoffered
<1>4. ~Holds(i, HS(s)) /\ s \notin H.offering /\ Once(i, HS(s))
  BY <1>3 DEF Story, OneSession
<1>5. ~Shields(a, Msg("stopshare"), HO(s))
  <2>1. Msg("stopshare") # Head(a)
    BY Words
  <2> QED BY <2>1, TailOrder
<1>6. ~Barred(s, O, H, a, i, C, b, j)
  BY <1>5 DEF Barred
<1>7. H.phase = "in" /\ Hosts(H, s) => H.stream /\ ~Holds(a, Msg("stopshare"))
  BY <1>6 DEF Story, Stopping
<1>8. ~Holds(j, ES(s)) /\ ~Shut(C, s) /\ (C.phase # "shut" => Waits(C, s) \/ Holds(j, CS(s)))
  BY <1>1 DEF Story, Awaited
<1>9. /\ Once(l, HO(s)) /\ ~Holds(l, ES(s))
      /\ C.phase # "shut" => /\ Waits(C, s) \/ Led(l, HO(s), CS(s))
                             /\ Free(l, HO(s), ES(s))
  <2>1. CASE C.phase = "shut"
    BY <2>1, EmptyQueue
  <2>2. CASE C.phase # "shut"
    <3> DEFINE w == <<HO(s)>>
    <3>1. /\ w \in Seq(Wire) /\ Once(w, HO(s)) /\ Free(w, HO(s), ES(s)) /\ ~Holds(w, ES(s))
          /\ l = j \o w
      <4>1. HO(s) # ES(s)
        BY Words
      <4> QED BY <2>2, <4>1, SingleQueue
    <3> HIDE DEF w
    <3>2. /\ \A m : Holds(l, m) <=> Holds(j, m) \/ Holds(w, m)
          /\ \A m : Once(j, m) /\ Once(w, m) /\ ~(Holds(j, m) /\ Holds(w, m)) => Once(l, m)
      BY <3>1, JoinedQueue
    <3>3. Once(j, HO(s)) /\ Led(j, HO(s), CS(s)) /\ Free(j, HO(s), ES(s))
      BY <1>1 DEF Once, Holds, Led, Free
    <3>4. Holds(j, CS(s)) => Led(l, HO(s), CS(s))
      BY <3>1, <3>3, JoinedOrder
    <3>5. Free(l, HO(s), ES(s))
      BY <1>8, <3>1, <3>3, JoinedOrder
    <3> QED BY <1>1, <1>8, <2>2, <3>1, <3>2, <3>3, <3>4, <3>5
  <2> QED BY <2>1, <2>2
<1>10. OneSession(s, H, Tail(a), i, C, b, l)
  BY <1>4 DEF OneSession
<1>11. OneOffer(s, Tail(a), C, l)
  BY <1>1, <1>2, <1>9 DEF OneOffer
<1>12. Awaited(s, O, H, Tail(a), i, C, l)
  BY <1>2, <1>4, <1>8, <1>9 DEF Awaited
<1>13. Stopping(s, O, H, Tail(a), i, C, b, l)
  BY <1>2, <1>7 DEF Stopping
<1> QED BY <1>10, <1>11, <1>12, <1>13 DEF Story

\* The loop hands on the answer.
LEMMA AnswerPassed ==
    ASSUME NEW s, NEW O, s \in O, NEW H, NEW a, NEW i \in Seq(Wire),
           NEW C, NEW b \in Seq(Wire), b # <<>>, NEW j, CA(s) \in Wire,
           Story(s, O, H, a, i, C, b, j), Head(b) = CA(s),
           NEW k, H.phase = "shut" => k = <<>>, H.phase # "shut" => k = i \o <<CA(s)>>
    PROVE  Story(s, O, H, a, k, C, Tail(b), j)
<1>1. Holds(b, CA(s))
  BY TailQueue
<1>2. ~Unoffered(s, H, a, i, C, b, j) /\ ~Barred(s, O, H, a, i, C, b, j)
  BY <1>1 DEF Unoffered, Barred
<1>3. ~Holds(i, HS(s)) /\ s \notin H.offering /\ Once(i, HS(s))
  BY <1>2 DEF Story, OneSession
<1>4. H.phase = "in" /\ Hosts(H, s) => H.stream /\ ~Holds(a, Msg("stopshare"))
  BY <1>2 DEF Story, Stopping
<1>5. ~Holds(k, HS(s)) /\ Once(k, HS(s))
  <2>1. CASE H.phase = "shut"
    BY <2>1, EmptyQueue
  <2>2. CASE H.phase # "shut"
    <3> DEFINE w == <<CA(s)>>
    <3>1. w \in Seq(Wire) /\ Once(w, HS(s)) /\ ~Holds(w, HS(s)) /\ k = i \o w
      <4>1. CA(s) # HS(s)
        BY Words
      <4> QED BY <2>2, <4>1, SingleQueue
    <3> HIDE DEF w
    <3>2. /\ \A m : Holds(k, m) <=> Holds(i, m) \/ Holds(w, m)
          /\ \A m : Once(i, m) /\ Once(w, m) /\ ~(Holds(i, m) /\ Holds(w, m)) => Once(k, m)
      BY <3>1, JoinedQueue
    <3> QED BY <1>3, <3>1, <3>2
  <2> QED BY <2>1, <2>2
<1>6. OneSession(s, H, a, k, C, Tail(b), j)
  BY <1>3, <1>5 DEF OneSession
<1>7. Awaited(s, O, H, a, k, C, j)
  BY <1>5 DEF Story, Awaited
<1>8. Stopping(s, O, H, a, k, C, Tail(b), j)
  BY <1>4 DEF Stopping
<1>9. Sending(s, O, H, k)
  BY DEF Sending
<1> QED BY <1>6, <1>7, <1>8, <1>9 DEF Story

\* What is left of a queue the loop may have taken a message of, for s not a stopshare,
\* and what comes to a page that is told n.
Read(q, a) == a = q \/ (q # <<>> /\ a = Tail(q))
ReadFor(s, O, q, a) == a = q \/ (q # <<>> /\ a = Tail(q) /\ (s \in O => Head(q) # Msg("stopshare")))
Arrives(g, i, n, k) == (g.phase = "shut" => k = <<>>) /\ (g.phase # "shut" => k = i \o n)

\* The story of a session that there was, or was not, before the loop handled a message:
\* what changes for its host.
LEMMA HostTurned ==
    ASSUME NEW s, NEW O, NEW P, s \in P => s \in O, NEW H, NEW a \in Seq(Wire), NEW i \in Seq(Wire),
           NEW C, NEW b, NEW j, Story(s, O, H, a, i, C, b, j),
           NEW n \in Seq(Wire), ~Holds(n, HS(s)), ~Holds(n, CA(s)),
           s \in O /\ s \notin P => EndIn(n, s) \/ (a # <<>> /\ Head(a) = Msg("stopshare")),
           NEW d, ReadFor(s, P, a, d), NEW k, Arrives(H, i, n, k)
    PROVE  Story(s, P, H, d, k, C, b, j)
<1>1. HostKeeps(s, P, H, a, i, H, d, k)
  BY HostTold DEF ReadFor, Arrives
<1>2. CASE (s \in O) <=> (s \in P)
  <2>1. Story(s, P, H, a, i, C, b, j)
    BY <1>2, StoryOfTheSame
  <2> QED BY <1>1, <2>1, HostKeepsStory
<1>3. CASE s \in O /\ s \notin P /\ a # <<>> /\ Head(a) = Msg("stopshare")
  <2>1. Holds(a, Msg("stopshare"))
    BY <1>3, TailQueue
  <2>2. H.phase = "in" /\ Hosts(H, s) => Barred(s, O, H, a, i, C, b, j)
    BY <1>3, <2>1 DEF Story, Stopping
  <2>3. Live(H.hosts, s) => Hosts(H, s)
    BY DEF Live, Hosts
  <2>4. H.phase = "in" /\ Live(H.hosts, s) => ~Streams(H, s) /\ ~Holds(i, CA(s))
    BY <2>2, <2>3 DEF Barred
  <2>5. Story(s, P, H, a, i, C, b, j)
    BY <1>3, <2>4, StoryOfTheEnded
  <2> QED BY <1>1, <2>5, HostKeepsStory
<1>4. CASE s \in O /\ s \notin P /\ ~(a # <<>> /\ Head(a) = Msg("stopshare"))
  <2>1. HostKeeps(s, O, H, a, i, H, d, k)
    BY <1>4, HostTold DEF ReadFor, Arrives
  <2>2. Story(s, O, H, d, k, C, b, j)
    BY <2>1, HostKeepsStory
  <2>3. EndIn(n, s)
    BY <1>4
  <2>4. \A x : Holds(n, x) => Holds(i \o n, x)
    BY JoinedQueue
  <2>5. H.phase = "in" => EndIn(k, s)
    BY <2>3, <2>4 DEF EndIn, Arrives
  <2> QED BY <1>4, <2>2, <2>5, StoryOfTheEnded
<1> QED BY <1>2, <1>3, <1>4

\* And for its client.
LEMMA ClientTurned ==
    ASSUME NEW s, NEW P, NEW H, NEW a, NEW i, NEW C, NEW b \in Seq(Wire), NEW j \in Seq(Wire),
           Story(s, P, H, a, i, C, b, j),
           NEW m \in Seq(Wire), ~Holds(m, HO(s)), s \in P => ~Holds(m, ES(s)),
           NEW e, Read(b, e), NEW l, Arrives(C, j, m, l)
    PROVE  Story(s, P, H, a, i, C, e, l)
<1>1. ClientKeeps(s, P, C, b, j, C, e, l)
  BY ClientTold DEF Read, Arrives
<1> QED BY <1>1, ClientKeepsStory

-----------------------------------------------------------------------------
\* The loop takes a message

\* What a step of the loop must do.
LEMMA ServeStep ==
    ASSUME PagesInv, UNCHANGED <<shares, page>>,
           toServer' \in [Client -> Seq(Wire)], toPage' \in [Client -> Seq(Wire)],
           \A d \in Client :
                /\ InPhase(d, connected', told', page[d], toServer'[d], toPage'[d])
                /\ Placed(d, page[d], toPage'[d]),
           \A s \in Proper :
                Story(s, Open', page[s.host], toServer'[s.host], toPage'[s.host],
                      page[s.client], toServer'[s.client], toPage'[s.client])
    PROVE  PagesInv'
<1>1. PagesType'
  BY DEF PagesInv, PagesType
<1>2. ASSUME NEW d \in Client
      PROVE  /\ InPhase(d, connected', told', page'[d], toServer'[d], toPage'[d])
             /\ Placed(d, page'[d], toPage'[d]) /\ Silent(page'[d])
  BY DEF PagesInv
<1>3. ASSUME NEW s \in Proper PROVE StoryOf(s)'
  BY DEF StoryOf
<1> QED BY <1>1, <1>2, <1>3 DEF PagesInv

\* The queues after it.
LEMMA ServedQueues ==
    ASSUME PagesInv, NEW p \in Client, Serve(p)
    PROVE  /\ UNCHANGED <<shares, page>>
           /\ toServer[p] # <<>> /\ Head(toServer[p]) \in Wire
           /\ toServer' \in [Client -> Seq(Wire)]
           /\ toServer'[p] = Tail(toServer[p])
           /\ \A d \in Client : d # p => toServer'[d] = toServer[d]
<1>1. toServer \in [Client -> Seq(Wire)] /\ toServer[p] \in Seq(Wire) /\ toServer[p] # <<>>
  BY DEF Serve, PagesInv, PagesType
<1>2. Head(toServer[p]) \in Wire /\ Tail(toServer[p]) \in Seq(Wire)
  BY <1>1, TailQueue
<1> QED BY <1>1, <1>2 DEF Serve

\* A message that is dropped.
LEMMA DroppedKeeps ==
    ASSUME PagesInv, NEW p \in Client, Serve(p), UNCHANGED <<vars, toPage>>,
           \A s \in Open : s.host = p => Head(toServer[p]) # Msg("stopshare")
    PROVE  PagesInv'
<1> DEFINE a == Tail(toServer[p])
<1>1. /\ IsPage(page[p]) /\ toServer[p] \in Seq(Wire) /\ toPage[p] \in Seq(Wire)
      /\ InPhase(p, connected, told, page[p], toServer[p], toPage[p])
      /\ Placed(p, page[p], toPage[p]) /\ Silent(page[p])
  BY PageFacts
<1>2. toServer[p] # <<>> /\ a \in Seq(Wire)
  BY <1>1, TailQueue DEF Serve
<1>3. PageBecomes(p, page[p], a, toPage[p])
  BY DEF Serve, PageBecomes, PagesInv, PagesType
<1>4. ASSUME NEW s \in Proper, s.host = p
      PROVE  HostKeeps(s, Open, page[p], toServer[p], toPage[p], page[p], a, toPage[p])
  <2>1. \A m : Holds(a, m) => Holds(toServer[p], m)
    BY <1>1, <1>2, TailQueue
  <2>2. Once(toServer[p], HO(s)) => Once(a, HO(s))
    BY <1>1, <1>2, TailQueue
  <2>3. s \in Open /\ Shields(toServer[p], Msg("stopshare"), HO(s))
            => Shields(a, Msg("stopshare"), HO(s))
    BY <1>1, <1>2, <1>4, TailOrder
  <2> QED BY <2>1, <2>2, <2>3 DEF HostKeeps
<1>5. ASSUME NEW s \in Proper, s.client = p
      PROVE  ClientKeeps(s, Open, page[p], toServer[p], toPage[p], page[p], a, toPage[p])
  <2>1. \A m : Holds(a, m) => Holds(toServer[p], m)
    BY <1>1, <1>2, TailQueue
  <2> QED BY <2>1 DEF ClientKeeps
<1>6. Fits(p, page[p], a, toPage[p])
  BY <1>1, <1>2, <1>4, <1>5, KeepsFits
<1>7. InPhase(p, connected, told, page[p], a, toPage[p])
  <2>1. /\ \A m : Holds(a, m) => Holds(toServer[p], m)
        /\ \A m : Once(toServer[p], m) => Once(a, m)
    BY <1>1, <1>2, TailQueue
  <2> QED BY <1>1, <1>2, <2>1 DEF InPhase
<1>8. UNCHANGED <<vars, shares>>
  BY DEF Serve
<1> QED BY <1>3, <1>6, <1>7, <1>8, QuietPageStep

\* A message that is handed on, from x's end p to its end c.
LEMMA PassedKeeps ==
    ASSUME Loop, PagesInv, NEW p \in Client, Serve(p), UNCHANGED vars,
           NEW x \in Open, NEW c \in Client, NEW m, Head(toServer[p]) = m,
           \/ m = HO(x) /\ p = x.host /\ c = x.client
           \/ m = CA(x) /\ p = x.client /\ c = x.host,
           toPage' = [toPage EXCEPT ![c] = Delivered(c, <<m>>)]
    PROVE  PagesInv'
<1>1. /\ UNCHANGED <<shares, page>> /\ toServer[p] # <<>> /\ m \in Wire
      /\ toServer' \in [Client -> Seq(Wire)] /\ toServer'[p] = Tail(toServer[p])
      /\ \A d \in Client : d # p => toServer'[d] = toServer[d]
  BY ServedQueues
<1>2. /\ x \in Proper /\ x \in Session /\ x.host # x.client /\ p # c
      /\ c \in DOMAIN connected /\ connected[c] # NoRoom
  BY DEF Loop, Proper
<1>3. connected' = connected /\ told' = told /\ rooms' = rooms
  BY DEF vars
<1>4. Open' = Open
  BY <1>3 DEF Open
<1>5. ASSUME NEW d \in Client
      PROVE  /\ IsPage(page[d]) /\ toServer[d] \in Seq(Wire) /\ toPage[d] \in Seq(Wire)
             /\ InPhase(d, connected, told, page[d], toServer[d], toPage[d])
             /\ Placed(d, page[d], toPage[d])
  BY PageFacts
<1>6. PICK w : w = <<m>>
  OBVIOUS
<1>7. w \in Seq(Wire) /\ (\A n : Holds(w, n) <=> n = m) /\ (\A n : Once(w, n) /\ Final(w, n))
  BY <1>1, <1>6, SingleQueue
<1>8. toPage'[c] = Delivered(c, w) /\ \A d \in Client \ {c} : toPage'[d] = toPage[d]
  BY <1>6 DEF PagesInv, PagesType
<1>9. /\ toPage'[c] \in Seq(Wire)
      /\ page[c].phase = "shut" => toPage'[c] = <<>>
      /\ page[c].phase # "shut" => toPage'[c] = toPage[c] \o w
  BY <1>7, <1>8, DeliveredQueue
<1>10. toPage' \in [Client -> Seq(Wire)]
  BY <1>8, <1>9 DEF PagesInv, PagesType
<1>11. /\ \A s : m \notin {HS(s), CS(s), ES(s)} /\ m \notin {Msg("closewriter"), Msg("enter")}
       /\ m # Msg("stopshare")
       /\ \A s : s # x => m \notin {HO(s), CA(s)}
       /\ \A s : m = HO(s) => s = x /\ p = x.host /\ c = x.client
  BY <1>2, Words
<1>12. ASSUME NEW d \in Client
       PROVE  InPhase(d, connected', told', page[d], toServer'[d], toPage'[d])
  <2>1. Remains(d)
    BY <1>3 DEF Remains
  <2>2. toServer'[d] = toServer[d] \/ (toServer[d] # <<>> /\ toServer'[d] = Tail(toServer[d]))
    BY <1>1
  <2>3. d \in DOMAIN connected' => connected'[d] = connected[d]
    BY <1>3
  <2>4. CASE d = c
    <3>1. Suits(d, w)
      BY <1>2, <1>7, <1>11, <2>4 DEF Suits
    <3> QED BY <1>8, <2>1, <2>2, <2>3, <2>4, <3>1, ToldInPhase
  <2>5. CASE d # c
    <3>1. Suits(d, <<>>)
      BY <1>3, EmptyQueue DEF Suits
    <3>2. toPage'[d] = Delivered(d, <<>>)
      <4>1. PICK k : k = Delivered(d, <<>>)
        OBVIOUS
      <4>2. <<>> \in Seq(Wire)
        OBVIOUS
      <4>3. k = toPage[d]
        BY <4>1, <4>2, DeliveredQueue
      <4> QED BY <1>8, <2>5, <4>1, <4>3
    <3> QED BY <2>1, <2>2, <2>3, <3>1, <3>2, ToldInPhase
  <2> QED BY <2>4, <2>5
<1>13. ASSUME NEW d \in Client PROVE Placed(d, page[d], toPage'[d])
  <2>1. CASE d = c
    <3>1. \A n : Holds(toPage'[c], n) => Holds(toPage[c], n) \/ n = m
      <4>1. CASE page[c].phase = "shut"
        BY <1>9, <4>1, EmptyQueue
      <4>2. CASE page[c].phase # "shut"
        <5>1. toPage[c] \in Seq(Wire) /\ w \in Seq(Wire)
          BY <1>5, <1>7
        <5>2. \A n : Holds(toPage[c] \o w, n) <=> Holds(toPage[c], n) \/ Holds(w, n)
          BY <5>1, JoinedQueue
        <5> QED BY <1>7, <1>9, <4>2, <5>2
      <4> QED BY <4>1, <4>2
    <3> QED BY <1>5, <1>11, <2>1, <3>1 DEF Placed
  <2>2. CASE d # c
    BY <1>5, <1>8, <2>2
  <2> QED BY <2>1, <2>2
<1>14. ASSUME NEW s \in Proper
       PROVE  Story(s, Open', page[s.host], toServer'[s.host], toPage'[s.host],
                    page[s.client], toServer'[s.client], toPage'[s.client])
  <2>0. PICK h, v : h = s.host /\ v = s.client
    OBVIOUS
  <2>1. h \in Client /\ v \in Client /\ h # v
    BY <2>0 DEF Proper, Session
  <2>2. Story(s, Open, page[h], toServer[h], toPage[h], page[v], toServer[v], toPage[v])
    BY <2>0 DEF PagesInv, StoryOf
  <2>3. CASE s # x
    <3>1. ~Holds(w, HS(s)) /\ ~Holds(w, CA(s)) /\ ~Holds(w, HO(s)) /\ ~Holds(w, ES(s))
      BY <1>7, <1>11, <2>3
    <3>2. \/ toServer'[h] = toServer[h]
          \/ /\ toServer[h] # <<>> /\ toServer'[h] = Tail(toServer[h])
             /\ Head(toServer[h]) # Msg("stopshare")
      BY <1>1, <1>11, <2>1
    <3>3. toServer'[v] = toServer[v] \/ (toServer[v] # <<>> /\ toServer'[v] = Tail(toServer[v]))
      BY <1>1, <2>1
    <3>4. ASSUME NEW d \in Client
          PROVE  \E n \in {w, <<>>} :
                    /\ page[d].phase = "shut" => toPage'[d] = <<>>
                    /\ page[d].phase # "shut" => toPage'[d] = toPage[d] \o n
      <4>1. CASE d = c
        BY <1>9, <4>1
      <4>2. CASE d # c
        <5>1. toPage'[d] = toPage[d] /\ toPage[d] \o <<>> = toPage[d]
          BY <1>5, <1>8, <4>2
        <5>2. page[d].phase = "shut" => toPage[d] = <<>>
          BY <1>5 DEF InPhase
        <5> QED BY <5>1, <5>2
      <4> QED BY <4>1, <4>2
    <3>5. PICK n \in {w, <<>>} : /\ page[h].phase = "shut" => toPage'[h] = <<>>
                                 /\ page[h].phase # "shut" => toPage'[h] = toPage[h] \o n
      BY <2>1, <3>4
    <3>6. PICK l \in {w, <<>>} : /\ page[v].phase = "shut" => toPage'[v] = <<>>
                                 /\ page[v].phase # "shut" => toPage'[v] = toPage[v] \o l
      BY <2>1, <3>4
    <3>7. <<>> \in Seq(Wire) /\ \A y : ~Holds(<<>>, y)
      BY EmptyQueue
    <3>8. n \in Seq(Wire) /\ l \in Seq(Wire) /\ ~Holds(n, HS(s)) /\ ~Holds(n, CA(s))
          /\ ~Holds(l, HO(s)) /\ ~Holds(l, ES(s))
      BY <1>7, <3>1, <3>5, <3>6, <3>7
    <3>9. toServer[h] \in Seq(Wire) /\ toPage[h] \in Seq(Wire)
          /\ toServer[v] \in Seq(Wire) /\ toPage[v] \in Seq(Wire)
      BY <1>5, <2>1
    <3>10. PICK d : d = toServer'[h]
      OBVIOUS
    <3>11. PICK e : e = toServer'[v]
      OBVIOUS
    <3>12. PICK k : k = toPage'[h]
      OBVIOUS
    <3>13. PICK r : r = toPage'[v]
      OBVIOUS
    <3>14. d = toServer[h] \/ (toServer[h] # <<>> /\ d = Tail(toServer[h])
                /\ (s \in Open => Head(toServer[h]) # Msg("stopshare")))
      BY <3>2, <3>10
    <3>15. e = toServer[v] \/ (toServer[v] # <<>> /\ e = Tail(toServer[v]))
      BY <3>3, <3>11
    <3>16. /\ page[h].phase = "shut" => k = <<>>
           /\ page[h].phase # "shut" => k = toPage[h] \o n
           /\ page[v].phase = "shut" => r = <<>>
           /\ page[v].phase # "shut" => r = toPage[v] \o l
      <4>1. /\ page[h].phase = "shut" => k = <<>>
            /\ page[h].phase # "shut" => k = toPage[h] \o n
        BY <3>5, <3>12
      <4>2. /\ page[v].phase = "shut" => r = <<>>
            /\ page[v].phase # "shut" => r = toPage[v] \o l
        BY <3>6, <3>13
      <4> QED BY <4>1, <4>2
    <3>17. HostKeeps(s, Open, page[h], toServer[h], toPage[h], page[h], d, k)
      BY <3>8, <3>9, <3>14, <3>16, HostTold
    <3>18. ClientKeeps(s, Open, page[v], toServer[v], toPage[v], page[v], e, r)
      BY <3>8, <3>9, <3>15, <3>16, ClientTold
    <3>19. Story(s, Open, page[h], d, k, page[v], toServer[v], toPage[v])
      BY <2>2, <3>17, HostKeepsStory
    <3>20. Story(s, Open, page[h], d, k, page[v], e, r)
      BY <3>18, <3>19, ClientKeepsStory
    <3> QED BY <1>4, <3>10, <3>11, <3>12, <3>13, <3>20, <2>0
  <2>4. CASE s = x /\ m = HO(x) /\ p = x.host /\ c = x.client
    <3>1. Story(x, Open, page[p], toServer[p], toPage[p], page[c], toServer[c], toPage[c])
      BY <2>2, <2>4, <2>0
    <3>2. PICK l : l = toPage'[c]
      OBVIOUS
    <3>3. /\ page[c].phase = "shut" => l = <<>>
          /\ page[c].phase # "shut" => l = toPage[c] \o <<HO(x)>>
      BY <1>6, <1>9, <2>4, <3>2
    <3>4. /\ toServer[p] \in Seq(Wire) /\ toServer[p] # <<>> /\ toPage[c] \in Seq(Wire)
          /\ HO(x) \in Wire /\ Head(toServer[p]) = HO(x)
      BY <1>1, <1>5, <2>4
    <3>5. Story(x, Open, page[p], Tail(toServer[p]), toPage[p], page[c], toServer[c], l)
      BY <3>1, <3>3, <3>4, OfferPassed
    <3> QED BY <1>1, <1>2, <1>4, <1>8, <2>4, <3>2, <3>5
  <2>5. CASE s = x /\ m = CA(x) /\ p = x.client /\ c = x.host
    <3>1. Story(x, Open, page[c], toServer[c], toPage[c], page[p], toServer[p], toPage[p])
      BY <2>2, <2>5, <2>0
    <3>2. PICK k : k = toPage'[c]
      OBVIOUS
    <3>3. /\ page[c].phase = "shut" => k = <<>>
          /\ page[c].phase # "shut" => k = toPage[c] \o <<CA(x)>>
      BY <1>6, <1>9, <2>5, <3>2
    <3>4. /\ toServer[p] \in Seq(Wire) /\ toServer[p] # <<>> /\ toPage[c] \in Seq(Wire)
          /\ CA(x) \in Wire /\ Head(toServer[p]) = CA(x)
      BY <1>1, <1>5, <2>5
    <3>5. Story(x, Open, page[c], toServer[c], k, page[p], Tail(toServer[p]), toPage[p])
      BY <3>1, <3>3, <3>4, AnswerPassed
    <3> QED BY <1>1, <1>2, <1>4, <1>8, <2>5, <3>2, <3>5
  <2> QED BY <2>3, <2>4, <2>5
<1> QED BY <1>1, <1>10, <1>12, <1>13, <1>14, ServeStep

\* What is in the news, of a session.
LEMMA TidingsOf ==
    ASSUME NEW p, NEW type, NEW d, NEW n, Tidings(p, type, d, n), NEW s
    PROVE  /\ ~Holds(n, CA(s)) /\ ~Holds(n, HO(s))
           /\ Holds(n, HS(s)) => s \in Open' \ Open /\ s.host = d
           /\ Holds(n, ES(s)) => s \in Open \ Open'
<1>1. ASSUME NEW m, Holds(n, m), m \in {CA(s), HO(s), HS(s), ES(s)}
      PROVE  \/ m = HS(s) /\ s \in Open' \ Open /\ s.host = d
             \/ m = ES(s) /\ s \in Open \ Open'
  <2>1. \/ m \in {Msg("room"), Msg("closewriter")}
        \/ \E x \in Open \ Open' : m = ES(x)
        \/ \E x \in Open' \ Open : (x.host = d /\ m = HS(x)) \/ (x.client = d /\ m = CS(x))
    BY <1>1 DEF Tidings
  <2>2. m \notin {Msg("room"), Msg("closewriter")}
    BY <1>1, Words
  <2>3. CASE \E x \in Open \ Open' : m = ES(x)
    BY <1>1, <2>3, Words
  <2>4. CASE \E x \in Open' \ Open :
                (x.host = d /\ m = HS(x)) \/ (x.client = d /\ m = CS(x))
    <3>1. PICK x \in Open' \ Open :
                (x.host = d /\ m = HS(x)) \/ (x.client = d /\ m = CS(x))
      BY <2>4
    <3>2. CASE x.host = d /\ m = HS(x)
      <4>1. m.type = "hostsession" /\ m.sid = x
        BY <3>2, Words
      <4>2. m = HS(s)
        BY <1>1, <4>1, Words
      <4>3. s = x
        BY <4>1, <4>2, Words
      <4>4. s \in Open' \ Open
        BY <3>1, <4>3
      <4>5. s.host = d
        BY <3>2, <4>3
      <4> QED BY <4>2, <4>4, <4>5
    <3>3. CASE x.client = d /\ m = CS(x)
      <4>1. m.type = "clientsession"
        BY <3>3, Words
      <4> QED BY <1>1, <4>1, Words
    <3> QED BY <3>1, <3>2, <3>3
  <2> QED BY <2>1, <2>2, <2>3, <2>4
<1>2. HS(s) # ES(s) /\ HS(s) # CA(s) /\ HS(s) # HO(s) /\ ES(s) # CA(s) /\ ES(s) # HO(s)
  BY Words
<1> QED BY <1>1, <1>2

\* A new session is one nobody has heard of.
LEMMA UnheardOf ==
    ASSUME PagesInv, NewXids, NEW s \in Open' \ Open, s \in Session, NEW d \in Client
    PROVE  /\ s \notin DOMAIN page[d].hosts /\ s \notin DOMAIN page[d].clients
           /\ s \notin page[d].offering /\ s \notin page[d].answering
           /\ \A type : ~Holds(toServer[d], About(type, s)) /\ ~Holds(toPage[d], About(type, s))
<1> DEFINE sids(q) == {q[i].sid : i \in {j \in DOMAIN q : "sid" \in DOMAIN q[j]}}
<1>1. s \notin Mentioned
  <2>1. [s EXCEPT !.serial = s.serial] = s
    BY DEF Session
  <2> QED BY <2>1 DEF NewXids
<1>2. s \notin DOMAIN page[d].hosts \cup DOMAIN page[d].clients
                    \cup page[d].offering \cup page[d].answering
                    \cup sids(toServer[d]) \cup sids(toPage[d])
  BY <1>1 DEF Mentioned
<1>3. ASSUME NEW q, NEW type, Holds(q, About(type, s)) PROVE s \in sids(q)
  <2>1. PICK i \in DOMAIN q : q[i] = About(type, s)
    BY <1>3 DEF Holds
  <2>2. "sid" \in DOMAIN q[i] /\ q[i].sid = s
    BY <2>1 DEF About
  <2> QED BY <2>2
<1> HIDE DEF sids
<1> QED BY <1>2, <1>3

\* Somebody is told n: what becomes of a connection.
LEMMA TurnsStays ==
    ASSUME NEW p, NEW type, Turns(p, type), NEW d, NEW n, Tidings(p, type, d, n)
    PROVE  Suits(d, n) /\ Remains(d)
<1>1. Suits(d, n)
  BY DEF Tidings, Suits
<1>2. Remains(d)
  BY DEF Turns, Remains
<1> QED BY <1>1, <1>2

\* What each client is written.
LEMMA NewsComes ==
    ASSUME Loop, Loop', PagesInv, NEW p \in Client, p \in DOMAIN connected,
           NEW type, Turns(p, type), type = "enter" => connected[p] = NoRoom,
           \/ type # "enter" /\ Writes(p)
           \/ type = "enter" /\ WritesOnEntering(p),
           NEW d \in Client
    PROVE  \E n : Tidings(p, type, d, n) /\ toPage'[d] = Delivered(d, n)
<1>1. d \in DOMAIN connected /\ connected[d] = NoRoom => told[d].info = Empty
  BY PageFacts DEF InPhase
<1>2. ASSUME NEW n,
             \/ type # "enter" /\ n = News(p, d)
             \/ type = "enter" /\ n = NewsOnEntering(p, d)
      PROVE  Tidings(p, type, d, n)
  <2>1. CASE d \notin DOMAIN connected
    BY <1>2, <2>1, TidingsOfStrangers
  <2>2. CASE d \in DOMAIN connected /\ d \notin DOMAIN connected'
    BY <1>2, <2>2, TidingsOfTheEnd
  <2>3. CASE d \in DOMAIN connected /\ d \in DOMAIN connected'
    BY <1>1, <1>2, <2>3, TidingsOfThoseWhoStay
  <2> QED BY <2>1, <2>2, <2>3
<1>3. CASE type # "enter" /\ Writes(p)
  <2>1. toPage'[d] = Delivered(d, News(p, d))
    BY <1>3 DEF Writes
  <2>2. PICK n : n = News(p, d)
    OBVIOUS
  <2>3. Tidings(p, type, d, n)
    BY <1>2, <1>3, <2>2
  <2> QED BY <2>1, <2>2, <2>3
<1>4. CASE type = "enter" /\ WritesOnEntering(p)
  <2>1. toPage'[d] = Delivered(d, NewsOnEntering(p, d))
    BY <1>4 DEF WritesOnEntering
  <2>2. PICK n : n = NewsOnEntering(p, d)
    OBVIOUS
  <2>3. Tidings(p, type, d, n)
    BY <1>2, <1>4, <2>2
  <2> QED BY <2>1, <2>2, <2>3
<1> QED BY <1>3, <1>4

\* The story of a session that is new.
LEMMA StoryBegins ==
    ASSUME Loop', PagesInv, NewXids, NEW s \in Open' \ Open,
           NEW p, NEW type, NEW n, NEW m,
           Tidings(p, type, s.host, n), Tidings(p, type, s.client, m),
           NEW a, Read(toServer[s.host], a), NEW b, Read(toServer[s.client], b),
           NEW k, k = Delivered(s.host, n), NEW l, l = Delivered(s.client, m)
    PROVE  Story(s, Open', page[s.host], a, k, page[s.client], b, l)
<1>1. PICK h, v : h = s.host /\ v = s.client
  OBVIOUS
<1>2. s \in Session /\ h \in Client /\ v \in Client
  BY <1>1 DEF Loop, Proper, Session
<1>3. ASSUME NEW d \in {h, v}
      PROVE  /\ s \notin DOMAIN page[d].hosts /\ s \notin DOMAIN page[d].clients
             /\ s \notin page[d].offering /\ s \notin page[d].answering
             /\ \A x \in {HS(s), CS(s), HO(s), CA(s), ES(s)} :
                    ~Holds(toServer[d], x) /\ ~Holds(toPage[d], x)
             /\ toServer[d] \in Seq(Wire) /\ toPage[d] \in Seq(Wire)
  <2>1. d \in Client
    BY <1>2
  <2>2. /\ s \notin DOMAIN page[d].hosts /\ s \notin DOMAIN page[d].clients
        /\ s \notin page[d].offering /\ s \notin page[d].answering
        /\ \A t : ~Holds(toServer[d], About(t, s)) /\ ~Holds(toPage[d], About(t, s))
    BY <1>2, <2>1, UnheardOf
  <2> QED BY <2>1, <2>2, PageFacts DEF HS, CS, HO, CA, ES
<1>4. /\ ~Holds(a, HO(s)) /\ ~Holds(b, CA(s))
  <2>1. toServer[h] \in Seq(Wire) /\ ~Holds(toServer[h], HO(s))
    BY <1>3
  <2>2. toServer[v] \in Seq(Wire) /\ ~Holds(toServer[v], CA(s))
    BY <1>3
  <2>3. ASSUME toServer[h] # <<>> PROVE \A x : Holds(Tail(toServer[h]), x) => Holds(toServer[h], x)
    BY <2>1, <2>3, TailQueue
  <2>4. ASSUME toServer[v] # <<>> PROVE \A x : Holds(Tail(toServer[v]), x) => Holds(toServer[v], x)
    BY <2>2, <2>4, TailQueue
  <2>5. a = toServer[h] \/ (toServer[h] # <<>> /\ a = Tail(toServer[h]))
    BY <1>1 DEF Read
  <2>6. b = toServer[v] \/ (toServer[v] # <<>> /\ b = Tail(toServer[v]))
    BY <1>1 DEF Read
  <2>7. ~Holds(a, HO(s))
    BY <2>1, <2>3, <2>5
  <2>8. ~Holds(b, CA(s))
    BY <2>2, <2>4, <2>6
  <2> QED BY <2>7, <2>8
<1>5. n \in Seq(Wire) /\ m \in Seq(Wire) /\ Once(n, HS(s)) /\ Holds(m, CS(s))
  BY <1>1 DEF Tidings
<1>6. /\ page[h].phase = "shut" => k = <<>>
      /\ page[h].phase # "shut" => k = toPage[h] \o n
  <2>1. k = Delivered(h, n)
    BY <1>1
  <2> QED BY <1>2, <1>5, <2>1, DeliveredQueue
<1>7. /\ page[v].phase = "shut" => l = <<>>
      /\ page[v].phase # "shut" => l = toPage[v] \o m
  <2>1. l = Delivered(v, m)
    BY <1>1
  <2> QED BY <1>2, <1>5, <2>1, DeliveredQueue
<1>8. ~Holds(n, CA(s)) /\ ~Holds(m, HO(s)) /\ ~Holds(m, ES(s))
  BY TidingsOf
<1>9. ~Holds(k, CA(s)) /\ Once(k, HS(s))
  <2>1. CASE page[h].phase = "shut"
    BY <1>6, <2>1, EmptyQueue
  <2>2. CASE page[h].phase # "shut"
    <3>1. toPage[h] \in Seq(Wire) /\ ~Holds(toPage[h], CA(s)) /\ ~Holds(toPage[h], HS(s))
      BY <1>3
    <3>2. Once(toPage[h], HS(s))
      BY <3>1 DEF Once, Holds
    <3>3. k = toPage[h] \o n
      BY <1>6, <2>2
    <3>4. /\ \A x : Holds(k, x) <=> Holds(toPage[h], x) \/ Holds(n, x)
          /\ \A x : Once(toPage[h], x) /\ Once(n, x) /\ ~(Holds(toPage[h], x) /\ Holds(n, x))
                        => Once(k, x)
      BY <1>5, <3>1, <3>3, JoinedQueue
    <3> QED BY <1>5, <1>8, <3>1, <3>2, <3>4
  <2> QED BY <2>1, <2>2
<1>10. ~Holds(l, HO(s)) /\ ~Holds(l, ES(s)) /\ (page[v].phase # "shut" => Holds(l, CS(s)))
  <2>1. CASE page[v].phase = "shut"
    BY <1>7, <2>1, EmptyQueue
  <2>2. CASE page[v].phase # "shut"
    <3>1. toPage[v] \in Seq(Wire) /\ ~Holds(toPage[v], HO(s)) /\ ~Holds(toPage[v], ES(s))
      BY <1>3
    <3>2. l = toPage[v] \o m
      BY <1>7, <2>2
    <3>3. \A x : Holds(l, x) <=> Holds(toPage[v], x) \/ Holds(m, x)
      BY <1>5, <3>1, <3>2, JoinedQueue
    <3> QED BY <1>5, <1>8, <3>1, <3>3
  <2> QED BY <2>1, <2>2
<1>11. ~Hosts(page[h], s) /\ s \notin page[v].answering /\ s \notin DOMAIN page[v].clients
  BY <1>3 DEF Hosts
<1>12. Story(s, Open', page[h], a, k, page[v], b, l)
  BY <1>4, <1>9, <1>10, <1>11, StoryOfTheNew
<1> QED BY <1>1, <1>12

\* A message the loop handles.
LEMMA HandledKeeps ==
    ASSUME Loop, Loop', PagesInv, NEW p \in Client, p \in DOMAIN connected, Serve(p), NewXids,
           NEW type, type = Head(toServer[p]).type, Turns(p, type),
           \/ type # "enter" /\ Writes(p)
           \/ type = "enter" /\ WritesOnEntering(p)
    PROVE  PagesInv'
<1>1. /\ UNCHANGED <<shares, page>> /\ toServer[p] # <<>> /\ Head(toServer[p]) \in Wire
      /\ toServer' \in [Client -> Seq(Wire)] /\ toServer'[p] = Tail(toServer[p])
      /\ \A d \in Client : d # p => toServer'[d] = toServer[d]
  BY ServedQueues
<1>2. ASSUME NEW d \in Client
      PROVE  /\ IsPage(page[d]) /\ toServer[d] \in Seq(Wire) /\ toPage[d] \in Seq(Wire)
             /\ InPhase(d, connected, told, page[d], toServer[d], toPage[d])
             /\ Placed(d, page[d], toPage[d])
  BY PageFacts
<1>3. type = "enter" => connected[p] = NoRoom /\ ~Holds(toServer'[p], Msg("enter"))
  <2> SUFFICES ASSUME type = "enter"
               PROVE  connected[p] = NoRoom /\ ~Holds(toServer'[p], Msg("enter"))
    OBVIOUS
  <2>1. Head(toServer[p]) = Msg("enter")
    BY <1>1, Spelled DEF Plain
  <2>2. /\ Holds(toServer[p], Msg("enter")) /\ Once(toServer[p], Msg("enter"))
        /\ connected[p] = NoRoom
    <3>1. Holds(toServer[p], Msg("enter"))
      BY <1>1, <1>2, <2>1, TailQueue
    <3>2. InPhase(p, connected, told, page[p], toServer[p], toPage[p])
      BY <1>2
    <3> QED BY <3>1, <3>2 DEF InPhase
  <2>3. ~Holds(Tail(toServer[p]), Msg("enter"))
    BY <1>1, <1>2, <2>1, <2>2, TailQueue
  <2> QED BY <1>1, <2>2, <2>3
<1>4. ASSUME NEW d \in Client
      PROVE  \E n : Tidings(p, type, d, n) /\ toPage'[d] = Delivered(d, n)
  BY <1>3, NewsComes
<1>5. ASSUME NEW d \in Client
      PROVE  toServer'[d] = toServer[d] \/ (toServer[d] # <<>> /\ toServer'[d] = Tail(toServer[d]))
  BY <1>1
<1>6. toPage' \in [Client -> Seq(Wire)]
  <2>1. ASSUME NEW d \in Client PROVE toPage'[d] \in Seq(Wire)
    <3>1. PICK n : Tidings(p, type, d, n) /\ toPage'[d] = Delivered(d, n)
      BY <1>4
    <3>2. n \in Seq(Wire)
      BY <3>1 DEF Tidings
    <3> QED BY <3>1, <3>2, DeliveredQueue
  <2>2. toPage' = [d \in Client |-> toPage'[d]]
    BY DEF Writes, WritesOnEntering
  <2> QED BY <2>1, <2>2
<1>7. ASSUME NEW d \in Client
      PROVE  /\ InPhase(d, connected', told', page[d], toServer'[d], toPage'[d])
             /\ Placed(d, page[d], toPage'[d])
  <2>1. PICK n : Tidings(p, type, d, n) /\ toPage'[d] = Delivered(d, n)
    BY <1>4
  <2>2. Suits(d, n) /\ Remains(d)
    BY <2>1, TurnsStays
  <2>3. Holds(toServer'[d], Msg("enter")) /\ d \in DOMAIN connected' => connected'[d] = connected[d]
    BY <1>3 DEF Turns
  <2>4. InPhase(d, connected', told', page[d], toServer'[d], toPage'[d])
    BY <1>5, <2>1, <2>2, <2>3, ToldInPhase
  <2>5. n \in Seq(Wire)
    BY <2>2 DEF Suits
  <2>6. \A m : Holds(toPage'[d], m) => Holds(toPage[d], m) \/ Holds(n, m)
    <3>1. CASE page[d].phase = "shut"
      <4>1. toPage'[d] = <<>>
        BY <2>1, <2>5, <3>1, DeliveredQueue
      <4> QED BY <4>1, EmptyQueue
    <3>2. CASE page[d].phase # "shut"
      <4>1. toPage'[d] = toPage[d] \o n /\ toPage[d] \in Seq(Wire)
        BY <1>2, <2>1, <2>5, <3>2, DeliveredQueue
      <4> QED BY <2>5, <4>1, JoinedQueue
    <3> QED BY <3>1, <3>2
  <2>7. \A s : (Holds(n, HS(s)) => s.host = d) /\ ~Holds(n, HO(s))
    BY <2>1, TidingsOf
  <2>8. Placed(d, page[d], toPage'[d])
    BY <1>2, <2>6, <2>7 DEF Placed
  <2> QED BY <2>4, <2>8
<1>8. ASSUME NEW s \in Proper
      PROVE  Story(s, Open', page[s.host], toServer'[s.host], toPage'[s.host],
                   page[s.client], toServer'[s.client], toPage'[s.client])
  <2>1. PICK h, v : h = s.host /\ v = s.client
    OBVIOUS
  <2>2. h \in Client /\ v \in Client /\ h # v
    BY <2>1 DEF Proper, Session
  <2>3. PICK n : Tidings(p, type, h, n) /\ toPage'[h] = Delivered(h, n)
    BY <1>4, <2>2
  <2>4. PICK m : Tidings(p, type, v, m) /\ toPage'[v] = Delivered(v, m)
    BY <1>4, <2>2
  <2>5. PICK a : a = toServer'[h]
    OBVIOUS
  <2>6. PICK b : b = toServer'[v]
    OBVIOUS
  <2>7. PICK k : k = toPage'[h]
    OBVIOUS
  <2>8. PICK l : l = toPage'[v]
    OBVIOUS
  <2>9. /\ a = toServer[h] \/ (toServer[h] # <<>> /\ a = Tail(toServer[h]))
        /\ b = toServer[v] \/ (toServer[v] # <<>> /\ b = Tail(toServer[v]))
    BY <1>5, <2>2, <2>5, <2>6
  <2>10. CASE s \in Open' \ Open
    <3>2. Tidings(p, type, s.host, n) /\ Tidings(p, type, s.client, m)
      BY <2>1, <2>3, <2>4
    <3>3. Read(toServer[h], a) /\ Read(toServer[v], b)
      BY <2>9 DEF Read
    <3>4. Read(toServer[s.host], a) /\ Read(toServer[s.client], b)
      BY <2>1, <3>3
    <3>5. k = Delivered(s.host, n) /\ l = Delivered(s.client, m)
      BY <2>1, <2>3, <2>4, <2>7, <2>8
    <3>1. Story(s, Open', page[s.host], a, k, page[s.client], b, l)
      BY <2>10, <3>2, <3>3, <3>4, <3>5, StoryBegins
    <3> QED BY <2>1, <2>5, <2>6, <2>7, <2>8, <3>1
  <2>11. CASE s \notin Open' \ Open
    <3>1. Story(s, Open, page[h], toServer[h], toPage[h], page[v], toServer[v], toPage[v])
      BY <2>1 DEF PagesInv, StoryOf
    <3>2. n \in Seq(Wire) /\ m \in Seq(Wire)
      BY <2>3, <2>4 DEF Tidings
    <3>3. /\ page[h].phase = "shut" => k = <<>>
          /\ page[h].phase # "shut" => k = toPage[h] \o n
      BY <2>2, <2>3, <2>7, <3>2, DeliveredQueue
    <3>4. /\ page[v].phase = "shut" => l = <<>>
          /\ page[v].phase # "shut" => l = toPage[v] \o m
      BY <2>2, <2>4, <2>8, <3>2, DeliveredQueue
    <3>5. ~Holds(n, HS(s)) /\ ~Holds(n, CA(s))
      BY <2>3, <2>11, TidingsOf
    <3>6. ~Holds(m, HO(s)) /\ (s \in Open' => ~Holds(m, ES(s)))
      BY <2>4, TidingsOf
    <3>7. s \in Open' => s \in Open
      BY <2>11
    <3>8. ASSUME h = p, Head(toServer[p]) = Msg("stopshare") PROVE s \notin Open'
      <4>1. type = "stopshare"
        BY <3>8, Words
      <4> QED BY <2>1, <3>8, <4>1 DEF Turns
    <3>9. \/ a = toServer[h]
          \/ /\ toServer[h] # <<>> /\ a = Tail(toServer[h])
             /\ s \in Open' => Head(toServer[h]) # Msg("stopshare")
      BY <1>1, <2>2, <2>5, <3>8
    <3>10. s \in Open /\ s \notin Open' =>
                EndIn(n, s) \/ (toServer[h] # <<>> /\ Head(toServer[h]) = Msg("stopshare"))
      <4> SUFFICES ASSUME s \in Open, s \notin Open', ~EndIn(n, s)
                   PROVE  toServer[h] # <<>> /\ Head(toServer[h]) = Msg("stopshare")
        OBVIOUS
      <4>3. \A x \in Open \ Open' : x.host = h =>
                Holds(n, ES(x)) \/ Holds(n, Msg("closewriter")) \/ (h = p /\ type = "stopshare")
        BY <2>3 DEF Tidings
      <4>1. h = p /\ type = "stopshare"
        BY <2>1, <4>3 DEF EndIn
      <4>2. Head(toServer[p]) = Msg("stopshare")
        BY <1>1, <4>1, Spelled DEF Plain
      <4> QED BY <1>1, <4>1, <4>2
    <3>11. /\ toServer[h] \in Seq(Wire) /\ toPage[h] \in Seq(Wire)
           /\ toServer[v] \in Seq(Wire) /\ toPage[v] \in Seq(Wire)
      BY <1>2, <2>2
    <3>12. Story(s, Open', page[h], a, k, page[v], b, l)
      <4>1. PICK O, P, H, C : O = Open /\ P = Open' /\ H = page[h] /\ C = page[v]
        OBVIOUS
      <4>2. PICK q, i, r, j : q = toServer[h] /\ i = toPage[h] /\ r = toServer[v] /\ j = toPage[v]
        OBVIOUS
      <4>3. /\ Story(s, O, H, q, i, C, r, j) /\ (s \in P => s \in O)
            /\ q \in Seq(Wire) /\ i \in Seq(Wire) /\ r \in Seq(Wire) /\ j \in Seq(Wire)
        BY <3>1, <3>7, <3>11, <4>1, <4>2
      <4>4. /\ s \in O /\ s \notin P => EndIn(n, s) \/ (q # <<>> /\ Head(q) = Msg("stopshare"))
            /\ ~Holds(m, HO(s)) /\ (s \in P => ~Holds(m, ES(s)))
        BY <3>6, <3>10, <4>1, <4>2
      <4>5. ReadFor(s, P, q, a)
        BY <3>9, <4>1, <4>2 DEF ReadFor
      <4>6. Read(r, b)
        BY <2>9, <4>2 DEF Read
      <4>7. Arrives(H, i, n, k) /\ Arrives(C, j, m, l)
        BY <3>3, <3>4, <4>1, <4>2 DEF Arrives
      <4>8. Story(s, P, H, a, k, C, r, j)
        BY <3>2, <3>5, <4>3, <4>4, <4>5, <4>7, HostTurned
      <4>9. Story(s, P, H, a, k, C, b, l)
        BY <3>2, <4>3, <4>4, <4>6, <4>7, <4>8, ClientTurned
      <4> QED BY <4>1, <4>9
    <3> QED BY <2>1, <2>5, <2>6, <2>7, <2>8, <3>12
  <2> QED BY <2>10, <2>11
<1> QED BY <1>1, <1>6, <1>7, <1>8, ServeStep

LEMMA LoopGoesOn == LInv' => Loop'
BY LoopHolds, PTL

\* The loop takes a message.
LEMMA ServeKeeps == ASSUME LInv, LInv', PagesInv, NEW p \in Client, Serve(p) PROVE PagesInv'
<1>1. Loop /\ Loop'
  BY LoopHolds, LoopGoesOn
<1>2. toServer[p] # <<>> /\ Head(toServer[p]) \in Wire
  BY ServedQueues
<1>3. PICK m : m = Head(toServer[p])
  OBVIOUS
<1>4. CASE p \notin DOMAIN connected
  <2>1. UNCHANGED <<vars, toPage>>
    BY <1>4 DEF Serve
  <2>2. \A s \in Open : s.host # p
    BY <1>1, <1>4 DEF Loop
  <2> QED BY <2>1, <2>2, DroppedKeeps
<1>5. CASE p \in DOMAIN connected
  <2>1. Executes(p, m) /\ NewXids
    BY <1>3, <1>5 DEF Serve
  <2>2. \/ Handled(p, m.type) /\ Writes(p) /\ m.type # "enter"
        \/ Handled(p, "enter") /\ WritesOnEntering(p) /\ m.type = "enter"
        \/ Passed(p, m) /\ m.type \in {"hostoffer", "clientanswer"}
        \/ Ignored(p, m) /\ m.type \in {"hostoffer", "clientanswer"}
    BY <1>5, <2>1, ExecutesOutcome
  <2>3. CASE /\ Handled(p, m.type)
             /\ \/ m.type # "enter" /\ Writes(p)
                \/ m.type = "enter" /\ WritesOnEntering(p)
    <3>1. PICK type : type = m.type
      OBVIOUS
    <3>2. Turns(p, type)
      BY <2>3, <3>1, HandledTurns
    <3>3. type = Head(toServer[p]).type
      BY <1>3, <3>1
    <3>4. \/ type # "enter" /\ Writes(p)
          \/ type = "enter" /\ WritesOnEntering(p)
      BY <2>3, <3>1
    <3> QED BY <1>1, <1>5, <2>1, <3>2, <3>3, <3>4, HandledKeeps
  <2>4. CASE Passed(p, m) /\ m.type \in {"hostoffer", "clientanswer"}
    <3>1. PICK side \in Side, other \in Side :
            /\ m.type = "hostoffer" => side = "host" /\ other = "client"
            /\ m.type = "clientanswer" => side = "client" /\ other = "host"
            /\ m.sid[side] = p
            /\ toPage' = [toPage EXCEPT ![m.sid[other]] = Delivered(m.sid[other], <<m>>)]
      BY <2>4 DEF Passed
    <3>2. PICK x \in Open : x = m.sid
      BY <2>4 DEF Passed
    <3>3. UNCHANGED vars
      BY <2>4 DEF Passed
    <3>4. x.host \in Client /\ x.client \in Client
      BY <1>1 DEF Loop, Proper, Session
    <3>5. CASE m.type = "hostoffer"
      <4>1. m = HO(x)
        BY <1>2, <1>3, <3>2, <3>5, Spelled
      <4>2. p = x.host
        BY <3>1, <3>2, <3>5
      <4>3. PICK c \in Client : c = x.client
        BY <3>4
      <4>4. toPage' = [toPage EXCEPT ![c] = Delivered(c, <<m>>)]
        BY <3>1, <3>2, <3>5, <4>3
      <4> QED BY <1>1, <1>3, <3>3, <4>1, <4>2, <4>3, <4>4, PassedKeeps
    <3>6. CASE m.type = "clientanswer"
      <4>1. m = CA(x)
        BY <1>2, <1>3, <3>2, <3>6, Spelled
      <4>2. p = x.client
        BY <3>1, <3>2, <3>6
      <4>3. PICK c \in Client : c = x.host
        BY <3>4
      <4>4. toPage' = [toPage EXCEPT ![c] = Delivered(c, <<m>>)]
        BY <3>1, <3>2, <3>6, <4>3
      <4> QED BY <1>1, <1>3, <3>3, <4>1, <4>2, <4>3, <4>4, PassedKeeps
    <3> QED BY <2>4, <3>5, <3>6
  <2>5. CASE Ignored(p, m) /\ m.type \in {"hostoffer", "clientanswer"}
    <3>1. UNCHANGED <<vars, toPage>>
      BY <2>5 DEF Ignored
    <3>2. Head(toServer[p]) # Msg("stopshare")
      BY <1>3, <2>5, Words
    <3> QED BY <3>1, <3>2, DroppedKeeps
  <2>6. CASE Handled(p, "enter") /\ WritesOnEntering(p) /\ m.type = "enter"
    <3>1. Handled(p, m.type)
      BY <2>6
    <3> QED BY <2>3, <2>6, <3>1
  <2> QED BY <2>2, <2>3, <2>4, <2>5, <2>6
<1> QED BY <1>4, <1>5

\* Nothing happens.
LEMMA StillKeeps == ASSUME PagesInv, UNCHANGED allVars PROVE PagesInv'
<1>1. Open' = Open
  BY DEF Open, allVars, vars
<1>2. PagesType'
  BY DEF PagesInv, PagesType, IsPage, allVars, pageVars
<1>3. UNCHANGED <<connected, told, page, toServer, toPage>>
  BY DEF allVars, pageVars, vars
<1>4. ASSUME NEW p \in Client
      PROVE  /\ InPhase(p, connected', told', page'[p], toServer'[p], toPage'[p])
             /\ Placed(p, page'[p], toPage'[p])
             /\ Silent(page'[p])
  BY <1>3, PageFacts
<1>5. ASSUME NEW s \in Proper PROVE StoryOf(s)'
  BY <1>1, <1>3 DEF PagesInv, StoryOf
<1> QED BY <1>2, <1>4, <1>5 DEF PagesInv

\* Every step keeps the invariant.
LEMMA NextPages == LInv /\ LInv' /\ PagesInv /\ [PagesNext]_allVars => PagesInv'
<1> SUFFICES ASSUME LInv, LInv', PagesInv, [PagesNext]_allVars PROVE PagesInv'
  OBVIOUS
<1>1. CASE UNCHANGED allVars
  BY <1>1, StillKeeps
<1>2. CASE PagesNext
  <2>1. PICK p \in Client : Serve(p) \/ PageNext(p)
    BY <1>2 DEF PagesNext
  <2>2. CASE Serve(p)
    BY <2>2, ServeKeeps
  <2>3. CASE Enter(p)
    BY <2>3, EnterKeeps
  <2>4. CASE Lose(p)
    BY <2>4, LoseKeeps
  <2>5. CASE Quit(p)
    BY <2>5, QuitKeeps
  <2>6. CASE LeaveRoom(p)
    BY <2>6, LeaveRoomKeeps
  <2>7. CASE OnRoom(p)
    BY <2>7, OnRoomKeeps
  <2>8. CASE OnClose(p)
    BY <2>8, OnCloseKeeps
  <2>9. CASE OnHostSession(p)
    BY <2>9, OnHostSessionKeeps
  <2>10. CASE OnClientSession(p)
    BY <2>10, OnClientSessionKeeps
  <2>11. CASE OnHostOffer(p)
    BY <2>11, OnHostOfferKeeps
  <2>12. CASE OnClientAnswer(p)
    BY <2>12, OnClientAnswerKeeps
  <2>13. CASE OnEndShare(p)
    BY <2>13, OnEndShareKeeps
  <2>14. CASE Offer(p)
    BY <2>14, OfferKeeps
  <2>15. CASE Answer(p)
    BY <2>15, AnswerKeeps
  <2>16. CASE Share(p)
    BY <2>16, ShareKeeps
  <2>17. CASE EndsShare(p)
    BY <2>17, EndsShareKeeps
  <2>18. CASE HostFails(p)
    BY <2>18, HostFailsKeeps
  <2>19. CASE ClientFails(p)
    BY <2>19, ClientFailsKeeps
  <2> QED BY <2>1, <2>2, <2>3, <2>4, <2>5, <2>6, <2>7, <2>8, <2>9, <2>10, <2>11, <2>12,
             <2>13, <2>14, <2>15, <2>16, <2>17, <2>18, <2>19 DEF PageNext, Receive
<1> QED BY <1>1, <1>2

\* In the beginning nobody has said anything.
LEMMA PagesBegin == PagesInit => PagesInv
<1> SUFFICES ASSUME PagesInit PROVE PagesInv
  OBVIOUS
<1>1. /\ connected = Empty /\ shares = 0 /\ Open = {}
      /\ \A p \in Client : page[p] = Away /\ toServer[p] = <<>> /\ toPage[p] = <<>>
  BY DEF PagesInit, Init, Open, Empty
<1>2. Away.hosts = Empty /\ Away.clients = Empty /\ Away.offering = {} /\ Away.answering = {}
      /\ Away.phase = "away" /\ DOMAIN Empty = {}
  BY DEF Away, Empty
<1>3. PagesType
  <2>1. IsPage(Away)
    BY <1>2 DEF IsPage, Away, IsMap, Phase, Empty
  <2>2. <<>> \in Seq(Wire)
    OBVIOUS
  <2>3. shares \in 0..MaxShares
    BY <1>1, MaxSharesAssumption
  <2> QED BY <1>1, <2>1, <2>2, <2>3 DEF PagesType, PagesInit
<1>4. ASSUME NEW p \in Client
      PROVE  /\ InPhase(p, connected, told, page[p], toServer[p], toPage[p])
             /\ Placed(p, page[p], toPage[p]) /\ Silent(page[p])
  <2>1. p \notin DOMAIN connected
    BY <1>1, <1>2
  <2>2. Away = [Away EXCEPT !.phase = Away.phase]
    BY AwayFields DEF Away
  <2>3. InPhase(p, connected, told, Away, <<>>, <<>>)
    BY <1>2, <2>1, <2>2, EmptyQueue DEF InPhase
  <2>4. Placed(p, Away, <<>>) /\ Silent(Away)
    BY <1>2, EmptyQueue DEF Placed, Silent
  <2> QED BY <1>1, <2>3, <2>4
<1>5. ASSUME NEW s \in Proper PROVE StoryOf(s)
  <2>1. s.host \in Client /\ s.client \in Client
    BY DEF Proper, Session
  <2>2. ~Hosts(Away, s) /\ s \notin Away.answering /\ s \notin DOMAIN Away.clients
    BY <1>2 DEF Hosts
  <2>3. Story(s, Open, Away, <<>>, <<>>, Away, <<>>, <<>>)
    BY <2>2, EmptyQueue, StoryOfTheNew
  <2> QED BY <1>1, <2>1, <2>3 DEF StoryOf
<1> QED BY <1>3, <1>4, <1>5 DEF PagesInv

\* Pages, loop and what is on the way between them agree on how far every session has
\* come, whatever the users do and whichever websocket or peer connection fails.
THEOREM PagesInvariant == PagesSpec => []PagesInv
<1>1. PagesInit => PagesInv
  BY PagesBegin
<1>2. LInv /\ LInv' /\ PagesInv /\ [PagesNext]_allVars => PagesInv'
  BY NextPages
<1> QED BY <1>1, <1>2, PagesLedger, PTL DEF PagesSpec

-----------------------------------------------------------------------------
\* What it says of the pages

\* Whoever starts or stops to share while a page is coming in, what the page gets first
\* is a Room message, or its end.
THEOREM RoomFirst == PagesSpec => []RoomComesFirst
<1>1. PagesInv => RoomComesFirst
  BY DEF PagesInv, InPhase, RoomComesFirst
<1> QED BY <1>1, PagesInvariant, PTL

\* What the head of a page's queue can be, if it is an offer: one for a session the page
\* watches, and nothing is ahead of it.
LEMMA OfferAtHead ==
    ASSUME PagesInv, NEW p \in Client, page[p].phase = "in", toPage[p] # <<>>,
           NEW s, Head(toPage[p]) = HO(s), s \in Proper
    PROVE  s \in DOMAIN page[p].clients /\ page[p].clients[s] = "new"
<1>1. toPage[p] \in Seq(Wire) /\ Placed(p, page[p], toPage[p])
  BY PageFacts
<1>2. Holds(toPage[p], HO(s))
  BY <1>1, TailQueue
<1>3. s.client = p
  BY <1>1, <1>2 DEF Placed
<1>4. Story(s, Open, page[s.host], toServer[s.host], toPage[s.host],
            page[p], toServer[p], toPage[p])
  BY <1>3 DEF PagesInv, StoryOf
<1>5. Waits(page[p], s) \/ Led(toPage[p], HO(s), CS(s))
  BY <1>4 DEF Story, Awaited
<1>6. ~Led(toPage[p], HO(s), CS(s))
  BY <1>1, TailOrder
<1> QED BY <1>5, <1>6 DEF Waits

\* However loop and host interleave, an offer finds the peer that is to answer it.
THEOREM OffersFindTheirPeers == PagesSpec => []OfferFindsItsPeer
<1>1. PagesInv => OfferFindsItsPeer
  <2> SUFFICES ASSUME PagesInv, NEW p \in Client, page[p].phase = "in", toPage[p] # <<>>,
                      Head(toPage[p]).type = "hostoffer"
               PROVE  /\ Head(toPage[p]).sid \in DOMAIN page[p].clients
                      /\ page[p].clients[Head(toPage[p]).sid] = "new"
    BY DEF OfferFindsItsPeer
  <2>1. toPage[p] \in Seq(Wire)
    BY PageFacts
  <2>2. PICK m \in Wire : m = Head(toPage[p])
    BY <2>1, TailQueue
  <2>3. m = HO(m.sid) /\ m.sid \in Proper
    BY <2>2, Spelled DEF OfSessions
  <2> QED BY <2>2, <2>3, OfferAtHead
<1> QED BY <1>1, PagesInvariant, PTL

\* A screen is sent only over sessions that are open, or whose end is on its way.
THEOREM ScreensHaveSessions == PagesSpec => []ConnectedHostsHaveSessions
<1>1. PagesInv => ConnectedHostsHaveSessions
  <2> SUFFICES ASSUME PagesInv, NEW p \in Client, page[p].phase = "in",
                      NEW s \in DOMAIN page[p].hosts, page[p].hosts[s] = "connected",
                      s \notin Open
               PROVE  Ending(p, s)
    BY DEF ConnectedHostsHaveSessions
  <2>1. s \in Proper /\ s.host = p
    BY PageFacts DEF Placed
  <2>2. Story(s, Open, page[p], toServer[p], toPage[p],
              page[s.client], toServer[s.client], toPage[s.client])
    BY <2>1 DEF PagesInv, StoryOf
  <2>3. EndIn(toPage[p], s)
    BY <2>2 DEF Story, Sending, Streams, Live
  <2> QED BY <2>3 DEF EndIn, Holds, Ending, ES
<1> QED BY <1>1, PagesInvariant, PTL

\* Once a page has stopped to share, no peer of it gets to sending.
THEOREM StoppedPagesSendNothing == PagesSpec => []StoppedMeansStopped
<1>1. PagesInv => StoppedMeansStopped
  BY DEF PagesInv, Silent, StoppedMeansStopped
<1> QED BY <1>1, PagesInvariant, PTL

\* Whatever is on the way has one of the types the handlers know, and every page the
\* shape useRoom gives it.
THEOREM PagesTypes == PagesSpec => []PagesTypeOK
<1>1. Wire \subseteq [type : MsgType] \cup [type : MsgType, sid : Session]
  <2> SUFFICES ASSUME NEW m \in Wire
               PROVE  m \in [type : MsgType] \cup [type : MsgType, sid : Session]
    OBVIOUS
  <2>1. CASE \E type \in Plain : m = Msg(type)
    BY <2>1 DEF Plain, MsgType, Msg
  <2>2. CASE \E type \in OfSessions, s \in Proper : m = About(type, s)
    BY <2>2 DEF OfSessions, MsgType, About, Proper
  <2> QED BY <2>1, <2>2 DEF Wire
<1>2. PagesInv => PagesTypeOK
  <2> SUFFICES ASSUME PagesInv PROVE PagesTypeOK
    OBVIOUS
  <2>1. ASSUME NEW p \in Client, NEW q \in {toServer[p], toPage[p]}, NEW i \in DOMAIN q
        PROVE  q[i] \in [type : MsgType] \cup [type : MsgType, sid : Session]
    <3>1. q \in Seq(Wire)
      BY PageFacts
    <3> QED BY <1>1, <3>1
  <2> QED BY <2>1 DEF PagesTypeOK, PagesInv, PagesType
<1> QED BY <1>2, PagesInvariant, PTL

==============================================================================
