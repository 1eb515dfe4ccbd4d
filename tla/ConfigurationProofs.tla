---------------------------- MODULE ConfigurationProofs ----------------------------
(***************************************************************************)
(* What is made of a configuration: of the server's, for any addresses it  *)
(* may list, and of the settings a page finds in localStorage, for any     *)
(* modes, codecs and frame rates.                                          *)
(***************************************************************************)
EXTENDS Lifecycle, Settings, SequenceTheorems, WellFoundedInduction, TLAPS

-----------------------------------------------------------------------------
\* The server's

\* Where the command goes on with what it has read.
Served == {"provider", "users", "turn", "start", "notify", "waits"}

LifecycleInv ==
    /\ main \in Served \cup {"config", "over"}
    /\ exit # "panic"
    /\ config.ips \in Seq(Text)
    /\ main \in Served => provider = Parsed(config.ips) /\ provider # Nil /\ config.ips # <<>>

\* Of two addresses of different families neither replaces the other.
LEMMA StaticUsesAll ==
    ASSUME NEW ips \in Seq(Text), ips # <<>>, Len(ips) <= 2, Distinct(ips), NEW i \in DOMAIN ips
    PROVE  ips[i] \in {Static(ips)["v4"], Static(ips)["v6"]}
<1> DEFINE f == Family(ips[i])  of == {j \in DOMAIN ips : Family(ips[j]) = f}
<1>1. f \in {"v4", "v6"}
  BY DEF Family
<1>2. of = {i}
  <2>1. DOMAIN ips = 1 .. Len(ips) /\ Len(ips) \in {1, 2}
    <3>1. Len(ips) \in Nat \ {0}
      BY EmptySeq
    <3>2. \A n \in Nat \ {0} : n <= 2 => n \in {1, 2}
      OBVIOUS
    <3>3. Len(ips) \in {1, 2}
      BY <3>1, <3>2
    <3> QED BY <3>3
  <2>2. ASSUME NEW j \in DOMAIN ips, j # i PROVE Family(ips[j]) # f
    BY <2>1, <2>2 DEF Distinct
  <2> QED BY <2>2
<1>3. Max({i}) = i
  BY DEF Max
<1>4. Static(ips)[f] = IF of = {} THEN Nil ELSE ips[Max(of)]
  BY <1>1 DEF Static
<1> HIDE DEF f
<1>5. Static(ips)[f] = ips[i]
  BY <1>2, <1>3, <1>4
<1> QED BY <1>1, <1>5

LEMMA InitLifecycleInv == LifecycleInit => LifecycleInv
<1> SUFFICES ASSUME LifecycleInit PROVE LifecycleInv
  OBVIOUS
<1>1. config.ips \in Seq(Text)
  BY MaxIpsAssumption DEF LifecycleInit, Config, BoundedSeq, SeqOf
<1> QED BY <1>1 DEF LifecycleInit, LifecycleInv, Served

LEMMA NextLifecycleInv == LifecycleInv /\ [LifecycleNext]_lifecycleVars => LifecycleInv'
<1> SUFFICES ASSUME LifecycleInv, [LifecycleNext]_lifecycleVars PROVE LifecycleInv'
  OBVIOUS
<1> USE DEF LifecycleInv, Served
<1>1. CASE Get
  <2>1. CASE Fatal(config)
    BY <1>1, <2>1 DEF Get, Ends
  <2>2. CASE ~Fatal(config)
    BY <1>1, <2>2 DEF Get, Fatal
  <2> QED BY <2>1, <2>2
<1>2. CASE LookUp
  BY <1>2 DEF LookUp, Then, Ends
<1>3. CASE ReadUsers \/ StartTurn
  BY <1>3 DEF ReadUsers, StartTurn, Then, Ends
<1>4. CASE StartServer \/ Notify \/ Kill
  BY <1>4 DEF StartServer, Notify, Kill, Ends
<1>5. CASE ListenFails \/ Listen \/ Returns
  BY <1>5 DEF ListenFails, Listen, Returns
<1>6. CASE Interrupt \/ ShutDown \/ ShutDownFails
  BY <1>6 DEF Interrupt, ShutDown, ShutDownFails
<1>7. CASE WaitForServerToClose
  BY <1>7 DEF WaitForServerToClose, Reported, Ends
<1>8. ASSUME NEW r \in Request, Ask(r) \/ Answer(r)
      PROVE  LifecycleInv'
  BY <1>8 DEF Ask, Answer
<1>9. CASE UNCHANGED lifecycleVars
  BY <1>9 DEF lifecycleVars
<1> QED BY <1>1, <1>2, <1>3, <1>4, <1>5, <1>6, <1>7, <1>8, <1>9 DEF LifecycleNext

\* Whatever the environment and the files say: what config.Get accepts has somebody to
\* ask for an address (parseIPProvider), and no address of a list is dropped or replaced
\* by a later one of its family (parseStatic).
THEOREM EveryAcceptedAddressIsUsed == LifecycleSpec => []AcceptedAddressesAreUsed
<1>1. LifecycleInv => AcceptedAddressesAreUsed
  <2> SUFFICES ASSUME LifecycleInv, main \in Served, provider # Domain,
                      NEW i \in DOMAIN config.ips
               PROVE  config.ips[i] \in {provider["v4"], provider["v6"]}
    BY DEF LifecycleInv, AcceptedAddressesAreUsed, Served
  <2> DEFINE ips == config.ips
  <2>1. /\ ips \in Seq(Text) /\ ips # <<>>
        /\ provider = Parsed(ips) /\ provider # Nil
    BY DEF LifecycleInv
  <2>2. Len(ips) <= 2 /\ Distinct(ips) /\ provider = Static(ips)
    BY <2>1 DEF Parsed
  <2> HIDE DEF ips
  <2>3. i \in DOMAIN ips => ips[i] \in {Static(ips)["v4"], Static(ips)["v6"]}
    BY <2>1, <2>2, StaticUsesAll
  <2> QED BY <2>2, <2>3 DEF ips
<1> QED BY <1>1, InitLifecycleInv, NextLifecycleInv, PTL DEF LifecycleSpec

-----------------------------------------------------------------------------
\* A page's settings

StoredFields == {"displayMode", "framerate", "shareQuality", "preferCodec"}

\* What was found, or saved by this tab or another.
IsStored(item) ==
    \/ item = Invalid
    \/ /\ DOMAIN item = StoredFields
       /\ item.framerate \in Int \cup {Invalid, None}
       /\ item.preferCodec \in Preference

SettingsInv ==
    /\ IsStored(stored)
    /\ settings # None => settings \in LoadedSettings
    /\ input # None => settings # None /\ input \in LoadedSettings
    /\ capture # None => /\ capture.framerate \in minFrameRate .. maxFrameRate
                         /\ capture.framerate % 2 = 0
                         /\ capture.shareQuality \in ShareQuality
    /\ ours => settings # None /\ stored = settings

-----------------------------------------------------------------------------
\* What is made of what was found

LEMMA RoundedRate ==
    ASSUME NEW rate \in Int
    PROVE  Rounded(rate) \in Int /\ Rounded(rate) % 2 = 0
BY DEF Rounded

LEMMA NormalRate ==
    ASSUME NEW value \in Int \cup {Invalid}
    PROVE  /\ normalizeFrameRate(value) \in minFrameRate .. maxFrameRate
           /\ normalizeFrameRate(value) % 2 = 0
<1>1. CASE value = Invalid
  BY <1>1 DEF normalizeFrameRate, defaultFrameRate, minFrameRate, maxFrameRate
<1>2. CASE value # Invalid
  <2>1. Rounded(value) \in Int /\ Rounded(value) % 2 = 0
    BY <1>2, RoundedRate
  <2> QED
    BY <1>2, <2>1 DEF normalizeFrameRate, minFrameRate, maxFrameRate
<1> QED
  BY <1>1, <1>2

LEMMA Loads ==
    ASSUME NEW item, IsStored(item)
    PROVE  /\ loadSettings(item) \in LoadedSettings
           /\ loadSettings(item).framerate % 2 = 0
<1>1. FitToWindow \in DisplayMode /\ Balanced \in ShareQuality
  BY DefaultsAssumption
<1>2. defaultFrameRate \in minFrameRate .. maxFrameRate /\ defaultFrameRate % 2 = 0
  BY DEF defaultFrameRate, minFrameRate, maxFrameRate
<1>3. CASE item = Invalid
  BY <1>1, <1>2, <1>3 DEF loadSettings, LoadedSettings, Preference
<1>4. CASE item # Invalid
  <2> DEFINE rate == IF item.framerate = None THEN defaultFrameRate
                     ELSE normalizeFrameRate(item.framerate)
             mode == Known(item.displayMode, DisplayMode, FitToWindow)
             quality == Known(item.shareQuality, ShareQuality, Balanced)
             codec == IF item.preferCodec = None THEN CodecDefault ELSE item.preferCodec
  <2>1. rate \in minFrameRate .. maxFrameRate /\ rate % 2 = 0
    BY <1>2, <1>4, NormalRate DEF IsStored
  <2>2. mode \in DisplayMode /\ quality \in ShareQuality
    BY <1>1 DEF Known
  <2>3. codec \in Preference
    BY <1>4 DEF IsStored, Preference, Codec
  <2>4. loadSettings(item) = [displayMode |-> mode, framerate |-> rate,
                              shareQuality |-> quality, preferCodec |-> codec]
    BY <1>4 DEF loadSettings
  <2> HIDE DEF rate, mode, quality, codec
  <2> QED
    BY <2>1, <2>2, <2>3, <2>4 DEF LoadedSettings
<1> QED
  BY <1>3, <1>4

LEMMA SettingsAreStored ==
    \A s \in LoadedSettings : IsStored(s)
<1> SUFFICES ASSUME NEW s \in LoadedSettings PROVE IsStored(s)
  OBVIOUS
<1>1. /\ DOMAIN s = StoredFields /\ s.framerate \in minFrameRate .. maxFrameRate
      /\ s.preferCodec \in Preference
  BY DEF LoadedSettings, StoredFields
<1> QED
  BY <1>1 DEF IsStored, minFrameRate, maxFrameRate

\* What is saved is loaded as it is, but for the rounding and a codec that is absent.
LEMMA LoadsWhatWasSaved ==
    ASSUME NEW s \in LoadedSettings
    PROVE  loadSettings(s) =
               [s EXCEPT !.framerate = Rounded(@),
                         !.preferCodec = IF @ = None THEN CodecDefault ELSE @]
<1>1. /\ s.displayMode \in DisplayMode /\ s.shareQuality \in ShareQuality
      /\ s.framerate \in 2 .. 120 /\ DOMAIN s = StoredFields
      /\ s \in [displayMode : DisplayMode, framerate : minFrameRate .. maxFrameRate,
                shareQuality : ShareQuality, preferCodec : Preference]
  BY DEF LoadedSettings, minFrameRate, maxFrameRate, StoredFields
<1>2. s # Invalid /\ s.framerate # Invalid /\ s.framerate # None
  BY <1>1, PlaceholdersAssumption
<1>3. Rounded(s.framerate) \in 2 .. 120
  BY <1>1 DEF Rounded
<1>4. normalizeFrameRate(s.framerate) = Rounded(s.framerate)
  BY <1>2, <1>3 DEF normalizeFrameRate, minFrameRate, maxFrameRate
<1>5. loadSettings(s) = [displayMode |-> s.displayMode, framerate |-> Rounded(s.framerate),
                         shareQuality |-> s.shareQuality,
                         preferCodec |-> IF s.preferCodec = None THEN CodecDefault ELSE s.preferCodec]
  BY <1>1, <1>2, <1>4 DEF loadSettings, Known
<1> DEFINE rate == Rounded(s.framerate)
           codec == IF s.preferCodec = None THEN CodecDefault ELSE s.preferCodec
           new == [s EXCEPT !.framerate = rate, !.preferCodec = codec]
<1>6. new \in LoadedSettings /\ loadSettings(s) \in LoadedSettings
  <2>1. rate \in minFrameRate .. maxFrameRate /\ codec \in Preference
    BY <1>1, <1>3 DEF minFrameRate, maxFrameRate, Preference, Codec
  <2> HIDE DEF rate, codec
  <2>2. new \in LoadedSettings
    BY <1>1, <2>1 DEF LoadedSettings
  <2>3. IsStored(s)
    BY SettingsAreStored
  <2> QED
    BY <2>2, <2>3, Loads
<1>7. /\ new.displayMode = s.displayMode /\ new.shareQuality = s.shareQuality
      /\ new.framerate = rate /\ new.preferCodec = codec
  BY <1>1
<1>8. /\ loadSettings(s).displayMode = s.displayMode
      /\ loadSettings(s).shareQuality = s.shareQuality
      /\ loadSettings(s).framerate = rate /\ loadSettings(s).preferCodec = codec
  BY <1>5
<1>9. loadSettings(s) = new
  <2> HIDE DEF new, rate, codec
  <2> QED
    BY <1>6, <1>7, <1>8 DEF LoadedSettings
<1> QED
  BY <1>9

-----------------------------------------------------------------------------

LEMMA InitSettings == Init => SettingsInv
<1> SUFFICES ASSUME Init PROVE SettingsInv
  OBVIOUS
<1>1. IsStored(stored)
  BY FrameRateAssumption DEF Init, Stored, IsStored, StoredFields
<1> QED
  BY <1>1 DEF Init, SettingsInv

LEMMA NextSettings == SettingsInv /\ [Next]_vars => SettingsInv'
<1> SUFFICES ASSUME SettingsInv, [Next]_vars PROVE SettingsInv'
  OBVIOUS
<1> DEFINE loaded == loadSettings(stored)
<1>1. loaded \in LoadedSettings /\ loaded.framerate % 2 = 0
  BY Loads DEF SettingsInv
<1> HIDE DEF loaded
<1>2. CASE EnterRoom
  BY <1>1, <1>2 DEF EnterRoom, SettingsInv, loaded
<1>3. CASE LeaveRoom
  BY <1>3 DEF LeaveRoom, SettingsInv
<1>4. CASE OpenDialog
  BY <1>1, <1>4 DEF OpenDialog, SettingsInv, loaded
<1>5. CASE Choose
  <2>1. input' \in LoadedSettings /\ input # None
    BY <1>5 DEF Choose, SettingsInv, LoadedSettings, Preference
  <2> QED
    BY <1>5, <2>1 DEF Choose, SettingsInv
<1>6. ASSUME NEW rate \in FrameRate, Type(rate) PROVE SettingsInv'
  <2>1. input' \in LoadedSettings /\ input # None
    BY <1>6, FrameRateAssumption DEF Type, SettingsInv, LoadedSettings, minFrameRate, maxFrameRate
  <2> QED
    BY <1>6, <2>1 DEF Type, SettingsInv
<1>7. CASE Cancel
  BY <1>7 DEF Cancel, SettingsInv
<1>8. CASE Save
  BY <1>8, SettingsAreStored DEF Save, saveSettings, SettingsInv
<1>9. CASE SavesElsewhere
  <2>1. stored' \in LoadedSettings
    <3>1. \A mode \in DisplayMode : [loaded EXCEPT !.displayMode = mode] \in LoadedSettings
      BY <1>1 DEF LoadedSettings
    <3>2. \A rate \in FrameRate \cap (minFrameRate .. maxFrameRate) :
              [loaded EXCEPT !.framerate = Rounded(rate)] \in LoadedSettings
      <4> TAKE rate \in FrameRate \cap (minFrameRate .. maxFrameRate)
      <4>1. Rounded(rate) \in minFrameRate .. maxFrameRate
        BY DEF Rounded, minFrameRate, maxFrameRate
      <4> QED
        BY <1>1, <4>1 DEF LoadedSettings
    <3>3. \A quality \in ShareQuality : [loaded EXCEPT !.shareQuality = quality] \in LoadedSettings
      BY <1>1 DEF LoadedSettings
    <3>4. \A codec \in Codec : [loaded EXCEPT !.preferCodec = codec] \in LoadedSettings
      BY <1>1 DEF LoadedSettings, Preference
    <3> QED
      BY <1>9, <3>1, <3>2, <3>3, <3>4 DEF SavesElsewhere, loaded
  <2> QED
    BY <1>9, <2>1, SettingsAreStored DEF SavesElsewhere, SettingsInv
<1>10. CASE Share
  BY <1>1, <1>10 DEF Share, SettingsInv, LoadedSettings, loaded
<1>11. CASE HostSession
  BY <1>11 DEF HostSession, SettingsInv
<1>12. CASE UNCHANGED vars
  BY <1>12 DEF vars, SettingsInv
<1> QED
  BY <1>2, <1>3, <1>4, <1>5, <1>6, <1>7, <1>8, <1>9, <1>10, <1>11, <1>12 DEF Next

\* Whatever is found, typed, chosen, and saved by this tab or another: rooms, dialogs and
\* shares have settings that exist, and what this tab saved last is what is loaded.
THEOREM SettingsExist == Spec => []SettingsAreUsed
<1>1. SettingsInv => SettingsAreUsed
  <2> SUFFICES ASSUME SettingsInv PROVE SettingsAreUsed
    OBVIOUS
  <2>1. ours => loadSettings(stored) =
            [settings EXCEPT !.framerate = Rounded(@),
                             !.preferCodec = IF @ = None THEN CodecDefault ELSE @]
    BY LoadsWhatWasSaved DEF SettingsInv
  <2> QED
    BY <2>1 DEF SettingsInv, SettingsAreUsed
<1> QED
  BY <1>1, InitSettings, NextSettings, PTL DEF Spec

-----------------------------------------------------------------------------
\* The codecs of a session

LEMMA LeastNatural ==
    ASSUME NEW T \in SUBSET Nat, T # {}
    PROVE  \E x \in T : \A y \in T : x <= y
<1>1. IsWellFoundedOn(OpToRel(<, Nat), Nat)
  BY NatLessThanWellFounded
<1>2. PICK R : R = OpToRel(<, Nat)
  OBVIOUS
<1>3. \E x \in T : \A y \in T : ~(<<y, x>> \in R)
  BY <1>1, <1>2, WFMin
<1>4. \A x, y \in Nat : <<y, x>> \in R <=> y < x
  BY <1>2 DEF OpToRel
<1>5. PICK x \in T : \A y \in T : ~(<<y, x>> \in R)
  BY <1>3
<1>6. x \in Nat /\ \A y \in T : y \in Nat /\ ~(y < x)
  BY <1>4, <1>5
<1>7. \A y \in T : x <= y
  BY <1>6
<1> QED BY <1>7

\* Induction for a set in the place of a predicate.
LEMMA EveryNatural ==
    ASSUME NEW S, 0 \in S, \A n \in Nat : n \in S => n + 1 \in S
    PROVE  Nat \subseteq S
<1> SUFFICES ASSUME Nat \ S # {} PROVE FALSE
  OBVIOUS
<1> DEFINE T == Nat \ S
<1>1. T \in SUBSET Nat /\ T # {}
  OBVIOUS
<1> HIDE DEF T
<1>2. PICK x \in T : \A y \in T : x <= y
  BY <1>1, LeastNatural
<1>3. x \in Nat /\ x \notin S /\ \A y \in Nat : y \notin S => x <= y
  BY <1>2 DEF T
<1>4. x # 0
  BY <1>3
<1>5. x - 1 \in Nat /\ x - 1 \in S
  BY <1>3, <1>4
<1>6. (x - 1) + 1 \in S
  BY <1>5
<1> QED BY <1>3, <1>6

Nothing == [exactMatch |-> <<>>, mimeMatch |-> <<>>, others |-> <<>>]

\* f says what the lists hold after each of m codecs.
ForEach(f, m, prefer) ==
    f = [n \in 0 .. m |-> IF n = 0 THEN Nothing ELSE Push(f[n - 1], Native[n], prefer)]

LEMMA ForEachExists ==
    ASSUME NEW prefer
    PROVE  \A m \in Nat : \E f : ForEach(f, m, prefer)
<1> DEFINE S == {m \in Nat : \E f : ForEach(f, m, prefer)}
<1>1. 0 \in S
  <2> DEFINE f == [n \in 0 .. 0 |-> Nothing]
  <2>1. f = [n \in 0 .. 0 |-> IF n = 0 THEN Nothing ELSE Push(f[n - 1], Native[n], prefer)]
    OBVIOUS
  <2> QED BY <2>1 DEF ForEach
<1>2. ASSUME NEW m \in Nat, m \in S PROVE m + 1 \in S
  <2>1. PICK f : ForEach(f, m, prefer)
    BY <1>2
  <2> DEFINE g == [n \in 0 .. m + 1 |-> IF n = m + 1 THEN Push(f[m], Native[m + 1], prefer) ELSE f[n]]
             h == [n \in 0 .. m + 1 |-> IF n = 0 THEN Nothing ELSE Push(g[n - 1], Native[n], prefer)]
  <2>2. \A n \in 0 .. m : f[n] = IF n = 0 THEN Nothing ELSE Push(f[n - 1], Native[n], prefer)
    BY <2>1 DEF ForEach
  <2>3. ASSUME NEW n \in 0 .. m + 1 PROVE g[n] = h[n]
    <3>1. CASE n = m + 1
      <4>1. n # 0 /\ n - 1 = m /\ m \in 0 .. m + 1 /\ m # m + 1
        BY <3>1
      <4>2. g[m] = f[m]
        BY <4>1
      <4>3. h[n] = Push(g[m], Native[n], prefer)
        BY <4>1
      <4>4. g[n] = Push(f[m], Native[n], prefer)
        BY <3>1
      <4> QED BY <4>2, <4>3, <4>4
    <3>2. CASE n = 0
      <4>1. n # m + 1 /\ n \in 0 .. m
        BY <3>2
      <4>2. g[n] = Nothing
        BY <2>2, <3>2, <4>1
      <4> QED BY <3>2, <4>2
    <3>3. CASE n # 0 /\ n # m + 1
      <4>1. n \in 0 .. m /\ n - 1 \in 0 .. m + 1 /\ n - 1 # m + 1
        BY <3>3
      <4>2. g[n] = Push(f[n - 1], Native[n], prefer)
        BY <2>2, <3>3, <4>1
      <4>3. g[n - 1] = f[n - 1]
        BY <4>1
      <4>4. h[n] = Push(g[n - 1], Native[n], prefer)
        BY <3>3
      <4> QED BY <4>2, <4>3, <4>4
    <3> QED BY <3>1, <3>2, <3>3
  <2>4. g = h
    <3>1. DOMAIN g = 0 .. m + 1 /\ DOMAIN h = 0 .. m + 1
      OBVIOUS
    <3>2. g = [n \in 0 .. m + 1 |-> g[n]] /\ h = [n \in 0 .. m + 1 |-> h[n]]
      OBVIOUS
    <3> HIDE DEF g, h
    <3> QED BY <2>3, <3>1, <3>2
  <2>5. ForEach(g, m + 1, prefer)
    BY <2>4 DEF ForEach
  <2> QED BY <2>5
<1> HIDE DEF S
<1>3. Nat \subseteq S
  BY <1>1, <1>2, EveryNatural
<1> QED BY <1>3 DEF S

\* What the recursive definition stands for.
LEMMA MatchesAreForEach ==
    ASSUME NEW prefer
    PROVE  \E f : ForEach(f, Len(Native), prefer) /\ Matches(prefer) = f[Len(Native)]
<1>1. Len(Native) \in Nat
  BY NativeAssumption, LenProperties
<1>2. PICK f : ForEach(f, Len(Native), prefer)
  BY <1>1, ForEachExists
<1> DEFINE lists[n \in 0 .. Len(Native)] ==
            IF n = 0 THEN [exactMatch |-> <<>>, mimeMatch |-> <<>>, others |-> <<>>]
            ELSE Push(lists[n - 1], Native[n], prefer)
<1>3. ForEach(lists, Len(Native), prefer)
  BY <1>2 DEF ForEach, Nothing
<1>4. Matches(prefer) = lists[Len(Native)]
  BY DEF Matches
<1> HIDE DEF lists
<1> QED BY <1>3, <1>4

\* at says where the codecs of list stand among the first n of the browser's.
Picked(list, at, n, rank, prefer) ==
    /\ at \in Seq(1 .. n) /\ list \in Seq(ToSet(Native)) /\ Len(list) = Len(at)
    /\ \A i \in 1 .. Len(at) : list[i] = Native[at[i]]
    /\ \A i \in 1 .. Len(at) : Rank(Native[at[i]], prefer) = rank
    /\ \A i, j \in 1 .. Len(at) : i < j => at[i] < at[j]

Sorted(lists, n, prefer) ==
    /\ DOMAIN lists = {"exactMatch", "mimeMatch", "others"}
    /\ \E e, m, o \in Seq(1 .. n) :
           /\ Picked(lists.exactMatch, e, n, 0, prefer)
           /\ Picked(lists.mimeMatch, m, n, 1, prefer)
           /\ Picked(lists.others, o, n, 2, prefer)
           /\ Len(e) + Len(m) + Len(o) = n

\* The same with one codec more.
Longer(list, at, n, rank, prefer) ==
    /\ Picked(Append(list, Native[n + 1]), Append(at, n + 1), n + 1, rank, prefer)
    /\ Append(at, n + 1) \in Seq(1 .. n + 1) /\ Len(Append(at, n + 1)) = Len(at) + 1

LEMMA PickedIsPushed ==
    ASSUME NEW prefer, NEW n \in Nat, NEW list, NEW at, NEW rank, Picked(list, at, n, rank, prefer),
           Rank(Native[n + 1], prefer) = rank, Native[n + 1] \in ToSet(Native)
    PROVE  Longer(list, at, n, rank, prefer)
<1> DEFINE new == Append(at, n + 1)  codec == Native[n + 1]
<1>1. at \in Seq(1 .. n) /\ Len(at) \in Nat /\ \A i \in 1 .. Len(at) : at[i] \in 1 .. n
  BY LenProperties, ElementOfSeq DEF Picked
<1>2. at \in Seq(1 .. n + 1) /\ n + 1 \in 1 .. n + 1
  <2>1. 1 .. n \subseteq 1 .. n + 1
    OBVIOUS
  <2> QED BY <1>1, <2>1, SeqMonotonic
<1>3. /\ new \in Seq(1 .. n + 1) /\ Len(new) = Len(at) + 1
      /\ \A i \in 1 .. Len(at) : new[i] = at[i]
      /\ new[Len(at) + 1] = n + 1
  BY <1>2, AppendProperties
<1> HIDE DEF new, codec
<1>0. \A i \in 1 .. Len(new) : i = Len(at) + 1 \/ i \in 1 .. Len(at)
  <2>1. PICK len \in Nat : len = Len(at)
    BY <1>1
  <2>2. Len(new) = len + 1
    BY <1>3, <2>1
  <2>3. \A i \in 1 .. len + 1 : i = len + 1 \/ i \in 1 .. len
    BY <2>1
  <2> QED BY <2>1, <2>2, <2>3
<1>4. list \in Seq(ToSet(Native)) /\ Len(list) = Len(at) /\ codec \in ToSet(Native)
  BY DEF Picked, codec
<1>5. /\ Append(list, codec) \in Seq(ToSet(Native)) /\ Len(Append(list, codec)) = Len(at) + 1
      /\ \A i \in 1 .. Len(at) : Append(list, codec)[i] = list[i]
      /\ Append(list, codec)[Len(at) + 1] = codec
  BY <1>4, AppendProperties
<1>6. \A i \in 1 .. Len(new) : Append(list, codec)[i] = Native[new[i]]
  <2> TAKE i \in 1 .. Len(new)
  <2>1. CASE i = Len(at) + 1
    BY <1>3, <1>5, <2>1 DEF codec
  <2>2. CASE i \in 1 .. Len(at)
    BY <1>3, <1>5, <2>2 DEF Picked
  <2> QED BY <1>0, <2>1, <2>2
<1>7. Len(Append(list, codec)) = Len(new)
  BY <1>3, <1>5
<1>8. \A i \in 1 .. Len(new) : Rank(Native[new[i]], prefer) = rank
  <2> TAKE i \in 1 .. Len(new)
  <2>1. CASE i = Len(at) + 1
    BY <1>3, <2>1
  <2>2. CASE i \in 1 .. Len(at)
    BY <1>3, <2>2 DEF Picked
  <2> QED BY <1>0, <2>1, <2>2
<1>9. \A i, j \in 1 .. Len(new) : i < j => new[i] < new[j]
  <2> SUFFICES ASSUME NEW i \in 1 .. Len(new), NEW j \in 1 .. Len(new), i < j
               PROVE  new[i] < new[j]
    OBVIOUS
  <2>1. i \in 1 .. Len(at)
    <3>1. Len(at) \in Nat /\ i \in Int /\ j \in Int /\ j <= Len(at) + 1
      BY <1>0, <1>1
    <3> QED BY <1>0, <3>1
  <2>2. CASE j = Len(at) + 1
    <3>1. new[i] = at[i] /\ at[i] \in 1 .. n /\ new[j] = n + 1
      BY <1>1, <1>3, <2>1, <2>2
    <3> QED BY <3>1
  <2>3. CASE j \in 1 .. Len(at)
    BY <1>3, <2>1, <2>3 DEF Picked
  <2> QED BY <1>0, <2>2, <2>3
<1> QED BY <1>3, <1>5, <1>6, <1>7, <1>8, <1>9 DEF Picked, Longer, new, codec

LEMMA PickedStays ==
    ASSUME NEW prefer, NEW n \in Nat, NEW list, NEW at, NEW rank, Picked(list, at, n, rank, prefer)
    PROVE  Picked(list, at, n + 1, rank, prefer) /\ at \in Seq(1 .. n + 1)
<1>1. 1 .. n \subseteq 1 .. n + 1
  OBVIOUS
<1>2. at \in Seq(1 .. n + 1)
  BY <1>1, SeqMonotonic DEF Picked
<1> QED BY <1>2 DEF Picked

LEMMA SortedIsPushed ==
    ASSUME NEW prefer, prefer # None, NEW n \in Nat, NEW lists, Sorted(lists, n, prefer),
           Native[n + 1] \in ToSet(Native)
    PROVE  Sorted(Push(lists, Native[n + 1], prefer), n + 1, prefer)
<1> DEFINE codec == Native[n + 1]
           new == Push(lists, codec, prefer)
<1>1. PICK e, m, o \in Seq(1 .. n) :
          /\ Picked(lists.exactMatch, e, n, 0, prefer)
          /\ Picked(lists.mimeMatch, m, n, 1, prefer)
          /\ Picked(lists.others, o, n, 2, prefer)
          /\ Len(e) + Len(m) + Len(o) = n
  BY DEF Sorted
<1>2. DOMAIN lists = {"exactMatch", "mimeMatch", "others"}
  BY DEF Sorted
<1>3. Len(e) \in Nat /\ Len(m) \in Nat /\ Len(o) \in Nat
  BY LenProperties
<1>4. /\ Picked(lists.exactMatch, e, n + 1, 0, prefer) /\ e \in Seq(1 .. n + 1)
      /\ Picked(lists.mimeMatch, m, n + 1, 1, prefer) /\ m \in Seq(1 .. n + 1)
      /\ Picked(lists.others, o, n + 1, 2, prefer) /\ o \in Seq(1 .. n + 1)
  BY <1>1, PickedStays
<1>5. CASE codec.mimeType # prefer.mimeType
  <2>1. Rank(codec, prefer) = 2
    BY <1>5 DEF Rank
  <2>2. new = [lists EXCEPT !.others = Append(@, codec)]
    BY <1>5 DEF Push
  <2>3. /\ Picked(Append(lists.others, codec), Append(o, n + 1), n + 1, 2, prefer)
        /\ Append(o, n + 1) \in Seq(1 .. n + 1) /\ Len(Append(o, n + 1)) = Len(o) + 1
    <3>1. PICK rank, list : rank = 2 /\ list = lists.others
      OBVIOUS
    <3>2. Picked(list, o, n, rank, prefer) /\ Rank(Native[n + 1], prefer) = rank
      BY <1>1, <2>1, <3>1
    <3>3. Longer(list, o, n, rank, prefer)
      BY <3>2, PickedIsPushed
    <3> QED BY <3>1, <3>3 DEF Longer
  <2>4. Len(e) + Len(m) + Len(Append(o, n + 1)) = n + 1
    BY <1>1, <1>3, <2>3
  <2>5. /\ new.exactMatch = lists.exactMatch /\ new.mimeMatch = lists.mimeMatch
        /\ new.others = Append(lists.others, codec)
        /\ DOMAIN new = {"exactMatch", "mimeMatch", "others"}
    BY <1>2, <2>2
  <2> HIDE DEF new, codec
  <2> QED BY <1>4, <2>3, <2>4, <2>5 DEF Sorted, new, codec
<1>6. CASE codec.mimeType = prefer.mimeType /\ codec.sdpFmtpLine = prefer.sdpFmtpLine
  <2>1. Rank(codec, prefer) = 0
    BY <1>6 DEF Rank
  <2>2. new = [lists EXCEPT !.exactMatch = Append(@, codec)]
    BY <1>6 DEF Push
  <2>3. /\ Picked(Append(lists.exactMatch, codec), Append(e, n + 1), n + 1, 0, prefer)
        /\ Append(e, n + 1) \in Seq(1 .. n + 1) /\ Len(Append(e, n + 1)) = Len(e) + 1
    <3>1. PICK rank, list : rank = 0 /\ list = lists.exactMatch
      OBVIOUS
    <3>2. Picked(list, e, n, rank, prefer) /\ Rank(Native[n + 1], prefer) = rank
      BY <1>1, <2>1, <3>1
    <3>3. Longer(list, e, n, rank, prefer)
      BY <3>2, PickedIsPushed
    <3> QED BY <3>1, <3>3 DEF Longer
  <2>4. Len(Append(e, n + 1)) + Len(m) + Len(o) = n + 1
    BY <1>1, <1>3, <2>3
  <2>5. /\ new.others = lists.others /\ new.mimeMatch = lists.mimeMatch
        /\ new.exactMatch = Append(lists.exactMatch, codec)
        /\ DOMAIN new = {"exactMatch", "mimeMatch", "others"}
    BY <1>2, <2>2
  <2> HIDE DEF new, codec
  <2> QED BY <1>4, <2>3, <2>4, <2>5 DEF Sorted, new, codec
<1>7. CASE codec.mimeType = prefer.mimeType /\ codec.sdpFmtpLine # prefer.sdpFmtpLine
  <2>1. Rank(codec, prefer) = 1
    BY <1>7 DEF Rank
  <2>2. new = [lists EXCEPT !.mimeMatch = Append(@, codec)]
    BY <1>7 DEF Push
  <2>3. /\ Picked(Append(lists.mimeMatch, codec), Append(m, n + 1), n + 1, 1, prefer)
        /\ Append(m, n + 1) \in Seq(1 .. n + 1) /\ Len(Append(m, n + 1)) = Len(m) + 1
    <3>1. PICK rank, list : rank = 1 /\ list = lists.mimeMatch
      OBVIOUS
    <3>2. Picked(list, m, n, rank, prefer) /\ Rank(Native[n + 1], prefer) = rank
      BY <1>1, <2>1, <3>1
    <3>3. Longer(list, m, n, rank, prefer)
      BY <3>2, PickedIsPushed
    <3> QED BY <3>1, <3>3 DEF Longer
  <2>4. Len(e) + Len(Append(m, n + 1)) + Len(o) = n + 1
    BY <1>1, <1>3, <2>3
  <2>5. /\ new.exactMatch = lists.exactMatch /\ new.others = lists.others
        /\ new.mimeMatch = Append(lists.mimeMatch, codec)
        /\ DOMAIN new = {"exactMatch", "mimeMatch", "others"}
    BY <1>2, <2>2
  <2> HIDE DEF new, codec
  <2> QED BY <1>4, <2>3, <2>4, <2>5 DEF Sorted, new, codec
<1> QED BY <1>5, <1>6, <1>7

\* Every codec is in one of the lists, where it belongs.
LEMMA MatchesAreSorted ==
    ASSUME NEW prefer, prefer # None
    PROVE  Sorted(Matches(prefer), Len(Native), prefer)
<1> DEFINE N == Len(Native)
<1>1. N \in Nat
  BY NativeAssumption, LenProperties
<1>2. PICK f : ForEach(f, N, prefer) /\ Matches(prefer) = f[N]
  BY MatchesAreForEach
<1> HIDE DEF N
<1>3. \A n \in 0 .. N : f[n] = IF n = 0 THEN Nothing ELSE Push(f[n - 1], Native[n], prefer)
  BY <1>2 DEF ForEach
<1> DEFINE S == {n \in Nat : n <= N => Sorted(f[n], n, prefer)}
<1>4. 0 \in S
  <2>1. f[0] = Nothing
    BY <1>1, <1>3
  <2>2. <<>> \in Seq(1 .. 0) /\ Len(<<>>) = 0
    BY EmptySeq
  <2>3. <<>> \in Seq(ToSet(Native))
    BY EmptySeq
  <2>4. \A rank : Picked(<<>>, <<>>, 0, rank, prefer)
    <3>1. 1 .. 0 = {}
      OBVIOUS
    <3> QED BY <2>2, <2>3, <3>1 DEF Picked
  <2>5. /\ Nothing.exactMatch = <<>> /\ Nothing.mimeMatch = <<>> /\ Nothing.others = <<>>
        /\ DOMAIN Nothing = {"exactMatch", "mimeMatch", "others"}
    BY DEF Nothing
  <2>6. Len(<<>>) + Len(<<>>) + Len(<<>>) = 0
    BY <2>2
  <2>7. Sorted(Nothing, 0, prefer)
    BY <2>2, <2>4, <2>5, <2>6 DEF Sorted
  <2> QED BY <2>1, <2>7
<1>5. ASSUME NEW n \in Nat, n \in S PROVE n + 1 \in S
  <2> SUFFICES ASSUME n + 1 <= N PROVE Sorted(f[n + 1], n + 1, prefer)
    OBVIOUS
  <2>1. n <= N /\ n + 1 \in 0 .. N /\ n + 1 # 0 /\ (n + 1) - 1 = n
    BY <1>1
  <2>2. Sorted(f[n], n, prefer)
    BY <1>5, <2>1
  <2>3. f[n + 1] = Push(f[n], Native[n + 1], prefer)
    BY <1>3, <2>1
  <2>4. Native[n + 1] \in ToSet(Native)
    BY <1>1, <2>1, NativeAssumption, ElementOfSeq DEF N
  <2> QED BY <2>2, <2>3, <2>4, SortedIsPushed
<1> HIDE DEF S
<1>6. N \in S
  BY <1>1, <1>4, <1>5, EveryNatural
<1> QED BY <1>1, <1>2, <1>6 DEF S, N

\* What is first in the lists is first for the browser or ranks before.
Before(p, i, j, prefer) ==
    LET first == Rank(Native[p[i]], prefer)
        second == Rank(Native[p[j]], prefer)
    IN  first < second \/ (first = second /\ p[i] < p[j])

\* No codec twice: places that are in order are different.
LEMMA OrderIsPreferred ==
    ASSUME NEW prefer, NEW N \in Nat, N = Len(Native), NEW codecs, NEW p \in Seq(1 .. N),
           codecs \in Seq(ToSet(Native)), Len(codecs) = N, Len(p) = N,
           \A i \in 1 .. N : codecs[i] = Native[p[i]],
           \A i, j \in 1 .. N : i < j => Before(p, i, j, prefer)
    PROVE  Preferred(codecs, prefer)
<1>1. DOMAIN Native = 1 .. N
  BY NativeAssumption, LenProperties
<1>2. p \in [1 .. N -> 1 .. N] /\ codecs = [i \in 1 .. N |-> codecs[i]]
  BY LenProperties
<1>3. codecs = [i \in 1 .. N |-> Native[p[i]]]
  BY <1>2
<1>4. \A prefer_, codec : Rank(codec, prefer_) \in Int
  BY DEF Rank
<1>5. \A i, j \in 1 .. N : p[i] = p[j] => i = j
  <2>1. \A i, j \in 1 .. N : i < j => p[i] # p[j]
    <3> SUFFICES ASSUME NEW i \in 1 .. N, NEW j \in 1 .. N, i < j, p[i] = p[j] PROVE FALSE
      OBVIOUS
    <3>1. PICK r \in Int : r = Rank(Native[p[i]], prefer)
      BY <1>4
    <3>2. r < r \/ p[i] < p[i]
      BY <3>1 DEF Before
    <3>3. p[i] \in Int
      BY <1>2
    <3> QED BY <3>1, <3>2, <3>3
  <2> QED BY <2>1
<1>6. p \in Injection(DOMAIN Native, DOMAIN Native)
  BY <1>1, <1>2, <1>5 DEF Injection, IsInjective
<1> QED BY <1>1, <1>3, <1>6 DEF Preferred, Before

LEMMA NativeIsPreferred == Preferred(Native, None)
<1>1. PICK N \in Nat : N = Len(Native) /\ DOMAIN Native = 1 .. N
  BY NativeAssumption, LenProperties
<1> DEFINE p == [i \in 1 .. N |-> i]
<1>2. p \in Seq(1 .. N) /\ Len(p) = N /\ \A i \in 1 .. N : p[i] = i
  BY <1>1
<1> HIDE DEF p
<1>3. \A i, j \in 1 .. N : i < j => Before(p, i, j, None)
  BY <1>2 DEF Before, Rank
<1> QED BY <1>1, <1>2, <1>3, NativeAssumption, OrderIsPreferred

\* all is three lists in a row.
Row(all, e, m, o, a, b, c) ==
    /\ Len(all) = a + b + c
    /\ \A i \in 1 .. a : all[i] = e[i]
    /\ \A i \in 1 .. b : all[a + i] = m[i]
    /\ \A i \in 1 .. c : all[a + b + i] = o[i]

LEMMA Joined ==
    ASSUME NEW S, NEW e \in Seq(S), NEW m \in Seq(S), NEW o \in Seq(S),
           NEW a \in Nat, NEW b \in Nat, NEW c \in Nat, a = Len(e), b = Len(m), c = Len(o)
    PROVE  e \o m \o o \in Seq(S) /\ Row(e \o m \o o, e, m, o, a, b, c)
<1>1. /\ e \o m \in Seq(S) /\ Len(e \o m) = a + b
      /\ \A i \in 1 .. a + b : (e \o m)[i] = IF i <= a THEN e[i] ELSE m[i - a]
  BY ConcatProperties
<1>2. PICK em \in Seq(S) : em = e \o m
  BY <1>1
<1>3. /\ em \o o \in Seq(S) /\ Len(em \o o) = a + b + c
      /\ \A i \in 1 .. a + b + c : (em \o o)[i] = IF i <= a + b THEN em[i] ELSE o[i - (a + b)]
  BY <1>1, <1>2, ConcatProperties
<1>4. PICK emo \in Seq(S) : emo = em \o o
  BY <1>3
<1>5. \A i \in 1 .. a : emo[i] = e[i]
  <2> TAKE i \in 1 .. a
  <2>1. i \in 1 .. a + b /\ i \in 1 .. a + b + c /\ i <= a + b /\ i <= a
    OBVIOUS
  <2>2. emo[i] = em[i]
    BY <1>3, <1>4, <2>1
  <2>3. em[i] = e[i]
    BY <1>1, <1>2, <2>1
  <2> QED BY <2>2, <2>3
<1>6. \A i \in 1 .. b : emo[a + i] = m[i]
  <2> TAKE i \in 1 .. b
  <2>1. a + i \in 1 .. a + b /\ a + i \in 1 .. a + b + c /\ a + i <= a + b /\ ~(a + i <= a)
        /\ (a + i) - a = i
    OBVIOUS
  <2>2. emo[a + i] = em[a + i]
    BY <1>3, <1>4, <2>1
  <2>3. em[a + i] = m[(a + i) - a]
    BY <1>1, <1>2, <2>1
  <2> QED BY <2>1, <2>2, <2>3
<1>7. \A i \in 1 .. c : emo[a + b + i] = o[i]
  <2> TAKE i \in 1 .. c
  <2>1. a + b + i \in 1 .. a + b + c /\ ~(a + b + i <= a + b) /\ (a + b + i) - (a + b) = i
    OBVIOUS
  <2>2. emo[a + b + i] = o[(a + b + i) - (a + b)]
    BY <1>3, <1>4, <2>1
  <2> QED BY <2>1, <2>2
<1> QED BY <1>2, <1>3, <1>4, <1>5, <1>6, <1>7 DEF Row

LEMMA SortedIsPreferred ==
    ASSUME NEW prefer, prefer # None
    PROVE  Preferred(sortedCodecs(prefer), prefer)
<1>1. PICK N \in Nat : N = Len(Native)
  BY NativeAssumption, LenProperties
<1>2. PICK exact, mime, others : /\ exact = Matches(prefer).exactMatch
                                 /\ mime = Matches(prefer).mimeMatch
                                 /\ others = Matches(prefer).others
  OBVIOUS
<1>3. PICK e, m, o \in Seq(1 .. N) :
          /\ Picked(exact, e, N, 0, prefer) /\ Picked(mime, m, N, 1, prefer)
          /\ Picked(others, o, N, 2, prefer)
          /\ Len(e) + Len(m) + Len(o) = N
  BY <1>1, <1>2, MatchesAreSorted DEF Sorted
<1>4. PICK a, b, c \in Nat : a = Len(e) /\ b = Len(m) /\ c = Len(o) /\ a + b + c = N
  BY <1>3, LenProperties
<1>5. /\ exact \in Seq(ToSet(Native)) /\ mime \in Seq(ToSet(Native)) /\ others \in Seq(ToSet(Native))
      /\ a = Len(exact) /\ b = Len(mime) /\ c = Len(others)
  BY <1>3, <1>4 DEF Picked
<1>6. PICK p : p = e \o m \o o
  OBVIOUS
<1>7. PICK codecs : codecs = exact \o mime \o others /\ codecs = sortedCodecs(prefer)
  BY <1>2 DEF sortedCodecs
<1>8. /\ p \in Seq(1 .. N) /\ Len(p) = N
      /\ \A i \in 1 .. a : p[i] = e[i]
      /\ \A i \in 1 .. b : p[a + i] = m[i]
      /\ \A i \in 1 .. c : p[a + b + i] = o[i]
  <2>1. p \in Seq(1 .. N) /\ Row(p, e, m, o, a, b, c)
    BY <1>4, <1>6, Joined
  <2> QED BY <1>4, <2>1 DEF Row
<1>9. /\ codecs \in Seq(ToSet(Native)) /\ Len(codecs) = N
      /\ \A i \in 1 .. a : codecs[i] = exact[i]
      /\ \A i \in 1 .. b : codecs[a + i] = mime[i]
      /\ \A i \in 1 .. c : codecs[a + b + i] = others[i]
  <2>1. PICK S : S = ToSet(Native)
    OBVIOUS
  <2>2. exact \in Seq(S) /\ mime \in Seq(S) /\ others \in Seq(S)
    BY <1>5, <2>1
  <2>3. codecs \in Seq(S) /\ Row(codecs, exact, mime, others, a, b, c)
    <3>1. a = Len(exact) /\ b = Len(mime) /\ c = Len(others)
      BY <1>5
    <3>2. /\ exact \o mime \o others \in Seq(S)
          /\ Row(exact \o mime \o others, exact, mime, others, a, b, c)
      BY <2>2, <3>1, Joined, ZenonT(30)
    <3> QED BY <1>7, <3>2
  <2> QED BY <1>4, <2>1, <2>3 DEF Row
<1> DEFINE rank(i) == IF i <= a THEN 0 ELSE IF i <= a + b THEN 1 ELSE 2
<1>10. ASSUME NEW i \in 1 .. N
       PROVE  \/ i - 0 \in 1 .. a /\ i \in 1 .. a
              \/ i - a \in 1 .. b /\ i > a
              \/ i - (a + b) \in 1 .. c /\ i > a + b
  BY <1>4
<1>11. ASSUME NEW i \in 1 .. N
       PROVE  codecs[i] = Native[p[i]] /\ Rank(Native[p[i]], prefer) = rank(i)
  <2>1. CASE i \in 1 .. a
    <3>1. codecs[i] = exact[i] /\ p[i] = e[i] /\ exact[i] = Native[e[i]] /\ Rank(Native[e[i]], prefer) = 0
      BY <1>3, <1>4, <1>5, <1>8, <1>9, <2>1 DEF Picked
    <3>2. rank(i) = 0
      BY <2>1
    <3> QED BY <3>1, <3>2
  <2>2. CASE i - a \in 1 .. b /\ i > a
    <3>1. PICK k \in 1 .. b : k = i - a
      BY <2>2
    <3>2. i = a + k
      BY <3>1
    <3>3. codecs[i] = mime[k] /\ p[i] = m[k]
      BY <1>8, <1>9, <3>2
    <3>4. mime[k] = Native[m[k]] /\ Rank(Native[m[k]], prefer) = 1
      BY <1>3, <1>4, <1>5 DEF Picked
    <3>5. rank(i) = 1
      BY <3>2
    <3> HIDE DEF rank
    <3> QED BY <3>3, <3>4, <3>5
  <2>3. CASE i - (a + b) \in 1 .. c /\ i > a + b
    <3>1. PICK k \in 1 .. c : k = i - (a + b)
      BY <2>3
    <3>2. i = a + b + k
      BY <3>1
    <3>3. codecs[i] = others[k] /\ p[i] = o[k]
      BY <1>8, <1>9, <3>2
    <3>4. others[k] = Native[o[k]] /\ Rank(Native[o[k]], prefer) = 2
      BY <1>3, <1>4, <1>5 DEF Picked
    <3>5. rank(i) = 2
      BY <3>2
    <3> HIDE DEF rank
    <3> QED BY <3>3, <3>4, <3>5
  <2> QED BY <1>10, <2>1, <2>2, <2>3
<1>12. ASSUME NEW i \in 1 .. N, NEW j \in 1 .. N, i < j
       PROVE  Before(p, i, j, prefer)
  <2>1. CASE rank(i) = rank(j)
    <3>1. p[i] < p[j]
      <4>1. CASE j <= a
        <5>1. i \in 1 .. a /\ j \in 1 .. a
          BY <1>12, <4>1
        <5> QED BY <1>3, <1>4, <1>8, <1>12, <5>1 DEF Picked
      <4>2. CASE i > a /\ j <= a + b
        <5>1. PICK k, l \in 1 .. b : i = a + k /\ j = a + l /\ k < l
          <6>1. i - a \in 1 .. b /\ j - a \in 1 .. b /\ i - a < j - a
            BY <1>12, <4>2
          <6>2. i = a + (i - a) /\ j = a + (j - a)
            OBVIOUS
          <6> QED BY <6>1, <6>2
        <5>2. p[i] = m[k] /\ p[j] = m[l]
          BY <1>8, <5>1
        <5>3. m[k] < m[l]
          BY <1>3, <1>4, <5>1 DEF Picked
        <5> QED BY <5>2, <5>3
      <4>3. CASE i > a + b
        <5>1. PICK k, l \in 1 .. c : i = a + b + k /\ j = a + b + l /\ k < l
          <6>1. i - (a + b) \in 1 .. c /\ j - (a + b) \in 1 .. c /\ i - (a + b) < j - (a + b)
            BY <1>4, <1>12, <4>3
          <6>2. i = a + b + (i - (a + b)) /\ j = a + b + (j - (a + b))
            OBVIOUS
          <6> QED BY <6>1, <6>2
        <5>2. p[i] = o[k] /\ p[j] = o[l]
          BY <1>8, <5>1
        <5>3. o[k] < o[l]
          BY <1>3, <1>4, <5>1 DEF Picked
        <5> QED BY <5>2, <5>3
      <4>4. j <= a \/ (i > a /\ j <= a + b) \/ i > a + b
        BY <1>12, <2>1
      <4> QED BY <4>1, <4>2, <4>3, <4>4
    <3>2. Rank(Native[p[i]], prefer) = Rank(Native[p[j]], prefer)
      BY <1>11, <2>1
    <3> QED BY <3>1, <3>2 DEF Before
  <2>2. CASE rank(i) # rank(j)
    <3>1. rank(i) < rank(j)
      BY <1>12, <2>2
    <3> HIDE DEF rank
    <3>2. Rank(Native[p[i]], prefer) < Rank(Native[p[j]], prefer)
      BY <1>11, <3>1
    <3> QED BY <3>2 DEF Before
  <2> QED BY <2>1, <2>2
<1> HIDE DEF rank
<1>13. Preferred(codecs, prefer)
  BY <1>1, <1>8, <1>9, <1>11, <1>12, OrderIsPreferred
<1> QED BY <1>7, <1>13

\* Whatever the browser has, in whatever order, and whatever is preferred: a session
\* offers each of its codecs as often as it is there, sorted by how it matches and else in
\* the order of the browser (hostSession).
THEOREM CodecsAreSorted == Spec => []CodecsArePreferred
<1>1. Init => CodecsArePreferred
  BY DEF Init, CodecsArePreferred
<1>2. CodecsArePreferred /\ [Next]_vars => CodecsArePreferred'
  <2> SUFFICES ASSUME CodecsArePreferred, [Next]_vars PROVE CodecsArePreferred'
    OBVIOUS
  <2>1. CASE HostSession
    <3>1. PICK prefer : session' =
                [shareQuality |-> loadSettings(stored).shareQuality, prefer |-> prefer,
                 codecs |-> IF prefer = None THEN Native ELSE sortedCodecs(prefer)]
      BY <2>1 DEF HostSession
    <3>2. PICK codecs : codecs = IF prefer = None THEN Native ELSE sortedCodecs(prefer)
      OBVIOUS
    <3>3. Preferred(codecs, prefer)
      BY <3>2, NativeIsPreferred, SortedIsPreferred
    <3>4. session' = [shareQuality |-> loadSettings(stored).shareQuality, prefer |-> prefer,
                      codecs |-> codecs]
      BY <3>1, <3>2
    <3> QED BY <3>3, <3>4 DEF CodecsArePreferred
  <2>2. CASE session' = None \/ session' = session
    BY <2>2 DEF CodecsArePreferred
  <2>3. HostSession \/ session' = None \/ session' = session
    BY DEF Next, vars, EnterRoom, LeaveRoom, OpenDialog, Choose, Cancel, Save, Type,
           SavesElsewhere, Share
  <2> QED BY <2>1, <2>2, <2>3
<1> QED BY <1>1, <1>2, PTL DEF Spec

=============================================================================
